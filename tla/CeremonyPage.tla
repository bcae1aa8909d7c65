------------------------------ MODULE CeremonyPage ------------------------------
(***************************************************************************)
(* The three pages that start with a passkey ceremony: the login page,     *)
(* whose button competes with the browser's autofill (passkey_login.js),   *)
(* and the sign-up and recovery pages, which have only a button            *)
(* (passkey_signup.js, passkey_recover.js).  A ceremony is a POST, a call  *)
(* of navigator.credentials and a second POST (passkey.js); each of the    *)
(* three answers, refuses or is aborted in its own time, and a step of the *)
(* model is one callback.                                                  *)
(***************************************************************************)
EXTENDS Naturals, Sequences

CONSTANT MaxAttempts  \* bound: ceremonies begun by clicks and timers

ASSUME MaxAttemptsAssumption == MaxAttempts \in Nat

VARIABLES
    page,        \* which of the three, for good
    conditional, \* isConditionalMediationAvailable: absent, or its answer
    generation,
    attempts,    \* every ceremony begun, in order; a callback's closure is its index
    controller,  \* the attempt the page could abort, or 0
    armed,       \* timeouts that run, each named after the attempt that set it
    timer,       \* the timeout the page could clear, or 0
    disabled,    \* the button
    error,       \* the message shown
    leaving      \* attempts that called window.location.assign

vars == <<page, conditional, generation, attempts, controller, armed, timer,
          disabled, error, leaving>>
config == <<page, conditional>>

\* "available": before isConditionalMediationAvailable answers; "ceremony": in
\* navigator.credentials.get or create.
Attempt == [kind : {"autofill", "click"}, gen : Nat, aborted : BOOLEAN,
            pc : {"available", "begin", "ceremony", "finish", "over"}]

Started(kind, gen, pc) == [kind |-> kind, gen |-> gen, aborted |-> FALSE, pc |-> pc]

\* startAutofill: it captures the generation and asks the browser.
WithAutofill(as, gen) ==
    IF page = "login" /\ conditional # "missing"
    THEN Append(as, Started("autofill", gen, "available"))
    ELSE as

\* stopAutofill, what controller.abort() does to the attempts.
Stopped ==
    [i \in DOMAIN attempts |->
        [attempts[i] EXCEPT !.aborted = @ \/ i = controller]]

Cleared_Forgotten == armed
\* stopAutofill, what clearTimeout does to the timeouts.
Cleared == armed \ {timer}

Init ==
    /\ page \in {"login", "signup", "recover"}
    /\ conditional \in {"missing", "no", "yes"}
    /\ generation = 0
    /\ attempts = WithAutofill(<<>>, 0)
    /\ controller = 0
    /\ armed = {}
    /\ timer = 0
    /\ disabled = FALSE
    /\ error = "none"
    /\ leaving = {}
-----------------------------------------------------------------------------
(* The button and the timer. *)

\* A click or a submit; the login page stops whatever is in flight first, and the
\* new attempt's controller is the page's.  create() takes no signal.
Click ==
    /\ ~disabled
    /\ Len(attempts) < MaxAttempts
    /\ generation' = generation + 1
    /\ error' = "none"
    /\ disabled' = TRUE
    /\ IF page = "login"
       THEN /\ attempts' = Append(Stopped, Started("click", generation + 1, "begin"))
            /\ controller' = Len(attempts) + 1
            /\ armed' = Cleared
            /\ timer' = 0
       ELSE /\ attempts' = Append(attempts, Started("click", generation + 1, "begin"))
            /\ UNCHANGED <<controller, armed, timer>>
    /\ UNCHANGED <<config, leaving>>

TimerFires_SameGeneration(t) ==
    /\ t \in armed
    /\ Len(attempts) < MaxAttempts
    /\ attempts' = WithAutofill(Stopped, generation + 1)
    /\ controller' = 0
    /\ armed' = Cleared \ {t}
    /\ timer' = 0
    /\ UNCHANGED <<config, generation, disabled, error, leaving>>
\* 270 seconds: stop the outstanding request, then ask for a new one.
TimerFires(t) ==
    /\ t \in armed
    /\ Len(attempts) < MaxAttempts
    /\ generation' = generation + 1
    /\ attempts' = WithAutofill(Stopped, generation + 1)
    /\ controller' = 0
    /\ armed' = Cleared \ {t}
    /\ timer' = 0
    /\ UNCHANGED <<config, disabled, error, leaving>>
-----------------------------------------------------------------------------
(* The callbacks of attempt i. *)

Superseded_Never(i) == FALSE
\* gen !== generation.
Superseded(i) == attempts[i].gen # generation

Over(i) == [attempts EXCEPT ![i].pc = "over"]

\* isConditionalMediationAvailable answers: the attempt gets its controller, and the
\* page its timer, unless something else was begun meanwhile.
AvailableAnswers(i) ==
    /\ attempts[i].pc = "available"
    /\ IF Superseded(i) \/ conditional = "no"
       THEN /\ attempts' = Over(i)
            /\ UNCHANGED <<controller, armed, timer>>
       ELSE /\ attempts' = [attempts EXCEPT ![i].pc = "begin"]
            /\ controller' = i
            /\ armed' = armed \union {i}
            /\ timer' = i
    /\ UNCHANGED <<config, generation, disabled, error, leaving>>

AutofillCatch_Unchecked(i, why) ==
    /\ attempts' = Over(i)
    /\ error' = why
    /\ UNCHANGED disabled
\* The catch of startAutofill.
AutofillCatch(i, why) ==
    /\ attempts' = Over(i)
    /\ error' = IF Superseded(i) \/ attempts[i].aborted THEN error ELSE why
    /\ UNCHANGED disabled

ClickCatch_NoAutofill(i, why) ==
    /\ attempts' = Over(i)
    /\ disabled' = (disabled /\ Superseded(i))
    /\ error' = IF Superseded(i) \/ attempts[i].aborted THEN error ELSE why
\* The catch of a click or a submit; only the login page has an autofill to restart.
ClickCatch(i, why) ==
    /\ attempts' = IF Superseded(i) THEN Over(i) ELSE WithAutofill(Over(i), generation)
    /\ disabled' = (disabled /\ Superseded(i))
    /\ error' = IF Superseded(i) \/ attempts[i].aborted THEN error ELSE why

Catch(i, why) ==
    /\ IF attempts[i].kind = "autofill" THEN AutofillCatch(i, why) ELSE ClickCatch(i, why)
    /\ UNCHANGED <<config, generation, controller, armed, timer, leaving>>

\* A request the browser has shown, or lists in the autofill, and nobody aborted.
Live(i) == attempts[i].pc = "ceremony" /\ ~attempts[i].aborted

\* begin answers and the browser is called; it rejects an aborted signal at once.
BeginAnswers(i) ==
    /\ attempts[i].pc = "begin"
    /\ \/ /\ attempts[i].aborted
          /\ Catch(i, "abort")
       \/ /\ ~attempts[i].aborted
          /\ attempts' = [attempts EXCEPT ![i].pc = "ceremony"]
          /\ UNCHANGED <<config, generation, controller, armed, timer, disabled,
                         error, leaving>>

\* begin is refused, or the connection is lost.
BeginFails(i) ==
    /\ attempts[i].pc = "begin"
    /\ Catch(i, "server")

\* The user picks a passkey, in the prompt or from the autofill.
UserConfirms(i) ==
    /\ Live(i)
    /\ attempts' = [attempts EXCEPT ![i].pc = "finish"]
    /\ UNCHANGED <<config, generation, controller, armed, timer, disabled, error, leaving>>

\* The user dismisses the prompt, or the browser gives the request up.
UserDismisses(i) ==
    /\ Live(i)
    /\ Catch(i, "cancelled")

\* The rejection that controller.abort() caused arrives.
AbortArrives(i) ==
    /\ attempts[i].pc = "ceremony"
    /\ attempts[i].aborted
    /\ Catch(i, "abort")

\* The second POST succeeds.  The login page's finish() leaves without a look at
\* the generation, the others look.
FinishAnswers(i) ==
    /\ attempts[i].pc = "finish"
    /\ attempts' = Over(i)
    /\ leaving' = IF page # "login" /\ Superseded(i) THEN leaving ELSE leaving \union {i}
    /\ UNCHANGED <<config, generation, controller, armed, timer, disabled, error>>

FinishFails(i) ==
    /\ attempts[i].pc = "finish"
    /\ Catch(i, "server")

Next ==
    \/ Click
    \/ \E t \in armed : TimerFires(t)
    \/ \E i \in DOMAIN attempts :
          \/ AvailableAnswers(i) \/ BeginAnswers(i) \/ BeginFails(i)
          \/ UserConfirms(i) \/ UserDismisses(i) \/ AbortArrives(i)
          \/ FinishAnswers(i) \/ FinishFails(i)

Spec == Init /\ [][Next]_vars

\* Every request is answered or fails, and a prompt the user opened is answered,
\* dismissed or given up by the browser; an autofill may wait for ever.
Settles(i) ==
    /\ i \in DOMAIN attempts
    /\ \/ BeginAnswers(i) \/ BeginFails(i) \/ AbortArrives(i)
       \/ FinishAnswers(i) \/ FinishFails(i)
       \/ attempts[i].kind = "click" /\ (UserConfirms(i) \/ UserDismisses(i))
Fairness == \A i \in 1 .. MaxAttempts + 1 : WF_vars(Settles(i))
FairSpec == Spec /\ Fairness
-----------------------------------------------------------------------------
(* Properties. *)

\* Every variable holds a value of its kind.
TypeOK ==
    /\ page \in {"login", "signup", "recover"}
    /\ conditional \in {"missing", "no", "yes"}
    /\ generation \in Nat
    /\ attempts \in Seq(Attempt)
    /\ \A i \in DOMAIN attempts : attempts[i].gen <= generation
    /\ controller \in 0 .. Len(attempts)
    /\ armed \subseteq Nat
    /\ timer \in Nat
    /\ disabled \in BOOLEAN
    /\ error \in {"none", "server", "cancelled", "abort"}
    /\ leaving \subseteq DOMAIN attempts

\* At most one navigator.credentials call is ever live, whatever the order of
\* clicks, timeouts and answers: the browser rejects a second one, and the user
\* would see an error of nobody's making.
OneLiveGet ==
    \A i, j \in DOMAIN attempts : Live(i) /\ Live(j) => i = j

\* A conditional request never outlives its challenge: as long as it may still be
\* answered, the timeout that replaces it is running.
AutofillIsTimed ==
    \A i \in DOMAIN attempts :
        attempts[i].kind = "autofill" /\ Live(i) => i \in armed

\* The login page does not lose its autofill: whenever the button is enabled, a
\* request is being set up or the timeout that renews it is running.
AutofillKept ==
    page = "login" /\ conditional = "yes" /\ ~disabled =>
        \/ timer \in armed
        \/ \E i \in DOMAIN attempts : attempts[i].pc = "available" /\ ~Superseded(i)

\* The login page's autofill lasts: whenever the button is enabled one is being set up,
\* or the timeout runs that will ask for the next (which is all that is left of one that
\* failed), and one that may still be answered is renewed before its challenge expires.
AutofillLasts == AutofillIsTimed /\ AutofillKept

\* No message is shown for what only the page itself did, a request it aborted.
ErrorsAreReal == [][error' # error => error' # "abort"]_vars

\* A disabled button comes back, or the page leaves.
ButtonComesBack == disabled ~> (~disabled \/ leaving # {})

\* passkey_login.js says of a callback whose generation is past that it "must be a
\* no-op".
SupersededIsNoOp ==
    [][\A i \in DOMAIN attempts : Superseded(i) => i \notin leaving' \ leaving]_vars
-----------------------------------------------------------------------------
(* Why the properties hold: IInv is inductive. *)

\* On its way to the browser, or there, and not aborted.
Waiting(a) == a.pc \in {"begin", "ceremony"} /\ ~a.aborted

\* The sign-up and recovery pages have only the button, and it guards their ceremony.
ButtonOnly ==
    page # "login" =>
        /\ armed = {}
        /\ \A i \in DOMAIN attempts :
              LET a == attempts[i] IN
              /\ a.kind = "click" /\ a.pc # "available"
              /\ a.pc # "over" => disabled /\ a.gen = generation

\* A generation has one attempt at a time: a click's autofill starts when it is over.
OnePerGeneration ==
    \A i, j \in DOMAIN attempts :
        /\ attempts[i].gen = generation /\ attempts[i].pc # "over"
        /\ attempts[j].gen = generation /\ attempts[j].pc # "over"
        => i = j

\* Whoever waits is of this generation, and the page can abort it.
WaiterIsCurrent ==
    \A i \in DOMAIN attempts :
        Waiting(attempts[i]) =>
            attempts[i].gen = generation /\ (page = "login" => i = controller)

WaiterIsTimed ==
    \A i \in DOMAIN attempts :
        attempts[i].kind = "autofill" /\ Waiting(attempts[i]) => i \in armed

IInv ==
    /\ TypeOK /\ AutofillKept
    /\ ButtonOnly /\ OnePerGeneration /\ WaiterIsCurrent /\ WaiterIsTimed
=============================================================================
