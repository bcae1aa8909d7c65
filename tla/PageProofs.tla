------------------------------- MODULE PageProofs -------------------------------
(***************************************************************************)
(* The safety properties of the two pages, proved for every value of their *)
(* bounds: first those of CeremonyPage, along its IInv, then those of      *)
(* SecurityPage, along its SecurityIInv.                                   *)
(***************************************************************************)
EXTENDS CeremonyPage, SecurityPage, SequenceTheorems, FiniteSetTheorems, TLAPS

USE MaxAttemptsAssumption

-----------------------------------------------------------------------------
(* What the operators on attempts return. *)

LEMMA StartedType ==
  ASSUME NEW kind \in {"autofill", "click"}, NEW gen \in Nat,
         NEW pc \in {"available", "begin"}
  PROVE  LET a == Started(kind, gen, pc) IN
         a \in Attempt /\ a.kind = kind /\ a.gen = gen /\ a.pc = pc /\ ~a.aborted
  BY DEF Started, Attempt

\* startAutofill adds one attempt, or none.
LEMMA WithAutofillAdds ==
  ASSUME NEW old \in Seq(Attempt), NEW gen \in Nat
  PROVE  /\ WithAutofill(old, gen) \in Seq(Attempt) /\ Len(old) \in Nat
         /\ \A k \in 1 .. Len(old) : WithAutofill(old, gen)[k] = old[k]
         /\ page = "login" /\ conditional # "missing" =>
               /\ Len(WithAutofill(old, gen)) = Len(old) + 1
               /\ WithAutofill(old, gen)[Len(old) + 1] = Started("autofill", gen, "available")
         /\ ~(page = "login" /\ conditional # "missing") => WithAutofill(old, gen) = old
<1> DEFINE b == Started("autofill", gen, "available")
<1>1. b \in Attempt
  BY StartedType
<1> HIDE DEF b
<1>l. Len(old) \in Nat
  BY LenProperties
<1>2. CASE page = "login" /\ conditional # "missing"
  <2>1. WithAutofill(old, gen) = Append(old, b)
    BY <1>2 DEF WithAutofill, b
  <2> QED
    BY <1>1, <1>2, <1>l, <2>1, AppendProperties DEF b
<1>3. CASE ~(page = "login" /\ conditional # "missing")
  BY <1>3, <1>l DEF WithAutofill
<1> QED
  BY <1>2, <1>3

\* What the page aborts is its controller's attempt.
LEMMA StoppedAborts ==
  ASSUME TypeOK
  PROVE  /\ Stopped \in Seq(Attempt) /\ Len(Stopped) = Len(attempts)
         /\ \A k \in 1 .. Len(attempts) :
               /\ Stopped[k].kind = attempts[k].kind /\ Stopped[k].gen = attempts[k].gen
               /\ Stopped[k].pc = attempts[k].pc
               /\ Stopped[k].aborted = (attempts[k].aborted \/ k = controller)
<1> DEFINE n == Len(attempts)
           a(k) == [attempts[k] EXCEPT !.aborted = @ \/ k = controller]
<1>1. attempts \in Seq(Attempt) /\ n \in Nat /\ DOMAIN attempts = 1 .. n
  BY DEF TypeOK
<1>2. \A k \in 1 .. n : attempts[k] \in Attempt
  BY <1>1, ElementOfSeq
<1>3. \A k \in 1 .. n : /\ a(k) \in Attempt /\ a(k).kind = attempts[k].kind
                        /\ a(k).gen = attempts[k].gen /\ a(k).pc = attempts[k].pc
                        /\ a(k).aborted = (attempts[k].aborted \/ k = controller)
  BY <1>2 DEF Attempt
<1>4. Stopped = [k \in 1 .. n |-> a(k)]
  BY <1>1 DEF Stopped
<1> HIDE DEF a
<1>5. Stopped \in Seq(Attempt) /\ Len(Stopped) = n
  BY <1>1, <1>3, <1>4
<1> QED
  BY <1>3, <1>4, <1>5

\* Attempt i becomes a.
Alters(i, a) ==
    /\ attempts' \in Seq(Attempt) /\ Len(attempts') = Len(attempts)
    /\ \A k \in 1 .. Len(attempts) : attempts'[k] = IF k = i THEN a ELSE attempts[k]

LEMMA Altered ==
  ASSUME TypeOK, NEW i \in DOMAIN attempts,
         NEW pc \in {"available", "begin", "ceremony", "finish", "over"}
  PROVE  /\ attempts' = [attempts EXCEPT ![i].pc = pc] =>
                Alters(i, [attempts[i] EXCEPT !.pc = pc])
         /\ [attempts[i] EXCEPT !.pc = pc] \in Attempt
<1>1. attempts \in Seq(Attempt) /\ i \in 1 .. Len(attempts)
  BY DEF TypeOK
<1>2. attempts[i] \in Attempt
  BY <1>1, ElementOfSeq
<1>3. [attempts[i] EXCEPT !.pc = pc] \in Attempt
  BY <1>2 DEF Attempt
<1> QED
  BY <1>1, <1>3, ExceptSeq DEF Alters

-----------------------------------------------------------------------------
(* The steps of one attempt. *)

\* An attempt goes on or ends, and the page stays as it is.
LEMMA AdvanceKeeps ==
  ASSUME IInv, NEW i \in DOMAIN attempts, NEW pc \in {"ceremony", "finish", "over"},
         attempts' = [attempts EXCEPT ![i].pc = pc],
         attempts[i].pc \in {"begin", "ceremony", "finish"}
            \/ (pc = "over" /\ attempts[i].pc = "available"
                /\ (Superseded(i) \/ conditional = "no")),
         pc = "ceremony" => attempts[i].pc = "begin",
         UNCHANGED <<config, generation, controller, armed, timer, disabled>>,
         error' \in {"none", "server", "cancelled", "abort"},
         leaving' \subseteq DOMAIN attempts
  PROVE  IInv'
<1> DEFINE a == [attempts[i] EXCEPT !.pc = pc]
<1>1. Alters(i, a) /\ a \in Attempt
  BY Altered DEF IInv
<1>2. attempts[i] \in Attempt
  BY ElementOfSeq DEF IInv, TypeOK
<1>3. /\ a.pc = pc /\ a.gen = attempts[i].gen /\ a.kind = attempts[i].kind
      /\ a.aborted = attempts[i].aborted
  BY <1>2 DEF Attempt
<1> HIDE DEF a
<1>4. /\ DOMAIN attempts' = DOMAIN attempts /\ DOMAIN attempts = 1 .. Len(attempts)
      /\ \A k \in DOMAIN attempts : attempts'[k] = IF k = i THEN a ELSE attempts[k]
  BY <1>1 DEF Alters, IInv, TypeOK
<1>5. UNCHANGED <<page, conditional, generation, controller, armed, timer, disabled>>
  BY DEF config
<1>6. TypeOK'
  BY <1>1, <1>3, <1>4, <1>5 DEF IInv, TypeOK, Alters
<1>7. AutofillKept'
  BY <1>3, <1>4, <1>5 DEF IInv, AutofillKept, Superseded
<1>8. ButtonOnly' /\ OnePerGeneration'
  BY <1>3, <1>4, <1>5 DEF IInv, ButtonOnly, OnePerGeneration
<1>9. WaiterIsCurrent' /\ WaiterIsTimed'
  BY <1>3, <1>4, <1>5 DEF IInv, WaiterIsCurrent, WaiterIsTimed, Waiting
<1> QED
  BY <1>6, <1>7, <1>8, <1>9 DEF IInv

\* The catch of the present click: the button comes back, and the autofill.
LEMMA ClickEndKeeps ==
  ASSUME IInv, NEW i \in DOMAIN attempts, ~Superseded(i),
         attempts[i].pc \in {"begin", "ceremony", "finish"},
         attempts' = WithAutofill(Over(i), generation), disabled' = FALSE,
         UNCHANGED <<config, generation, controller, armed, timer, leaving>>,
         error' \in {"none", "server", "cancelled", "abort"}
  PROVE  IInv'
<1> DEFINE a == [attempts[i] EXCEPT !.pc = "over"]
           n == Len(attempts)
<1>1. attempts \in Seq(Attempt) /\ n \in Nat /\ i \in 1 .. n /\ DOMAIN attempts = 1 .. n
      /\ generation \in Nat
  BY DEF IInv, TypeOK
<1>2. attempts[i] \in Attempt
  BY <1>1, ElementOfSeq
<1>3. /\ a \in Attempt /\ a.pc = "over" /\ a.gen = attempts[i].gen
      /\ a.kind = attempts[i].kind /\ a.aborted = attempts[i].aborted
  BY <1>2 DEF Attempt
<1> HIDE DEF a
<1>4. /\ Over(i) \in Seq(Attempt) /\ Len(Over(i)) = n
      /\ \A k \in 1 .. n : Over(i)[k] = IF k = i THEN a ELSE attempts[k]
  BY <1>1, <1>3, ExceptSeq DEF Over, a
<1> DEFINE b == Started("autofill", generation, "available")
<1>5. /\ attempts' \in Seq(Attempt)
      /\ Len(attempts') \in {n, n + 1}
      /\ \A k \in 1 .. n : attempts'[k] = IF k = i THEN a ELSE attempts[k]
      /\ Len(attempts') = n + 1 => attempts'[n + 1] = b /\ page = "login"
      /\ page = "login" /\ conditional # "missing" => Len(attempts') = n + 1
  <2>1. attempts' = WithAutofill(Over(i), generation)
    OBVIOUS
  <2>2. Over(i) \in Seq(Attempt) /\ generation \in Nat
    BY <1>1, <1>4
  <2>3. LET w == WithAutofill(Over(i), generation) IN
        /\ w \in Seq(Attempt)
        /\ \A k \in 1 .. Len(Over(i)) : w[k] = Over(i)[k]
        /\ page = "login" /\ conditional # "missing" =>
              Len(w) = Len(Over(i)) + 1 /\ w[Len(Over(i)) + 1] = b
        /\ ~(page = "login" /\ conditional # "missing") => w = Over(i)
    BY <2>2, WithAutofillAdds, Zenon
  <2> HIDE DEF b
  <2> QED
    BY <1>1, <1>4, <2>1, <2>3
<1>6. b \in Attempt /\ b.kind = "autofill" /\ b.gen = generation /\ b.pc = "available"
  BY <1>1, StartedType
<1> HIDE DEF b
<1>e. \A k \in DOMAIN attempts' : k \in 1 .. n \/ (k = n + 1 /\ attempts'[k] = b)
  BY <1>1, <1>5
<1>7. UNCHANGED <<page, conditional, generation, controller, armed, timer, leaving>>
  BY DEF config
<1>8. attempts[i].gen = generation
  BY DEF Superseded
<1>9. \A k \in 1 .. n : attempts'[k].gen = generation => attempts'[k].pc = "over"
  BY <1>1, <1>3, <1>5, <1>8 DEF IInv, OnePerGeneration
<1>10. TypeOK'
  <2>1. \A k \in DOMAIN attempts' : attempts'[k].gen <= generation
    BY <1>1, <1>3, <1>5, <1>6, <1>e DEF IInv, TypeOK
  <2>2. controller \in 0 .. n /\ leaving \subseteq 1 .. n
    BY <1>1 DEF IInv, TypeOK
  <2>3. controller \in 0 .. Len(attempts') /\ leaving \subseteq DOMAIN attempts'
    BY <1>1, <1>5, <2>2
  <2> QED
    BY <1>5, <1>7, <2>1, <2>3 DEF IInv, TypeOK
<1>11. AutofillKept'
  <2> SUFFICES ASSUME page = "login", conditional = "yes"
               PROVE  \E k \in DOMAIN attempts' :
                         attempts'[k].pc = "available" /\ attempts'[k].gen = generation'
    BY <1>7 DEF AutofillKept, Superseded
  <2>1. Len(attempts') = n + 1 /\ attempts'[n + 1] = b
    BY <1>1, <1>5
  <2>2. n + 1 \in DOMAIN attempts'
    BY <1>1, <1>5, <2>1
  <2> QED
    BY <1>6, <1>7, <2>1, <2>2
<1>12. ButtonOnly'
  <2> SUFFICES ASSUME page # "login" PROVE ButtonOnly'
    BY <1>7 DEF ButtonOnly
  <2>1. \A k \in 1 .. n : attempts[k].pc # "over" => k = i
    BY <1>1, <1>8 DEF IInv, ButtonOnly, OnePerGeneration
  <2> QED
    BY <1>1, <1>3, <1>5, <1>7, <1>e, <2>1 DEF IInv, ButtonOnly
<1>13. OnePerGeneration'
  BY <1>1, <1>5, <1>7, <1>9, <1>e DEF OnePerGeneration
<1>14. WaiterIsCurrent' /\ WaiterIsTimed'
  <2>1. \A k \in DOMAIN attempts' : Waiting(attempts'[k]) =>
           k \in DOMAIN attempts /\ k # i /\ attempts'[k] = attempts[k]
    BY <1>1, <1>3, <1>5, <1>6, <1>e DEF Waiting
  <2> QED
    BY <1>7, <2>1 DEF IInv, WaiterIsCurrent, WaiterIsTimed
<1> QED
  BY <1>10, <1>11, <1>12, <1>13, <1>14 DEF IInv

\* isConditionalMediationAvailable has answered: the attempt is the page's, and timed.
LEMMA SetUpKeeps ==
  ASSUME IInv, NEW i \in DOMAIN attempts, attempts[i].pc = "available", ~Superseded(i),
         attempts' = [attempts EXCEPT ![i].pc = "begin"],
         controller' = i, armed' = armed \union {i}, timer' = i,
         UNCHANGED <<config, generation, disabled, error, leaving>>
  PROVE  IInv'
<1> DEFINE a == [attempts[i] EXCEPT !.pc = "begin"]
<1>1. Alters(i, a) /\ a \in Attempt
  BY Altered DEF IInv
<1>2. attempts[i] \in Attempt
  BY ElementOfSeq DEF IInv, TypeOK
<1>3. /\ a.pc = "begin" /\ a.gen = attempts[i].gen /\ a.kind = attempts[i].kind
      /\ a.aborted = attempts[i].aborted
  BY <1>2 DEF Attempt
<1> HIDE DEF a
<1>4. /\ DOMAIN attempts' = DOMAIN attempts /\ DOMAIN attempts = 1 .. Len(attempts)
      /\ \A k \in DOMAIN attempts : attempts'[k] = IF k = i THEN a ELSE attempts[k]
  BY <1>1 DEF Alters, IInv, TypeOK
<1>5. UNCHANGED <<page, conditional, generation, disabled, error, leaving>>
  BY DEF config
<1>6. attempts[i].gen = generation /\ page = "login"
  BY DEF Superseded, IInv, ButtonOnly
<1>7. \A k \in DOMAIN attempts : Waiting(attempts'[k]) => k = i
  BY <1>3, <1>4, <1>6 DEF IInv, WaiterIsCurrent, OnePerGeneration, Waiting
<1>8. TypeOK'
  <2>1. i \in Nat /\ i \in 0 .. Len(attempts') /\ Len(attempts') = Len(attempts)
    BY <1>1, <1>4 DEF Alters, IInv, TypeOK
  <2> QED
    BY <1>1, <1>3, <1>4, <1>5, <2>1 DEF IInv, TypeOK, Alters
<1>9. AutofillKept' /\ ButtonOnly'
  BY <1>5, <1>6 DEF AutofillKept, ButtonOnly
<1>10. OnePerGeneration'
  BY <1>3, <1>4, <1>5, <1>6 DEF IInv, OnePerGeneration
<1>11. WaiterIsCurrent' /\ WaiterIsTimed'
  BY <1>3, <1>4, <1>5, <1>6, <1>7 DEF WaiterIsCurrent, WaiterIsTimed
<1> QED
  BY <1>8, <1>9, <1>10, <1>11 DEF IInv

-----------------------------------------------------------------------------
(* New generations. *)

\* The login page stops what is in flight and begins b, if it begins anything.
LEMMA RenewKeeps ==
  ASSUME IInv, page = "login", NEW b \in Attempt, b.gen = generation + 1, ~b.aborted,
         attempts' \in Seq(Attempt),
         Len(attempts') = Len(attempts) \/ Len(attempts') = Len(attempts) + 1,
         \A k \in 1 .. Len(attempts) : attempts'[k] = Stopped[k],
         Len(attempts') = Len(attempts) + 1 => attempts'[Len(attempts) + 1] = b,
         Waiting(b) => b.kind = "click" /\ controller' = Len(attempts) + 1,
         controller' = 0 \/ controller' = Len(attempts'),
         generation' = generation + 1, armed' \subseteq Nat, timer' \in Nat,
         disabled' \in BOOLEAN, error' \in {"none", "server", "cancelled", "abort"},
         UNCHANGED <<config, leaving>>, AutofillKept'
  PROVE  IInv'
<1> DEFINE n == Len(attempts)
<1>1. attempts \in Seq(Attempt) /\ n \in Nat /\ generation \in Nat /\ DOMAIN attempts = 1 .. n
  BY DEF IInv, TypeOK
<1>2. \A k \in 1 .. n :
         /\ attempts'[k].kind = attempts[k].kind /\ attempts'[k].gen = attempts[k].gen
         /\ attempts'[k].gen \in 0 .. generation /\ attempts'[k].pc = attempts[k].pc
         /\ ~Waiting(attempts'[k])
  <2>1. \A k \in 1 .. n :
           /\ attempts'[k].kind = attempts[k].kind /\ attempts'[k].gen = attempts[k].gen
           /\ attempts'[k].pc = attempts[k].pc
           /\ attempts'[k].aborted = (attempts[k].aborted \/ k = controller)
    BY StoppedAborts DEF IInv
  <2>2. \A k \in 1 .. n : attempts[k].gen \in 0 .. generation
    <3>1. \A k \in 1 .. n : attempts[k] \in Attempt
      BY <1>1, ElementOfSeq
    <3>2. \A k \in 1 .. n : attempts[k].gen \in Nat
      BY <3>1 DEF Attempt
    <3>3. \A k \in 1 .. n : attempts[k].gen <= generation
      BY <1>1 DEF IInv, TypeOK
    <3> QED
      BY <1>1, <3>2, <3>3
  <2> QED
    BY <1>1, <2>1, <2>2 DEF IInv, WaiterIsCurrent, Waiting
<1>3. \A k \in DOMAIN attempts' : k \in 1 .. n \/ (k = n + 1 /\ attempts'[k] = b)
  BY <1>1
<1>4. TypeOK'
  <2>1. \A k \in DOMAIN attempts' : attempts'[k].gen <= generation'
    <3>1. \A g \in 0 .. generation : g <= generation + 1
      BY <1>1
    <3>2. generation + 1 <= generation + 1
      BY <1>1
    <3> QED
      BY <1>2, <1>3, <3>1, <3>2
  <2>2. controller' \in 0 .. Len(attempts') /\ leaving \subseteq DOMAIN attempts'
    BY <1>1 DEF IInv, TypeOK
  <2> QED
    BY <1>1, <2>1, <2>2 DEF IInv, TypeOK, config
<1>5. ButtonOnly'
  BY DEF ButtonOnly, config
<1>6. OnePerGeneration'
  BY <1>1, <1>2, <1>3 DEF OnePerGeneration
<1>7. WaiterIsCurrent' /\ WaiterIsTimed'
  <2>1. \A k \in DOMAIN attempts' : Waiting(attempts'[k]) =>
           k = n + 1 /\ attempts'[k] = b
    BY <1>2, <1>3
  <2> QED
    BY <2>1 DEF WaiterIsCurrent, WaiterIsTimed, config
<1> QED
  BY <1>4, <1>5, <1>6, <1>7 DEF IInv

LEMMA ClickKeeps == ASSUME IInv, Click PROVE IInv'
<1> DEFINE n == Len(attempts)
           b == Started("click", generation + 1, "begin")
<1>1. attempts \in Seq(Attempt) /\ n \in Nat /\ generation \in Nat /\ DOMAIN attempts = 1 .. n
      /\ armed \subseteq Nat
  BY DEF IInv, TypeOK
<1>2. b \in Attempt /\ b.kind = "click" /\ b.gen = generation + 1 /\ b.pc = "begin" /\ ~b.aborted
  BY <1>1, StartedType
<1>3. /\ generation' = generation + 1 /\ error' = "none" /\ disabled' = TRUE /\ ~disabled
      /\ UNCHANGED <<config, leaving>>
      /\ page = "login" => attempts' = Append(Stopped, b) /\ controller' = n + 1
                           /\ armed' = Cleared /\ timer' = 0
      /\ page # "login" => attempts' = Append(attempts, b)
                           /\ UNCHANGED <<controller, armed, timer>>
  BY DEF Click
<1> HIDE DEF b
<1>4. AutofillKept'
  BY <1>3 DEF AutofillKept
<1>5. CASE page = "login"
  <2>1. /\ attempts' \in Seq(Attempt) /\ Len(attempts') = n + 1
        /\ \A k \in 1 .. n : attempts'[k] = Stopped[k]
        /\ attempts'[n + 1] = b
    <3>1. Stopped \in Seq(Attempt) /\ Len(Stopped) = n
      BY StoppedAborts DEF IInv
    <3> HIDE DEF n
    <3> QED
      BY <1>2, <1>3, <1>5, <3>1, AppendProperties
  <2>2. armed' \subseteq Nat /\ timer' \in Nat
    <3>1. armed \subseteq Nat /\ armed' = Cleared /\ timer' = 0
      BY <1>1, <1>3, <1>5
    <3> QED
      BY <3>1 DEF Cleared
  <2> QED
    BY <1>2, <1>3, <1>4, <1>5, <2>1, <2>2, RenewKeeps
<1>6. CASE page # "login"
  <2>1. /\ attempts' \in Seq(Attempt) /\ Len(attempts') = n + 1
        /\ \A k \in 1 .. n : attempts'[k] = attempts[k]
        /\ attempts'[n + 1] = b
    BY <1>1, <1>2, <1>3, <1>6, AppendProperties
  <2>2. \A k \in DOMAIN attempts' : k \in 1 .. n \/ (k = n + 1 /\ attempts'[k] = b)
    BY <1>1, <2>1
  <2>3. \A k \in 1 .. n : /\ attempts'[k].pc = "over" /\ attempts'[k].kind = "click"
                          /\ attempts'[k].gen \in 0 .. generation
    <3>1. \A k \in 1 .. n : attempts[k] \in Attempt
      BY <1>1, ElementOfSeq
    <3> QED
      BY <1>1, <1>3, <1>6, <2>1, <3>1 DEF IInv, ButtonOnly, TypeOK, Attempt
  <2>4. UNCHANGED <<page, conditional, controller, armed, timer, leaving>>
    BY <1>3, <1>6 DEF config
  <2>5. TypeOK'
    <3>1. \A k \in DOMAIN attempts' : attempts'[k].gen <= generation'
      <4>1. \A g \in 0 .. generation : g <= generation + 1
        BY <1>1
      <4>2. generation + 1 <= generation + 1
        BY <1>1
      <4> QED
        BY <1>2, <1>3, <2>2, <2>3, <4>1, <4>2
    <3>2. controller \in 0 .. Len(attempts') /\ leaving \subseteq DOMAIN attempts'
      BY <1>1, <2>1 DEF IInv, TypeOK
    <3> QED
      BY <1>1, <1>3, <2>1, <2>4, <3>1, <3>2 DEF IInv, TypeOK
  <2>6. ButtonOnly'
    BY <1>2, <1>3, <2>2, <2>3, <2>4 DEF IInv, ButtonOnly
  <2>7. OnePerGeneration'
    BY <2>2, <2>3 DEF OnePerGeneration
  <2>8. WaiterIsCurrent' /\ WaiterIsTimed'
    <3>1. \A k \in DOMAIN attempts' : Waiting(attempts'[k]) => attempts'[k] = b
      BY <2>2, <2>3 DEF Waiting
    <3> QED
      BY <1>2, <1>3, <1>6, <2>4, <3>1 DEF WaiterIsCurrent, WaiterIsTimed
  <2> QED
    BY <1>4, <2>5, <2>6, <2>7, <2>8 DEF IInv
<1> QED
  BY <1>5, <1>6

LEMMA TimerKeeps == ASSUME IInv, NEW t \in armed, TimerFires(t) PROVE IInv'
<1> DEFINE n == Len(attempts)
           b == Started("autofill", generation + 1, "available")
<1>1. attempts \in Seq(Attempt) /\ n \in Nat /\ generation \in Nat /\ armed \subseteq Nat
      /\ disabled \in BOOLEAN /\ error \in {"none", "server", "cancelled", "abort"}
  BY DEF IInv, TypeOK
<1>2. /\ b \in Attempt /\ b.kind = "autofill" /\ b.gen = generation + 1
      /\ b.pc = "available" /\ ~b.aborted
  BY <1>1, StartedType
<1>3. /\ generation' = generation + 1 /\ attempts' = WithAutofill(Stopped, generation + 1)
      /\ controller' = 0 /\ armed' = Cleared \ {t} /\ timer' = 0
      /\ UNCHANGED <<page, conditional, disabled, error, leaving>>
  BY DEF TimerFires, config
<1>4. page = "login"
  BY DEF IInv, ButtonOnly
<1>5. /\ attempts' \in Seq(Attempt)
      /\ \A k \in 1 .. n : attempts'[k] = Stopped[k]
      /\ conditional # "missing" => Len(attempts') = n + 1 /\ attempts'[n + 1] = b
      /\ conditional = "missing" => Len(attempts') = n
  <2>1. Stopped \in Seq(Attempt) /\ Len(Stopped) = n /\ generation + 1 \in Nat
    BY <1>1, StoppedAborts DEF IInv
  <2>2. LET w == WithAutofill(Stopped, generation + 1) IN
        /\ w \in Seq(Attempt)
        /\ \A k \in 1 .. Len(Stopped) : w[k] = Stopped[k]
        /\ page = "login" /\ conditional # "missing" =>
              Len(w) = Len(Stopped) + 1 /\ w[Len(Stopped) + 1] = b
        /\ ~(page = "login" /\ conditional # "missing") => w = Stopped
    BY <2>1, WithAutofillAdds, Zenon
  <2> HIDE DEF b, n
  <2> QED
    BY <1>3, <1>4, <2>1, <2>2
<1> HIDE DEF b
<1>6. AutofillKept'
  <2> SUFFICES ASSUME conditional = "yes"
               PROVE  \E k \in DOMAIN attempts' :
                         attempts'[k].pc = "available" /\ attempts'[k].gen = generation'
    BY <1>3 DEF AutofillKept, Superseded
  <2>1. Len(attempts') = n + 1 /\ attempts'[n + 1] = b
    BY <1>5
  <2>2. n + 1 \in DOMAIN attempts'
    BY <1>1, <1>5, <2>1
  <2> QED
    BY <1>2, <1>3, <2>1, <2>2
<1>7. /\ armed' \subseteq Nat /\ timer' \in Nat /\ ~Waiting(b)
      /\ UNCHANGED <<config, leaving>> /\ disabled' \in BOOLEAN
      /\ error' \in {"none", "server", "cancelled", "abort"}
      /\ Len(attempts') = n \/ Len(attempts') = n + 1
      /\ Len(attempts') = n + 1 => attempts'[n + 1] = b
  <2>1. armed' \subseteq Nat /\ timer' \in Nat
    <3>1. armed \subseteq Nat /\ armed' = Cleared \ {t} /\ timer' = 0
      BY <1>1, <1>3
    <3> QED
      BY <3>1 DEF Cleared
  <2>2. ~Waiting(b) /\ UNCHANGED <<config, leaving>>
    BY <1>2, <1>3 DEF Waiting, config
  <2>3. /\ disabled' \in BOOLEAN /\ error' \in {"none", "server", "cancelled", "abort"}
    BY <1>1, <1>3
  <2>4. Len(attempts') = n \/ (Len(attempts') = n + 1 /\ attempts'[n + 1] = b)
    BY <1>5
  <2>5. Len(attempts') = n => Len(attempts') # n + 1
    BY <1>1
  <2> QED
    BY <2>1, <2>2, <2>3, <2>4, <2>5
<1> QED
  BY <1>2, <1>3, <1>4, <1>5, <1>6, <1>7, RenewKeeps
-----------------------------------------------------------------------------
(* The callbacks. *)

LEMMA CatchKeeps ==
  ASSUME IInv, NEW i \in DOMAIN attempts, NEW why \in {"server", "cancelled", "abort"},
         attempts[i].pc \in {"begin", "ceremony", "finish"}, Catch(i, why)
  PROVE  IInv'
<1>1. /\ error \in {"none", "server", "cancelled", "abort"} /\ disabled \in BOOLEAN
      /\ attempts \in Seq(Attempt) /\ leaving \subseteq DOMAIN attempts
  BY DEF IInv, TypeOK
<1>2. attempts[i].kind \in {"autofill", "click"}
  <2>1. attempts[i] \in Attempt
    BY <1>1, ElementOfSeq
  <2> QED
    BY <2>1 DEF Attempt
<1>3. /\ error' \in {error, why} /\ UNCHANGED <<config, generation, controller, armed, timer>>
      /\ UNCHANGED leaving
  BY DEF Catch, AutofillCatch, ClickCatch
<1>4. CASE attempts[i].kind = "click" /\ ~Superseded(i)
  <2>1. attempts' = WithAutofill(Over(i), generation) /\ disabled' = FALSE
    BY <1>4 DEF Catch, ClickCatch
  <2> QED
    BY <1>1, <1>3, <1>4, <2>1, ClickEndKeeps
<1>5. CASE attempts[i].kind = "autofill" \/ Superseded(i)
  <2>1. attempts' = [attempts EXCEPT ![i].pc = "over"] /\ UNCHANGED disabled
    BY <1>1, <1>2, <1>5 DEF Catch, AutofillCatch, ClickCatch, Over
  <2> QED
    BY <1>1, <1>3, <2>1, AdvanceKeeps
<1> QED
  BY <1>2, <1>4, <1>5

LEMMA CallbackKeeps ==
  ASSUME IInv, NEW i \in DOMAIN attempts,
         \/ AvailableAnswers(i) \/ BeginAnswers(i) \/ BeginFails(i)
         \/ UserConfirms(i) \/ UserDismisses(i) \/ AbortArrives(i)
         \/ FinishAnswers(i) \/ FinishFails(i)
  PROVE  IInv'
<1>1. /\ error \in {"none", "server", "cancelled", "abort"} /\ leaving \subseteq DOMAIN attempts
  BY DEF IInv, TypeOK
<1>2. ASSUME AvailableAnswers(i) PROVE IInv'
  <2>1. attempts[i].pc = "available" /\ UNCHANGED <<config, generation, disabled, error, leaving>>
    BY <1>2 DEF AvailableAnswers
  <2>2. CASE Superseded(i) \/ conditional = "no"
    <3>1. /\ attempts' = [attempts EXCEPT ![i].pc = "over"]
          /\ UNCHANGED <<controller, armed, timer>>
      BY <1>2, <2>2 DEF AvailableAnswers, Over
    <3> QED
      BY <1>1, <2>1, <2>2, <3>1, AdvanceKeeps
  <2>3. CASE ~(Superseded(i) \/ conditional = "no")
    <3>1. /\ attempts' = [attempts EXCEPT ![i].pc = "begin"]
          /\ controller' = i /\ armed' = armed \union {i} /\ timer' = i
      BY <1>2, <2>3 DEF AvailableAnswers
    <3> QED
      BY <2>1, <2>3, <3>1, SetUpKeeps
  <2> QED
    BY <2>2, <2>3
<1>3. ASSUME BeginAnswers(i) PROVE IInv'
  <2>1. attempts[i].pc = "begin"
    BY <1>3 DEF BeginAnswers
  <2>2. CASE attempts[i].aborted
    BY <1>3, <2>1, <2>2, CatchKeeps DEF BeginAnswers
  <2>3. CASE ~attempts[i].aborted
    <3>1. /\ attempts' = [attempts EXCEPT ![i].pc = "ceremony"]
          /\ UNCHANGED <<config, generation, controller, armed, timer, disabled,
                         error, leaving>>
      BY <1>3, <2>3 DEF BeginAnswers
    <3> QED
      BY <1>1, <2>1, <3>1, AdvanceKeeps
  <2> QED
    BY <2>2, <2>3
<1>4. ASSUME BeginFails(i) \/ UserDismisses(i) \/ AbortArrives(i) \/ FinishFails(i) PROVE IInv'
  BY <1>4, CatchKeeps DEF BeginFails, UserDismisses, AbortArrives, FinishFails, Live
<1>5. ASSUME UserConfirms(i) PROVE IInv'
  <2>1. /\ attempts[i].pc = "ceremony" /\ attempts' = [attempts EXCEPT ![i].pc = "finish"]
        /\ UNCHANGED <<config, generation, controller, armed, timer, disabled, error, leaving>>
    BY <1>5 DEF UserConfirms, Live
  <2> QED
    BY <1>1, <2>1, AdvanceKeeps
<1>6. ASSUME FinishAnswers(i) PROVE IInv'
  <2>1. /\ attempts[i].pc = "finish" /\ attempts' = [attempts EXCEPT ![i].pc = "over"]
        /\ UNCHANGED <<config, generation, controller, armed, timer, disabled, error>>
        /\ leaving' \subseteq leaving \union {i}
    BY <1>6 DEF FinishAnswers, Over
  <2> QED
    BY <1>1, <2>1, AdvanceKeeps
<1> QED
  BY <1>2, <1>3, <1>4, <1>5, <1>6

-----------------------------------------------------------------------------
(* The invariant, and what follows from it. *)

LEMMA InitIInv == Init => IInv
<1> SUFFICES ASSUME Init PROVE IInv
  OBVIOUS
<1> DEFINE b == Started("autofill", 0, "available")
<1>1. b \in Attempt /\ b.kind = "autofill" /\ b.gen = 0 /\ b.pc = "available"
  BY StartedType
<1>2. /\ page \in {"login", "signup", "recover"} /\ conditional \in {"missing", "no", "yes"}
      /\ generation = 0 /\ controller = 0 /\ armed = {} /\ timer = 0 /\ disabled = FALSE
      /\ error = "none" /\ leaving = {} /\ attempts = WithAutofill(<<>>, 0)
  BY DEF Init
<1>3. attempts = IF page = "login" /\ conditional # "missing" THEN <<b>> ELSE <<>>
  BY <1>2 DEF WithAutofill
<1> HIDE DEF b
<1>4. /\ attempts \in Seq(Attempt) /\ \A k \in DOMAIN attempts : k = 1 /\ attempts[k] = b
      /\ Len(attempts) \in Nat
  <2>1. CASE attempts = <<>>
    BY <2>1
  <2>2. CASE attempts = <<b>>
    <3>1. attempts \in Seq(Attempt) /\ Len(attempts) = 1 /\ attempts[1] = b
      BY <1>1, <2>2
    <3> QED
      BY <3>1
  <2> QED
    BY <1>3, <2>1, <2>2
<1>5. TypeOK
  <2>1. \A k \in DOMAIN attempts : attempts[k].gen <= generation
    BY <1>1, <1>2, <1>4
  <2>2. controller \in 0 .. Len(attempts) /\ leaving \subseteq DOMAIN attempts
    BY <1>2, <1>4
  <2> QED
    BY <1>2, <1>4, <2>1, <2>2 DEF TypeOK
<1>6. AutofillKept
  <2> SUFFICES ASSUME page = "login", conditional = "yes"
               PROVE  \E k \in DOMAIN attempts : attempts[k].pc = "available" /\ attempts[k].gen = 0
    BY <1>2 DEF AutofillKept, Superseded
  <2>1. attempts = <<b>>
    BY <1>3
  <2> QED
    BY <1>1, <2>1
<1>7. ButtonOnly
  BY <1>2, <1>3 DEF ButtonOnly
<1>8. OnePerGeneration /\ WaiterIsCurrent /\ WaiterIsTimed
  BY <1>1, <1>4 DEF OnePerGeneration, WaiterIsCurrent, WaiterIsTimed, Waiting
<1> QED
  BY <1>5, <1>6, <1>7, <1>8 DEF IInv

LEMMA NextIInv == IInv /\ [Next]_vars => IInv'
<1> SUFFICES ASSUME IInv, [Next]_vars PROVE IInv'
  OBVIOUS
<1>1. CASE UNCHANGED vars
  BY <1>1 DEF vars, IInv, TypeOK, AutofillKept, ButtonOnly, OnePerGeneration,
     WaiterIsCurrent, WaiterIsTimed, Superseded
<1>2. CASE Next
  BY <1>2, ClickKeeps, TimerKeeps, CallbackKeeps DEF Next
<1> QED
  BY <1>1, <1>2

LEMMA SpecIInv == Spec => []IInv
  BY InitIInv, NextIInv, PTL DEF Spec

\* Every variable keeps its type.
THEOREM PageTyped == Spec => []TypeOK
<1>1. IInv => TypeOK
  BY DEF IInv
<1> QED
  BY <1>1, SpecIInv, PTL

\* However clicks, timeouts and answers come, navigator.credentials has one live call.
THEOREM OneRequestAtATime == Spec => []OneLiveGet
<1>1. IInv => OneLiveGet
  BY DEF IInv, OneLiveGet, Live, WaiterIsCurrent, OnePerGeneration, Waiting
<1> QED
  BY <1>1, SpecIInv, PTL

\* The login page with its button enabled has its autofill, or will, and whatever may
\* still answer a challenge has the timeout that renews it.
THEOREM AutofillStays == Spec => []AutofillLasts
<1>1. IInv => AutofillLasts
  BY DEF IInv, AutofillLasts, AutofillIsTimed, Live, WaiterIsTimed, Waiting
<1> QED
  BY <1>1, SpecIInv, PTL

\* A message is never about an abort of the page's own.
THEOREM NoErrorOfOwnMaking == Spec => ErrorsAreReal
<1>1. ASSUME [Next]_vars PROVE error' # error => error' # "abort"
  <2>1. ASSUME NEW i \in DOMAIN attempts, NEW why, Catch(i, why), error' # error
        PROVE  error' = why /\ ~attempts[i].aborted
    BY <2>1 DEF Catch, AutofillCatch, ClickCatch
  <2>2. ASSUME NEW i \in DOMAIN attempts, BeginAnswers(i), error' # error PROVE FALSE
    BY <2>1, <2>2 DEF BeginAnswers
  <2>3. ASSUME NEW i \in DOMAIN attempts, AbortArrives(i), error' # error PROVE FALSE
    BY <2>1, <2>3 DEF AbortArrives
  <2>4. ASSUME NEW i \in DOMAIN attempts, error' # error,
               BeginFails(i) \/ UserDismisses(i) \/ FinishFails(i)
        PROVE  error' # "abort"
    BY <2>1, <2>4 DEF BeginFails, UserDismisses, FinishFails
  <2>5. Click => error' = "none"
    BY DEF Click
  <2>6. \A t \in armed : TimerFires(t) => error' = error
    BY DEF TimerFires
  <2>7. ASSUME NEW i \in DOMAIN attempts, AvailableAnswers(i) \/ UserConfirms(i) \/ FinishAnswers(i)
        PROVE  error' = error
    BY <2>7 DEF AvailableAnswers, UserConfirms, FinishAnswers
  <2>8. UNCHANGED vars => error' = error
    BY DEF vars
  <2> QED
    BY <1>1, <2>2, <2>3, <2>4, <2>5, <2>6, <2>7, <2>8 DEF Next
<1>2. [Next]_vars => [error' # error => error' # "abort"]_vars
  BY <1>1
<1> QED
  BY <1>2, PTL DEF Spec, ErrorsAreReal

-----------------------------------------------------------------------------
(* The account security page.  First, the lists the page shows. *)

\* Nth runs through a set of positions upwards.
LEMMA NthEnumerates ==
  ASSUME NEW m \in Nat, NEW K \in SUBSET (1 .. m)
  PROVE  LET size == Cardinality(K) IN
         /\ size \in Nat
         /\ \A n \in 1 .. size : Nth(K, n) \in K
         /\ \A k \in K : \E n \in 1 .. size : Nth(K, n) = k
         /\ \A a, b \in 1 .. size : a < b => Nth(K, a) < Nth(K, b)
<1> DEFINE size == Cardinality(K)
           below(k) == {j \in K : j <= k}
           rank == [k \in K |-> Cardinality(below(k))]
<1>1. IsFiniteSet(K) /\ size \in Nat
  <2>1. IsFiniteSet(1 .. m)
    BY FS_Interval
  <2>2. IsFiniteSet(K)
    BY <2>1, FS_Subset
  <2> QED
    BY <2>2, FS_CardinalityType
<1>2. \A k \in K : IsFiniteSet(below(k)) /\ rank[k] \in 1 .. size
  <2> SUFFICES ASSUME NEW k \in K PROVE IsFiniteSet(below(k)) /\ rank[k] \in 1 .. size
    OBVIOUS
  <2>1. IsFiniteSet(below(k)) /\ Cardinality(below(k)) <= size
    BY <1>1, FS_Subset
  <2>2. k \in below(k)
    OBVIOUS
  <2>3. Cardinality(below(k)) \in Nat /\ Cardinality(below(k)) # 0
    BY <2>1, <2>2, FS_CardinalityType, FS_EmptySet
  <2> QED
    BY <1>1, <2>1, <2>3
<1>3. \A j, k \in K : j < k => rank[j] < rank[k]
  <2> SUFFICES ASSUME NEW j \in K, NEW k \in K, j < k PROVE rank[j] < rank[k]
    OBVIOUS
  <2>1. below(j) \in SUBSET below(k) /\ below(j) # below(k)
    <3>1. j \in 1 .. m /\ k \in 1 .. m
      OBVIOUS
    <3>2. \A i \in K : i \in Nat
      OBVIOUS
    <3>3. k \in below(k) /\ k \notin below(j)
      BY <3>1
    <3>4. \A i \in K : i <= j => i <= k
      BY <3>1, <3>2
    <3> QED
      BY <3>3, <3>4
  <2>2. rank[j] <= rank[k] /\ rank[j] # rank[k]
    BY <1>2, <2>1, FS_Subset
  <2> QED
    BY <1>2, <2>2
<1>4. rank \in Injection(K, 1 .. size)
  <2>1. rank \in [K -> 1 .. size]
    BY <1>2
  <2>2. \A j, k \in K : rank[j] = rank[k] => j = k
    BY <1>2, <1>3
  <2> QED
    BY <2>1, <2>2, Zenon DEF Injection, IsInjective
<1>5. rank \in Surjection(K, 1 .. size)
  BY <1>1, <1>4, FS_Interval, FS_Injection
<1>6. \A n \in 1 .. size : \E k \in K : rank[k] = n
  BY <1>5, Zenon DEF Surjection
<1>7. \A n \in 1 .. size : Nth(K, n) \in K /\ rank[Nth(K, n)] = n
  BY <1>6 DEF Nth
<1>8. \A k \in K : Nth(K, rank[k]) = k
  <2> SUFFICES ASSUME NEW k \in K PROVE Nth(K, rank[k]) = k
    OBVIOUS
  <2>1. Nth(K, rank[k]) \in K /\ rank[Nth(K, rank[k])] = rank[k]
    BY <1>2, <1>7
  <2>2. \A i, j \in K : rank[i] = rank[j] => i = j
    BY <1>4 DEF Injection, IsInjective
  <2> QED
    BY <2>1, <2>2, Zenon
<1>9. \A a, b \in 1 .. size : a < b => Nth(K, a) < Nth(K, b)
  <2> SUFFICES ASSUME NEW a \in 1 .. size, NEW b \in 1 .. size, a < b
               PROVE  Nth(K, a) < Nth(K, b)
    OBVIOUS
  <2> DEFINE na == Nth(K, a)
             nb == Nth(K, b)
  <2>1. na \in K /\ nb \in K /\ rank[na] = a /\ rank[nb] = b
    BY <1>7
  <2> HIDE DEF na, nb, rank
  <2>2. nb < na => rank[nb] < rank[na]
    BY <1>3, <2>1
  <2>3. na \in 1 .. m /\ nb \in 1 .. m
    BY <2>1
  <2>4. na < nb
    BY <2>1, <2>2, <2>3
  <2> QED
    BY <2>4 DEF na, nb
<1>10. \A k \in K : \E n \in 1 .. size : Nth(K, n) = k
  BY <1>2, <1>8
<1> QED
  BY <1>1, <1>7, <1>9, <1>10

\* A part of a list has its elements, in its order.
LEMMA RowsAtKeeps ==
  ASSUME NEW rows \in Seq(Row), NEW K \in SUBSET DOMAIN rows
  PROVE  /\ RowsAt(rows, K) \in Seq(Row)
         /\ Rows(RowsAt(rows, K)) = {rows[k] : k \in K}
         /\ Ascending(rows) => Ascending(RowsAt(rows, K))
<1> DEFINE size == Cardinality(K)
           part == RowsAt(rows, K)
<1>1. DOMAIN rows = 1 .. Len(rows) /\ Len(rows) \in Nat
  BY LenProperties
<1>2. /\ size \in Nat
      /\ \A n \in 1 .. size : Nth(K, n) \in K
      /\ \A k \in K : \E n \in 1 .. size : Nth(K, n) = k
      /\ \A a, b \in 1 .. size : a < b => Nth(K, a) < Nth(K, b)
  BY <1>1, NthEnumerates
<1>3. part = [n \in 1 .. size |-> rows[Nth(K, n)]]
  BY DEF RowsAt
<1> HIDE DEF part, size
<1>4. DOMAIN part = 1 .. size /\ \A n \in 1 .. size : part[n] = rows[Nth(K, n)]
  BY <1>3
<1>5. part \in Seq(Row)
  <2>1. \A n \in 1 .. size : rows[Nth(K, n)] \in Row
    BY <1>1, <1>2, ElementOfSeq
  <2>2. part \in [1 .. size -> Row]
    BY <1>3, <2>1
  <2> QED
    BY <1>2, <2>2, SeqDef
<1>6. Rows(part) = {rows[k] : k \in K}
  BY <1>2, <1>4 DEF Rows
<1>7. ASSUME Ascending(rows) PROVE Ascending(part)
  <2> SUFFICES ASSUME NEW a \in 1 .. size, NEW b \in 1 .. size, a < b
               PROVE  part[a].id < part[b].id
    BY <1>4 DEF Ascending
  <2>1. Nth(K, a) \in DOMAIN rows /\ Nth(K, b) \in DOMAIN rows /\ Nth(K, a) < Nth(K, b)
    BY <1>2
  <2> QED
    BY <1>4, <1>7, <2>1 DEF Ascending
<1> QED
  BY <1>5, <1>6, <1>7 DEF part

\* Two ascending lists, one below the other, make an ascending list of the elements of both.
LEMMA ConcatKeeps ==
  ASSUME NEW low \in Seq(Row), NEW high \in Seq(Row)
  PROVE  /\ low \o high \in Seq(Row)
         /\ Rows(low \o high) = Rows(low) \union Rows(high)
         /\ Ascending(low) /\ Ascending(high)
            /\ (\A p \in Rows(low), q \in Rows(high) : p.id < q.id)
            => Ascending(low \o high)
<1> DEFINE all == low \o high
<1>1. /\ all \in Seq(Row)
      /\ Len(low) \in Nat /\ Len(high) \in Nat
      /\ DOMAIN all = 1 .. Len(low) + Len(high)
      /\ DOMAIN low = 1 .. Len(low) /\ DOMAIN high = 1 .. Len(high)
      /\ \A n \in 1 .. Len(low) + Len(high) :
            all[n] = IF n <= Len(low) THEN low[n] ELSE high[n - Len(low)]
  BY ConcatProperties, LenProperties
<1> HIDE DEF all
<1>2. Rows(all) = Rows(low) \union Rows(high)
  <2>1. \A n \in DOMAIN all : all[n] \in Rows(low) \union Rows(high)
    <3> SUFFICES ASSUME NEW n \in DOMAIN all PROVE all[n] \in Rows(low) \union Rows(high)
      OBVIOUS
    <3>1. CASE n <= Len(low)
      BY <1>1, <3>1 DEF Rows
    <3>2. CASE n > Len(low)
      <4>1. n - Len(low) \in DOMAIN high /\ all[n] = high[n - Len(low)]
        BY <1>1, <3>2
      <4> QED
        BY <4>1 DEF Rows
    <3> QED
      BY <1>1, <3>1, <3>2
  <2>2. \A n \in DOMAIN low : n \in DOMAIN all /\ all[n] = low[n]
    BY <1>1
  <2>3. \A n \in DOMAIN high : n + Len(low) \in DOMAIN all /\ all[n + Len(low)] = high[n]
    BY <1>1
  <2> QED
    BY <2>1, <2>2, <2>3 DEF Rows
<1>3. ASSUME Ascending(low), Ascending(high),
             \A p \in Rows(low), q \in Rows(high) : p.id < q.id
      PROVE  Ascending(all)
  <2> SUFFICES ASSUME NEW m \in DOMAIN all, NEW n \in DOMAIN all, m < n
               PROVE  all[m].id < all[n].id
    BY DEF Ascending
  <2>1. CASE n <= Len(low)
    <3>1. m \in DOMAIN low /\ n \in DOMAIN low /\ all[m] = low[m] /\ all[n] = low[n]
      BY <1>1, <2>1
    <3> QED
      BY <1>3, <3>1 DEF Ascending
  <2>2. CASE m <= Len(low) /\ n > Len(low)
    <3>1. /\ m \in DOMAIN low /\ all[m] = low[m]
          /\ n - Len(low) \in DOMAIN high /\ all[n] = high[n - Len(low)]
      BY <1>1, <2>2
    <3>2. all[m] \in Rows(low) /\ all[n] \in Rows(high)
      BY <3>1 DEF Rows
    <3> QED
      BY <1>3, <3>2
  <2>3. CASE m > Len(low)
    <3>1. /\ m - Len(low) \in DOMAIN high /\ all[m] = high[m - Len(low)]
          /\ n - Len(low) \in DOMAIN high /\ all[n] = high[n - Len(low)]
          /\ m - Len(low) < n - Len(low)
      BY <1>1, <2>3
    <3> QED
      BY <1>3, <3>1 DEF Ascending
  <2> QED
    BY <1>1, <2>1, <2>2, <2>3
<1> QED
  BY <1>1, <1>2, <1>3 DEF all

\* insertPasskey adds the row, in its place if its passkey had none.
LEMMA InsertKeeps ==
  ASSUME NEW rows \in Seq(Row), NEW r \in Row
  PROVE  /\ InsertPasskey(rows, r) \in Seq(Row)
         /\ Rows(InsertPasskey(rows, r)) = Rows(rows) \union {r}
         /\ Ascending(rows) /\ (\A q \in Rows(rows) : q.id # r.id)
            => Ascending(InsertPasskey(rows, r))
<1> DEFINE L == {n \in DOMAIN rows : rows[n].id <= r.id}
           H == {n \in DOMAIN rows : rows[n].id > r.id}
           low == RowsAt(rows, L)
           high == RowsAt(rows, H)
<1>1. L \in SUBSET DOMAIN rows /\ H \in SUBSET DOMAIN rows
  OBVIOUS
<1>2. \A n \in DOMAIN rows : rows[n] \in Row
  BY ElementOfSeq, LenProperties
<1>3. /\ low \in Seq(Row) /\ high \in Seq(Row)
      /\ Rows(low) = {rows[k] : k \in L} /\ Rows(high) = {rows[k] : k \in H}
      /\ Ascending(rows) => Ascending(low) /\ Ascending(high)
  BY <1>1, RowsAtKeeps
<1>4. <<r>> \in Seq(Row) /\ Rows(<<r>>) = {r} /\ Ascending(<<r>>)
  <2>1. <<r>> \in Seq(Row) /\ DOMAIN <<r>> = {1} /\ <<r>>[1] = r
    OBVIOUS
  <2>2. Rows(<<r>>) = {r}
    BY <2>1 DEF Rows
  <2>3. Ascending(<<r>>)
    BY <2>1 DEF Ascending
  <2> QED
    BY <2>1, <2>2, <2>3
<1>5. r.id \in Nat /\ \A n \in DOMAIN rows : rows[n].id \in Nat
  BY <1>2 DEF Row, Ids
<1>6. L \union H = DOMAIN rows
  <2>1. \A n \in DOMAIN rows : rows[n].id <= r.id \/ rows[n].id > r.id
    BY <1>5
  <2> QED
    BY <2>1
<1>7. InsertPasskey(rows, r) = (low \o <<r>>) \o high
  BY DEF InsertPasskey
<1>8. /\ \A p \in Rows(low) : p.id <= r.id /\ p \in Rows(rows) /\ p.id \in Nat
      /\ \A q \in Rows(high) : r.id < q.id
  BY <1>3, <1>5 DEF Rows
<1>9. Rows(low) \union Rows(high) = Rows(rows)
  BY <1>3, <1>6 DEF Rows
<1> HIDE DEF low, high, L, H
<1>10. /\ low \o <<r>> \in Seq(Row)
       /\ Rows(low \o <<r>>) = Rows(low) \union {r}
       /\ Ascending(low) /\ (\A p \in Rows(low) : p.id < r.id) => Ascending(low \o <<r>>)
  BY <1>3, <1>4, ConcatKeeps
<1>11. /\ InsertPasskey(rows, r) \in Seq(Row)
       /\ Rows(InsertPasskey(rows, r)) = Rows(low) \union {r} \union Rows(high)
       /\ Ascending(low \o <<r>>) /\ Ascending(high)
          /\ (\A p \in Rows(low \o <<r>>), q \in Rows(high) : p.id < q.id)
          => Ascending(InsertPasskey(rows, r))
  BY <1>3, <1>7, <1>10, ConcatKeeps
<1>12. ASSUME Ascending(rows), \A q \in Rows(rows) : q.id # r.id
       PROVE  Ascending(InsertPasskey(rows, r))
  <2>1. \A p \in Rows(low) : p.id < r.id
    BY <1>5, <1>8, <1>12
  <2>2. \A q \in Rows(high) : q.id \in Nat
    BY <1>5, <1>9 DEF Rows
  <2>3. \A p \in Rows(low \o <<r>>), q \in Rows(high) : p.id < q.id
    BY <1>5, <1>8, <1>10, <2>1, <2>2
  <2> QED
    BY <1>3, <1>10, <1>11, <1>12, <2>1, <2>3
<1> QED
  BY <1>9, <1>11, <1>12

\* removeLocally takes away the rows of the passkey and no other.
LEMMA RemoveKeeps ==
  ASSUME NEW rows \in Seq(Row), NEW i
  PROVE  /\ RemoveLocally(rows, i) \in Seq(Row)
         /\ Rows(RemoveLocally(rows, i)) = {q \in Rows(rows) : q.id # i}
         /\ Ascending(rows) => Ascending(RemoveLocally(rows, i))
<1> DEFINE K == {n \in DOMAIN rows : rows[n].id # i}
<1>1. K \in SUBSET DOMAIN rows /\ RemoveLocally(rows, i) = RowsAt(rows, K)
  BY DEF RemoveLocally
<1>2. {rows[k] : k \in K} = {q \in Rows(rows) : q.id # i}
  BY DEF Rows
<1> QED
  BY <1>1, <1>2, RowsAtKeeps

\* The first of some positions is one of them.
LEMMA FirstIsOne ==
  ASSUME NEW m \in Nat, NEW K \in SUBSET (1 .. m), K # {}
  PROVE  Nth(K, 1) \in K
<1>1. PICK k \in K : TRUE
  OBVIOUS
<1>2. /\ Cardinality(K) \in Nat
      /\ \A n \in 1 .. Cardinality(K) : Nth(K, n) \in K
      /\ \A j \in K : \E n \in 1 .. Cardinality(K) : Nth(K, n) = j
  BY NthEnumerates
<1>3. Cardinality(K) >= 1
  BY <1>1, <1>2
<1> QED
  BY <1>2, <1>3

\* replacePasskey puts the row in the place of its passkey's, or adds it.
LEMMA ReplaceKeeps ==
  ASSUME NEW rows \in Seq(Row), NEW r \in Row
  PROVE  /\ ReplacePasskey(rows, r) \in Seq(Row)
         /\ \A q \in Rows(ReplacePasskey(rows, r)) : q \in Rows(rows) \union {r}
         /\ \A q \in Rows(rows) : \E p \in Rows(ReplacePasskey(rows, r)) : p.id = q.id
         /\ Ascending(rows) =>
               /\ Rows(ReplacePasskey(rows, r)) = {q \in Rows(rows) : q.id # r.id} \union {r}
               /\ Ascending(ReplacePasskey(rows, r))
<1> DEFINE same == {n \in DOMAIN rows : rows[n].id = r.id}
           new == ReplacePasskey(rows, r)
           k == Nth(same, 1)
<1>1. DOMAIN rows = 1 .. Len(rows) /\ Len(rows) \in Nat /\ \A n \in DOMAIN rows : rows[n] \in Row
  BY LenProperties, ElementOfSeq
<1>2. CASE same = {}
  <2>1. new = InsertPasskey(rows, r)
    BY <1>2 DEF ReplacePasskey
  <2>2. \A q \in Rows(rows) : q.id # r.id
    BY <1>2 DEF Rows
  <2>3. /\ new \in Seq(Row) /\ Rows(new) = Rows(rows) \union {r}
        /\ Ascending(rows) => Ascending(new)
    BY <2>1, <2>2, InsertKeeps
  <2> HIDE DEF new
  <2>4. {q \in Rows(rows) : q.id # r.id} = Rows(rows)
    BY <2>2
  <2> QED
    BY <2>3, <2>4 DEF new
<1>3. CASE same # {}
  <2>1. new = [rows EXCEPT ![k] = r]
    BY <1>3 DEF ReplacePasskey
  <2>2. k \in same
    BY <1>1, <1>3, FirstIsOne
  <2>3. k \in DOMAIN rows /\ rows[k].id = r.id
    BY <2>2
  <2> HIDE DEF new, k, same
  <2>4. new \in Seq(Row)
    BY <1>1, <2>1, <2>3, ExceptSeq
  <2>5. DOMAIN new = DOMAIN rows /\ new[k] = r /\ \A n \in DOMAIN rows : n # k => new[n] = rows[n]
    BY <2>1, <2>3
  <2>6. \A n \in DOMAIN rows : new[n].id = rows[n].id
    BY <2>3, <2>5
  <2>7. /\ \A q \in Rows(new) : q \in Rows(rows) \union {r}
        /\ \A q \in Rows(rows) : \E p \in Rows(new) : p.id = q.id
    BY <2>5, <2>6 DEF Rows
  <2>8. ASSUME Ascending(rows)
        PROVE  Rows(new) = {q \in Rows(rows) : q.id # r.id} \union {r} /\ Ascending(new)
    <3>1. \A n \in DOMAIN rows : n # k => rows[n].id # r.id
      <4> SUFFICES ASSUME NEW n \in DOMAIN rows, n # k PROVE rows[n].id # r.id
        OBVIOUS
      <4>1. n \in Int /\ k \in Int /\ rows[n].id \in Nat /\ r.id \in Nat
        BY <1>1, <2>3 DEF Row, Ids
      <4>2. n < k \/ k < n
        BY <4>1
      <4> QED
        BY <2>3, <2>8, <4>1, <4>2 DEF Ascending
    <3>2. Rows(new) = {q \in Rows(rows) : q.id # r.id} \union {r}
      BY <2>3, <2>5, <3>1 DEF Rows
    <3>3. Ascending(new)
      BY <2>5, <2>6, <2>8 DEF Ascending
    <3> QED
      BY <3>2, <3>3
  <2> QED
    BY <2>4, <2>7, <2>8 DEF new
<1> QED
  BY <1>2, <1>3

\* In an ascending list a passkey has one row.
LEMMA OneRowEach ==
  ASSUME NEW rows \in Seq(Row), Ascending(rows),
         NEW p \in Rows(rows), NEW q \in Rows(rows), p.id = q.id
  PROVE  p = q
<1>1. DOMAIN rows = 1 .. Len(rows) /\ Len(rows) \in Nat /\ \A n \in DOMAIN rows : rows[n] \in Row
  BY LenProperties, ElementOfSeq
<1>2. PICK m \in DOMAIN rows, n \in DOMAIN rows : p = rows[m] /\ q = rows[n]
  BY DEF Rows
<1>3. rows[m].id \in Nat /\ rows[n].id \in Nat
  BY <1>1 DEF Row, Ids
<1>4. ~ m < n /\ ~ n < m
  BY <1>2, <1>3 DEF Ascending
<1>5. m \in Int /\ n \in Int
  BY <1>1
<1>6. m = n
  BY <1>4, <1>5
<1> QED
  BY <1>2, <1>6

\* The elements of a list are of its type.
LEMMA RowsType ==
  ASSUME NEW rows \in Seq(Row)
  PROVE  Rows(rows) \subseteq Row
<1>1. \A n \in DOMAIN rows : rows[n] \in Row
  BY LenProperties, ElementOfSeq
<1> QED
  BY <1>1 DEF Rows

LEMMA NoRows == Rows(<<>>) = {} /\ <<>> \in Seq(Row) /\ Ascending(<<>>)
<1>1. DOMAIN <<>> = {}
  OBVIOUS
<1>2. Rows(<<>>) = {}
  BY <1>1 DEF Rows
<1>3. Ascending(<<>>)
  BY <1>1 DEF Ascending
<1> QED
  BY <1>2, <1>3

\* list_passkeys answers with every passkey of the account, once, in order.
LEMMA ListIsTheAccount ==
  ASSUME SecurityTypeOK
  PROVE  /\ ListPasskeys.pc = "answered"
         /\ ListPasskeys.password = [has |-> hasPassword[Owner], stamp |-> stamp[Password]]
         /\ ListPasskeys \in [pc : {"answered"}, passkeys : Seq(Row), password : PasswordState]
         /\ Ascending(ListPasskeys.passkeys)
         /\ Rows(ListPasskeys.passkeys) =
               {[id |-> i, stamp |-> stamp[i]] : i \in {j \in Ids : IsHeld(j)}}
<1> DEFINE every == [i \in Ids |-> [id |-> i, stamp |-> stamp[i]]]
           K == {i \in Ids : IsHeld(i)}
           list == RowsAt(every, K)
<1>1. MaxIds \in Nat /\ Ids = 1 .. MaxIds
  BY BoundsAssumption DEF Ids
<1>2. \A i \in Ids : [id |-> i, stamp |-> stamp[i]] \in Row
  BY DEF SecurityTypeOK, Row, Items
<1>3. every \in [1 .. MaxIds -> Row] /\ DOMAIN every = Ids
  BY <1>1, <1>2
<1>4. every \in Seq(Row)
  BY <1>1, <1>3, SeqDef
<1>5. Ascending(every)
  BY DEF Ascending
<1>6. K \in SUBSET DOMAIN every
  BY <1>3
<1>7. {every[k] : k \in K} = {[id |-> i, stamp |-> stamp[i]] : i \in K}
  OBVIOUS
<1>8. list \in Seq(Row) /\ Ascending(list) /\ Rows(list) = {every[k] : k \in K}
  <2> HIDE DEF every, K
  <2> QED
    BY <1>4, <1>5, <1>6, RowsAtKeeps
<1>9. [has |-> hasPassword[Owner], stamp |-> stamp[Password]] \in PasswordState
  BY DEF SecurityTypeOK, PasswordState, Items
<1>10. ListPasskeys = [pc |-> "answered", passkeys |-> list,
                       password |-> [has |-> hasPassword[Owner], stamp |-> stamp[Password]]]
  BY DEF ListPasskeys
<1> HIDE DEF list, every
<1> QED
  BY <1>7, <1>8, <1>9, <1>10

-----------------------------------------------------------------------------
(* What the account's operations do to what the page was told. *)

AccountTypeOK ==
    /\ held \subseteq {Owner} \X Ids
    /\ hasPassword \in [{Owner} -> BOOLEAN]
    /\ epoch \in [{Owner} -> Nat]
    /\ nextId \in 1 .. MaxIds + 1
    /\ stamp \in [Items -> Nat]

\* A change of item i alone; a passkey that is gone is not touched again.
Changes(i) ==
    /\ AccountTypeOK'
    /\ AccountOK'
    /\ nextId <= nextId'
    /\ stamp' = [stamp EXCEPT ![i] = @ + 1]
    /\ \A j \in Items \ {i} : Have(j)' <=> Have(j)
    /\ \A j \in Ids : j < nextId /\ ~IsHeld(j) => j # i

LEMMA AddChanges ==
  ASSUME SecurityTypeOK, AccountOK, AddPasskey
  PROVE  /\ nextId \in Ids /\ Changes(nextId) /\ <<Owner, nextId>> \in held'
         /\ nextId' = nextId + 1
         /\ stamp[nextId] = 0 /\ stamp'[nextId] = 1
<1>1. /\ nextId \in Ids /\ held' = held \union {<<Owner, nextId>>} /\ hasPassword' = hasPassword
      /\ epoch' = [epoch EXCEPT ![Owner] = @ + 1]
      /\ stamp' = [stamp EXCEPT ![nextId] = @ + 1] /\ nextId' = nextId + 1
  BY DEF AddPasskey, Stamped, Methods!Add, Methods!Bump
<1>2. MaxIds \in Nat /\ \A i \in Ids : i \in Items /\ i # Password /\ i \in Nat
  BY BoundsAssumption DEF Ids, Items, Password
<1>3. AccountTypeOK'
  BY <1>1, <1>2 DEF SecurityTypeOK, AccountTypeOK, Ids
<1>4. stamp[nextId] = 0 /\ stamp'[nextId] = 1
  BY <1>1, <1>2 DEF SecurityTypeOK, AccountOK
<1>5. \A j \in Ids : IsHeld(j)' <=> IsHeld(j) \/ j = nextId
  BY <1>1 DEF IsHeld
<1>6. \A j \in Ids : j # nextId => stamp'[j] = stamp[j]
  BY <1>1, <1>2 DEF SecurityTypeOK
<1>7. AccountOK'
  BY <1>1, <1>2, <1>4, <1>5, <1>6 DEF AccountOK, SecurityTypeOK
<1>8. \A j \in Items \ {nextId} : Have(j)' <=> Have(j)
  BY <1>1, <1>5 DEF Have, Items
<1>9. nextId <= nextId' /\ \A j \in Ids : j < nextId => j # nextId
  BY <1>1, <1>2
<1> QED
  BY <1>1, <1>3, <1>4, <1>7, <1>8, <1>9 DEF Changes

LEMMA RenameChanges ==
  ASSUME SecurityTypeOK, AccountOK, NEW i \in Ids, RenamePasskey(i)
  PROVE  Changes(i) /\ IsHeld(i)' /\ nextId' = nextId /\ i < nextId
<1>1. /\ IsHeld(i) /\ held' = held /\ hasPassword' = hasPassword /\ epoch' = epoch
      /\ stamp' = [stamp EXCEPT ![i] = @ + 1] /\ nextId' = nextId
  BY DEF RenamePasskey, Stamped
<1>2. MaxIds \in Nat /\ \A j \in Ids : j \in Items /\ j \in Nat
  BY BoundsAssumption DEF Ids, Items, Password
<1>3. AccountTypeOK'
  BY <1>1, <1>2 DEF SecurityTypeOK, AccountTypeOK
<1>4. \A j \in Items : IsHeld(j)' <=> IsHeld(j)
  BY <1>1 DEF IsHeld
<1>5. /\ stamp'[i] = stamp[i] + 1 /\ stamp[i] \in Nat
      /\ \A j \in Ids : j # i => stamp'[j] = stamp[j]
  BY <1>1, <1>2 DEF SecurityTypeOK
<1>6. i < nextId
  BY <1>1, <1>2 DEF AccountOK, SecurityTypeOK
<1>7. AccountOK'
  BY <1>1, <1>2, <1>4, <1>5, <1>6 DEF AccountOK
<1>8. \A j \in Items \ {i} : Have(j)' <=> Have(j)
  BY <1>1, <1>4 DEF Have
<1> QED
  BY <1>1, <1>2, <1>3, <1>4, <1>6, <1>7, <1>8 DEF Changes, SecurityTypeOK

LEMMA DeleteChanges ==
  ASSUME SecurityTypeOK, AccountOK, NEW i \in Ids, DeletePasskey(i)
  PROVE  Changes(i) /\ ~IsHeld(i)' /\ nextId' = nextId /\ i < nextId
<1>1. /\ IsHeld(i) /\ held' = held \ {<<Owner, i>>} /\ hasPassword' = hasPassword
      /\ epoch' = [epoch EXCEPT ![Owner] = @ + 1]
      /\ stamp' = [stamp EXCEPT ![i] = @ + 1] /\ nextId' = nextId
  BY DEF DeletePasskey, Stamped, Methods!Delete, Methods!Bump, IsHeld
<1>2. MaxIds \in Nat /\ \A j \in Ids : j \in Items /\ j \in Nat
  BY BoundsAssumption DEF Ids, Items, Password
<1>3. AccountTypeOK'
  BY <1>1, <1>2 DEF SecurityTypeOK, AccountTypeOK
<1>4. \A j \in Items : IsHeld(j)' <=> IsHeld(j) /\ j # i
  BY <1>1 DEF IsHeld
<1>5. /\ stamp'[i] = stamp[i] + 1 /\ stamp[i] \in Nat
      /\ \A j \in Ids : j # i => stamp'[j] = stamp[j]
  BY <1>1, <1>2 DEF SecurityTypeOK
<1>6. i < nextId
  BY <1>1, <1>2 DEF AccountOK, SecurityTypeOK
<1>7. AccountOK'
  BY <1>1, <1>2, <1>4, <1>5, <1>6 DEF AccountOK
<1>8. \A j \in Items \ {i} : Have(j)' <=> Have(j)
  BY <1>1, <1>4 DEF Have
<1> QED
  BY <1>1, <1>2, <1>3, <1>4, <1>6, <1>7, <1>8 DEF Changes, SecurityTypeOK

LEMMA PasswordChanges ==
  ASSUME SecurityTypeOK, AccountOK, RemovePassword \/ SetPassword
  PROVE  /\ Changes(Password) /\ nextId' = nextId
         /\ RemovePassword => ~Have(Password)'
<1>1. /\ held' = held /\ epoch' = epoch
      /\ \E b \in BOOLEAN : hasPassword' = [hasPassword EXCEPT ![Owner] = b]
      /\ stamp' = [stamp EXCEPT ![Password] = @ + 1] /\ nextId' = nextId
  BY DEF RemovePassword, SetPassword, Stamped, Methods!RemovePassword, Methods!SetPassword
<1>2. MaxIds \in Nat /\ Password \in Items /\ \A j \in Ids : j \in Items /\ j \in Nat /\ j # Password
  BY BoundsAssumption DEF Ids, Items, Password
<1>3. AccountTypeOK'
  BY <1>1, <1>2 DEF SecurityTypeOK, AccountTypeOK
<1>4. \A j \in Items : IsHeld(j)' <=> IsHeld(j)
  BY <1>1 DEF IsHeld
<1>5. \A j \in Ids : stamp'[j] = stamp[j]
  BY <1>1, <1>2 DEF SecurityTypeOK
<1>6. AccountOK'
  BY <1>1, <1>4, <1>5, <1>2 DEF AccountOK
<1>7. \A j \in Items \ {Password} : Have(j)' <=> Have(j)
  BY <1>4 DEF Have
<1>8. RemovePassword => ~Have(Password)'
  BY DEF RemovePassword, Methods!RemovePassword, Have, SecurityTypeOK
<1> QED
  BY <1>1, <1>2, <1>3, <1>6, <1>7, <1>8 DEF Changes, SecurityTypeOK

\* What an answer says of an item stays right until the item changes, and then it is old.
LEMMA TellsStays ==
  ASSUME SecurityTypeOK, NEW i \in Items, Changes(i),
         NEW j \in Items, NEW there, NEW at \in Nat, Tells(j, there, at)
  PROVE  Tells(j, there, at)'
<1>1. stamp \in [Items -> Nat] /\ stamp' = [stamp EXCEPT ![i] = @ + 1]
  BY DEF SecurityTypeOK, Changes
<1>2. CASE j = i
  <2>1. stamp'[j] = stamp[j] + 1 /\ stamp[j] \in Nat
    BY <1>1, <1>2
  <2> QED
    BY <2>1 DEF Tells
<1>3. CASE j # i
  <2>1. stamp'[j] = stamp[j] /\ (Have(j)' <=> Have(j))
    BY <1>1, <1>3 DEF Changes
  <2> QED
    BY <2>1 DEF Tells
<1> QED
  BY <1>2, <1>3

-----------------------------------------------------------------------------
(* The steps, one by one. *)

\* A step that leaves the account alone leaves true what was told of it.
LEMMA AccountSame ==
  ASSUME UNCHANGED account
  PROVE  /\ AccountOK => AccountOK'
         /\ \A j, there, at : Tells(j, there, at)' <=> Tells(j, there, at)
         /\ \A j : IsHeld(j)' <=> IsHeld(j)
         /\ stamp' = stamp /\ nextId' = nextId
<1>1. held' = held /\ hasPassword' = hasPassword /\ stamp' = stamp /\ nextId' = nextId
  BY DEF account
<1>2. \A j : IsHeld(j)' <=> IsHeld(j)
  BY <1>1 DEF IsHeld
<1>3. \A j, there, at : Tells(j, there, at)' <=> Tells(j, there, at)
  BY <1>1, <1>2 DEF Tells, Have
<1> QED
  BY <1>1, <1>2, <1>3 DEF AccountOK

\* A change of the account leaves the page's own state right.
LEMMA PageKeeps ==
  ASSUME SecurityIInv, NEW i \in Items, Changes(i),
         UNCHANGED <<loading, shown, raced, known>>
  PROVE  /\ LoadingOK'
         /\ \A r \in Rows(passkeys') : r.id < nextId'
         /\ ~raced' => \A j \in Items : Tells(j, known[j].there, known[j].stamp)'
         /\ ShowsNewestKnown'
<1>1. /\ loading' = loading /\ passkeys' = passkeys /\ password' = password
      /\ raced' = raced /\ known' = known
  BY DEF shown
<1>2. nextId \in Nat /\ nextId' \in Nat /\ nextId <= nextId'
  BY BoundsAssumption DEF Changes, AccountTypeOK, SecurityIInv, SecurityTypeOK
<1>3. \A r \in Row : r.id \in Nat /\ r.id \in Items /\ r.stamp \in Nat
  BY DEF Row, Ids, Items
<1>4. loading.passkeys \in Seq(Row) /\ passkeys \in Seq(Row)
  BY DEF SecurityIInv, SecurityTypeOK
<1>5. LoadingOK'
  <2> SUFFICES ASSUME loading.pc = "answered"
               PROVE  /\ Ascending(loading.passkeys)
                      /\ \A r \in Rows(loading.passkeys) :
                            r.id < nextId' /\ r.stamp > 0 /\ Tells(r.id, TRUE, r.stamp)'
                      /\ Tells(Password, loading.password.has, loading.password.stamp)'
    BY <1>1 DEF LoadingOK
  <2>1. /\ Ascending(loading.passkeys)
        /\ \A r \in Rows(loading.passkeys) :
              r.id < nextId /\ r.stamp > 0 /\ Tells(r.id, TRUE, r.stamp)
        /\ Tells(Password, loading.password.has, loading.password.stamp)
    BY DEF SecurityIInv, LoadingOK
  <2>2. \A r \in Rows(loading.passkeys) : r \in Row
    BY <1>4, RowsType
  <2>3. Password \in Items /\ loading.password.stamp \in Nat
    BY DEF SecurityIInv, SecurityTypeOK, PasswordState, Items
  <2>4. Tells(Password, loading.password.has, loading.password.stamp)'
    BY <2>1, <2>3, TellsStays DEF SecurityIInv
  <2>5. \A r \in Rows(loading.passkeys) : Tells(r.id, TRUE, r.stamp)'
    BY <1>3, <2>1, <2>2, TellsStays DEF SecurityIInv
  <2>6. \A r \in Rows(loading.passkeys) : r.id < nextId'
    <3> SUFFICES ASSUME NEW r \in Rows(loading.passkeys) PROVE r.id < nextId'
      OBVIOUS
    <3>1. r.id \in Nat /\ r.id < nextId
      BY <1>3, <2>1, <2>2
    <3> QED
      BY <1>2, <3>1
  <2> QED
    BY <2>1, <2>4, <2>5, <2>6
<1>6. \A r \in Rows(passkeys') : r.id < nextId'
  <2>1. \A r \in Rows(passkeys) : r.id < nextId /\ r.id \in Nat
    BY <1>3, <1>4, RowsType DEF SecurityIInv, KnownOK
  <2> QED
    BY <1>1, <1>2, <2>1
<1>7. ASSUME ~raced', NEW j \in Items PROVE Tells(j, known[j].there, known[j].stamp)'
  <2>1. Tells(j, known[j].there, known[j].stamp) /\ known[j].stamp \in Nat
    BY <1>1, <1>7 DEF SecurityIInv, KnownOK, SecurityTypeOK
  <2>2. \A there, at : (at \in Nat /\ Tells(j, there, at)) => Tells(j, there, at)'
    BY TellsStays DEF SecurityIInv
  <2> QED
    BY <1>1, <2>1, <2>2
<1>8. ShowsNewestKnown'
  BY <1>1 DEF SecurityIInv, ShowsNewestKnown
<1> QED
  BY <1>5, <1>6, <1>7, <1>8

LEMMA ElsewhereChanges ==
  ASSUME SecurityTypeOK, AccountOK, Elsewhere
  PROVE  \E i \in Items : Changes(i)
<1>1. Password \in Items /\ \A i \in Ids : i \in Items
  BY DEF Items
<1>2. CASE AddPasskey
  BY <1>1, <1>2, AddChanges
<1>3. CASE RemovePassword \/ SetPassword
  BY <1>1, <1>3, PasswordChanges
<1>4. ASSUME NEW i \in Ids, RenamePasskey(i) \/ DeletePasskey(i) PROVE Changes(i)
  BY <1>4, RenameChanges, DeleteChanges
<1> QED
  BY <1>1, <1>2, <1>3, <1>4 DEF Elsewhere

LEMMA ElsewhereKeeps ==
  ASSUME SecurityIInv, Elsewhere
  PROVE  SecurityIInv'
<1>1. PICK i \in Items : Changes(i)
  BY ElsewhereChanges DEF SecurityIInv
<1>2. /\ loading' = loading /\ passkeys' = passkeys /\ password' = password
      /\ busy' = busy /\ actionGeneration' = actionGeneration
      /\ actions' = actions /\ raced' = raced /\ known' = known
      /\ others < MaxOthers /\ others' = others + 1
  BY DEF Elsewhere, shown, guards
<1>3. SecurityTypeOK'
  <2>1. others' \in 0 .. MaxOthers
    BY <1>2, BoundsAssumption DEF SecurityIInv, SecurityTypeOK
  <2> QED
    BY <1>1, <1>2, <2>1 DEF SecurityIInv, SecurityTypeOK, Changes, AccountTypeOK
<1>4. /\ LoadingOK'
      /\ \A r \in Rows(passkeys') : r.id < nextId'
      /\ ~raced' => \A j \in Items : Tells(j, known[j].there, known[j].stamp)'
      /\ ShowsNewestKnown'
  BY <1>1, <1>2, PageKeeps DEF shown
<1>5. OneAction'
  BY <1>2 DEF SecurityIInv, OneAction
<1>6. ActionsOK'
  <2> SUFFICES ASSUME NEW a \in actions PROVE ActionOK(a)'
    BY <1>2 DEF ActionsOK
  <2>1. a \in Action /\ a.item \in Items /\ a.stamp \in Nat
    BY DEF SecurityIInv, SecurityTypeOK, Action
  <2>2. ActionOK(a)
    BY DEF SecurityIInv, ActionsOK
  <2>3. nextId \in Nat /\ nextId' \in Nat /\ nextId <= nextId' /\ \A j \in Ids : j \in Nat
    BY <1>1, BoundsAssumption DEF Changes, AccountTypeOK, SecurityIInv, SecurityTypeOK, Ids
  <2>4. a.item \in Ids /\ a.item < nextId => a.item < nextId'
    BY <2>3
  <2>5. \A there : Tells(a.item, there, a.stamp) => Tells(a.item, there, a.stamp)'
    BY <1>1, <2>1, TellsStays DEF SecurityIInv
  <2>6. a.item \in Ids /\ a.item < nextId /\ ~IsHeld(a.item)
           => ~IsHeld(a.item)' /\ stamp'[a.item] = stamp[a.item]
    <3> SUFFICES ASSUME a.item \in Ids, a.item < nextId, ~IsHeld(a.item)
                 PROVE  ~IsHeld(a.item)' /\ stamp'[a.item] = stamp[a.item]
      OBVIOUS
    <3>1. a.item # i
      BY <1>1 DEF Changes
    <3>2. Have(a.item)' <=> Have(a.item)
      BY <1>1, <2>1, <3>1 DEF Changes
    <3>3. a.item # Password
      BY DEF Password, Ids
    <3>4. ~IsHeld(a.item)'
      BY <3>2, <3>3 DEF Have
    <3> QED
      BY <1>1, <2>1, <3>1, <3>4 DEF Changes, SecurityIInv, SecurityTypeOK
  <2> QED
    BY <2>2, <2>4, <2>5, <2>6 DEF ActionOK
<1>7. KnownOK'
  BY <1>2, <1>4 DEF SecurityIInv, KnownOK
<1> QED
  BY <1>1, <1>3, <1>4, <1>5, <1>6, <1>7 DEF SecurityIInv, Changes

\* What SecurityIInv says of an action begun: it is the only one.
LEMMA TheAction ==
  ASSUME SecurityIInv, NEW a \in actions
  PROVE  /\ a \in Action /\ a.item \in Items /\ a.stamp \in Nat
         /\ a.gen = actionGeneration /\ actions = {a} /\ busy = TRUE
         /\ ActionOK(a)
         /\ ~raced => loading.pc = "done"
<1>1. a \in Action /\ a.item \in Items /\ a.stamp \in Nat
  BY DEF SecurityIInv, SecurityTypeOK, Action
<1>2. a.gen = actionGeneration /\ actions = {a} /\ busy = TRUE
  BY DEF SecurityIInv, SecurityTypeOK, OneAction
<1>3. ActionOK(a)
  BY DEF SecurityIInv, ActionsOK
<1>4. ~raced => loading.pc = "done"
  BY DEF SecurityIInv, KnownOK
<1> QED
  BY <1>1, <1>2, <1>3, <1>4

\* A step that only moves the action on, and perhaps changes the account, keeps the rest.
LEMMA MovesOn ==
  ASSUME SecurityIInv, NEW a \in actions, NEW b \in Action, Becomes(a, b), b.gen = a.gen,
         UNCHANGED browser, AccountTypeOK'
  PROVE  SecurityTypeOK' /\ OneAction' /\ actions' = {b}
<1>1. /\ others' = others /\ loading' = loading /\ passkeys' = passkeys /\ password' = password
      /\ busy' = busy /\ actionGeneration' = actionGeneration /\ raced' = raced /\ known' = known
  BY DEF browser, shown, guards
<1>2. actions' = {b}
  BY TheAction DEF Becomes
<1>3. SecurityTypeOK'
  BY <1>1, <1>2 DEF SecurityIInv, SecurityTypeOK, AccountTypeOK
<1>4. OneAction'
  BY <1>1, <1>2, TheAction DEF OneAction
<1> QED
  BY <1>2, <1>3, <1>4

LEMMA ServedKeeps ==
  ASSUME SecurityIInv, NEW a \in actions, Served(a)
  PROVE  SecurityIInv'
<1>a. /\ a \in Action /\ a.item \in Items /\ a.stamp \in Nat
      /\ a.gen = actionGeneration /\ actions = {a} /\ ActionOK(a)
      /\ ~raced => loading.pc = "done"
  BY TheAction
<1>t. SecurityTypeOK /\ AccountOK /\ stamp \in [Items -> Nat] /\ nextId \in Nat
  BY BoundsAssumption DEF SecurityIInv, SecurityTypeOK
<1>u. /\ loading' = loading /\ passkeys' = passkeys /\ password' = password
      /\ raced' = raced /\ known' = known /\ UNCHANGED browser
  BY DEF Served, browser, shown, guards
<1>1. PICK i \in Items, b \in Action :
        /\ Changes(i) /\ Becomes(a, b) /\ b.op = a.op /\ b.gen = a.gen
        /\ b.pc = "ok" /\ b.item = i /\ b.stamp = stamp'[i]
        /\ a.op = "add" => i \in Ids /\ i < nextId' /\ b.stamp = 1
        /\ a.op \in {"rename", "remove"} => i \in Ids /\ i < nextId'
        /\ a.op = "removePassword" => i = Password
        /\ Have(i)' <=> a.op \in {"add", "rename"}
  <2>1. CASE a.op = "add" /\ AddPasskey /\ Answered(a, nextId, 1)
    <3> DEFINE b == [a EXCEPT !.pc = "ok", !.item = nextId, !.stamp = 1]
    <3>1. /\ nextId \in Ids /\ Changes(nextId) /\ <<Owner, nextId>> \in held'
          /\ nextId' = nextId + 1 /\ stamp'[nextId] = 1
      BY <1>t, <2>1, AddChanges
    <3>2. nextId \in Items /\ nextId # Password
      BY <3>1 DEF Items, Ids, Password
    <3>3. b \in Action /\ Becomes(a, b) /\ b.op = a.op /\ b.gen = a.gen
          /\ b.pc = "ok" /\ b.item = nextId /\ b.stamp = 1
      BY <1>a, <2>1, <3>2 DEF Action, Answered
    <3>4. PICK j \in Ids : j = nextId
      BY <3>1
    <3>5. Changes(j)
      BY <3>1, <3>4 DEF Changes
    <3>6. j < nextId' /\ stamp'[j] = 1 /\ j \in Items
      BY <1>t, <3>1, <3>2, <3>4
    <3>7. Have(j)'
      BY <3>1, <3>2, <3>4 DEF Have, IsHeld
    <3> HIDE DEF b
    <3> QED
      BY <2>1, <3>3, <3>4, <3>5, <3>6, <3>7
  <2>2. CASE a.op = "rename" /\ RenamePasskey(a.item) /\ Answered(a, a.item, stamp[a.item] + 1)
    <3> DEFINE b == [a EXCEPT !.pc = "ok", !.item = a.item, !.stamp = stamp[a.item] + 1]
    <3>1. a.item \in Ids
      BY <1>a, <2>2 DEF ActionOK
    <3>2. Changes(a.item) /\ IsHeld(a.item)' /\ nextId' = nextId /\ a.item < nextId
      BY <1>t, <2>2, <3>1, RenameChanges
    <3>3. stamp'[a.item] = stamp[a.item] + 1 /\ stamp[a.item] \in Nat
      BY <1>a, <1>t, <3>2 DEF Changes
    <3>b. Becomes(a, b)
      BY <2>2 DEF Answered
    <3>4. b \in Action /\ b.op = a.op /\ b.gen = a.gen
          /\ b.pc = "ok" /\ b.item = a.item /\ b.stamp = stamp'[a.item]
      <4>1. PICK i \in Items, n \in Nat : i = a.item /\ n = stamp[a.item] + 1
        BY <1>a, <3>3
      <4>2. b = [a EXCEPT !.pc = "ok", !.item = i, !.stamp = n]
        BY <4>1
      <4> HIDE DEF b
      <4>3. b \in Action /\ b.op = a.op /\ b.gen = a.gen
            /\ b.pc = "ok" /\ b.item = i /\ b.stamp = n
        BY <1>a, <4>2 DEF Action
      <4> QED
        BY <3>3, <4>1, <4>3
    <3>5. Have(a.item)'
      BY <3>1, <3>2 DEF Have, Ids, Password
    <3> HIDE DEF b
    <3>6. a.item \in Items /\ a.item < nextId'
      BY <1>a, <3>2
    <3> QED
      BY <2>2, <3>1, <3>2, <3>4, <3>b, <3>5, <3>6
  <2>3. CASE a.op = "remove" /\ DeletePasskey(a.item) /\ Answered(a, a.item, stamp[a.item] + 1)
    <3> DEFINE b == [a EXCEPT !.pc = "ok", !.item = a.item, !.stamp = stamp[a.item] + 1]
    <3>1. a.item \in Ids
      BY <1>a, <2>3 DEF ActionOK
    <3>2. Changes(a.item) /\ ~IsHeld(a.item)' /\ nextId' = nextId /\ a.item < nextId
      BY <1>t, <2>3, <3>1, DeleteChanges
    <3>3. stamp'[a.item] = stamp[a.item] + 1 /\ stamp[a.item] \in Nat
      BY <1>a, <1>t, <3>2 DEF Changes
    <3>b. Becomes(a, b)
      BY <2>3 DEF Answered
    <3>4. b \in Action /\ b.op = a.op /\ b.gen = a.gen
          /\ b.pc = "ok" /\ b.item = a.item /\ b.stamp = stamp'[a.item]
      <4>1. PICK i \in Items, n \in Nat : i = a.item /\ n = stamp[a.item] + 1
        BY <1>a, <3>3
      <4>2. b = [a EXCEPT !.pc = "ok", !.item = i, !.stamp = n]
        BY <4>1
      <4> HIDE DEF b
      <4>3. b \in Action /\ b.op = a.op /\ b.gen = a.gen
            /\ b.pc = "ok" /\ b.item = i /\ b.stamp = n
        BY <1>a, <4>2 DEF Action
      <4> QED
        BY <3>3, <4>1, <4>3
    <3>5. ~Have(a.item)'
      BY <3>1, <3>2 DEF Have, Ids, Password
    <3> HIDE DEF b
    <3>6. a.item \in Items /\ a.item < nextId'
      BY <1>a, <3>2
    <3> QED
      BY <2>3, <3>1, <3>2, <3>4, <3>b, <3>5, <3>6
  <2>4. CASE a.op = "removePassword" /\ RemovePassword /\ Answered(a, a.item, stamp[a.item] + 1)
    <3> DEFINE b == [a EXCEPT !.pc = "ok", !.item = a.item, !.stamp = stamp[a.item] + 1]
    <3>1. a.item = Password
      BY <1>a, <2>4 DEF ActionOK
    <3>2. Changes(a.item) /\ ~Have(a.item)'
      BY <1>t, <2>4, <3>1, PasswordChanges
    <3>3. stamp'[a.item] = stamp[a.item] + 1 /\ stamp[a.item] \in Nat
      BY <1>a, <1>t, <3>2 DEF Changes
    <3>b. Becomes(a, b)
      BY <2>4 DEF Answered
    <3>4. b \in Action /\ b.op = a.op /\ b.gen = a.gen
          /\ b.pc = "ok" /\ b.item = a.item /\ b.stamp = stamp'[a.item]
      <4>1. PICK i \in Items, n \in Nat : i = a.item /\ n = stamp[a.item] + 1
        BY <1>a, <3>3
      <4>2. b = [a EXCEPT !.pc = "ok", !.item = i, !.stamp = n]
        BY <4>1
      <4> HIDE DEF b
      <4>3. b \in Action /\ b.op = a.op /\ b.gen = a.gen
            /\ b.pc = "ok" /\ b.item = i /\ b.stamp = n
        BY <1>a, <4>2 DEF Action
      <4> QED
        BY <3>3, <4>1, <4>3
    <3> HIDE DEF b
    <3> QED
      BY <1>a, <2>4, <3>1, <3>2, <3>4, <3>b
  <2> QED
    BY <2>1, <2>2, <2>3, <2>4 DEF Served
<1>2. SecurityTypeOK' /\ OneAction' /\ actions' = {b}
  <2>1. AccountTypeOK' /\ Becomes(a, b) /\ b.gen = a.gen /\ UNCHANGED browser
    BY <1>1, <1>u DEF Changes
  <2> QED
    BY <2>1, MovesOn
<1>3. /\ LoadingOK'
      /\ \A r \in Rows(passkeys') : r.id < nextId'
      /\ ~raced' => \A j \in Items : Tells(j, known[j].there, known[j].stamp)'
      /\ ShowsNewestKnown'
  BY <1>1, <1>u, PageKeeps DEF shown
<1>4. i \in Ids => i # Password
  BY BoundsAssumption DEF Ids, Password
<1>5. Tells(i, b.op \in {"add", "rename"}, b.stamp)'
  <2>1. b.stamp \in Nat
    BY DEF Action
  <2> QED
    BY <1>1, <2>1 DEF Tells
<1>6. ActionOK(b)'
  <2>1. b.stamp > 0
    BY <1>1, <1>t, <1>4 DEF Changes
  <2>2. b.op = "remove" => ~IsHeld(i)'
    BY <1>1, <1>4 DEF Have, Ids, Password
  <2> QED
    BY <1>1, <1>5, <2>1, <2>2 DEF ActionOK
<1>7. ActionsOK'
  BY <1>2, <1>6 DEF ActionsOK
<1>8. ASSUME ~raced PROVE known[i].stamp < b.stamp
  <2>1. known[i].stamp <= stamp[i] /\ known[i].stamp \in Nat
    BY <1>8 DEF SecurityIInv, KnownOK, Tells, SecurityTypeOK
  <2>2. b.stamp = stamp[i] + 1 /\ stamp[i] \in Nat
    BY <1>1, <1>t DEF Changes
  <2> QED
    BY <2>1, <2>2
<1>9. KnownOK'
  BY <1>u, <1>1, <1>2, <1>3, <1>8 DEF SecurityIInv, KnownOK
<1> QED
  BY <1>1, <1>2, <1>3, <1>7, <1>9 DEF SecurityIInv, Changes

\* A request that is refused, or finds nothing, or whose answer is lost.
LEMMA AnswerKeeps ==
  ASSUME SecurityIInv, NEW a \in actions, Gone(a) \/ Refused(a) \/ AnswerLost(a)
  PROVE  SecurityIInv'
<1>a. /\ a \in Action /\ a.item \in Items /\ a.stamp \in Nat
      /\ a.gen = actionGeneration /\ actions = {a} /\ ActionOK(a)
      /\ ~raced => loading.pc = "done"
  BY TheAction
<1>t. /\ SecurityTypeOK /\ AccountOK /\ stamp \in [Items -> Nat]
      /\ UNCHANGED <<account, browser>>
  BY DEF SecurityIInv, SecurityTypeOK, Gone, Refused, AnswerLost
<1>u. /\ loading' = loading /\ passkeys' = passkeys /\ password' = password
      /\ raced' = raced /\ known' = known /\ UNCHANGED account /\ UNCHANGED browser
  BY <1>t DEF browser, shown
<1>s. /\ AccountOK'
      /\ \A j, there, at : Tells(j, there, at)' <=> Tells(j, there, at)
      /\ \A j : IsHeld(j)' <=> IsHeld(j)
      /\ stamp' = stamp /\ nextId' = nextId
  BY <1>t, <1>u, AccountSame
<1>1. PICK b \in Action :
        /\ Becomes(a, b) /\ b.op = a.op /\ b.gen = a.gen /\ b.item = a.item /\ b.pc # "ok"
        /\ b.pc = "gone" => /\ b.stamp = stamp[a.item] /\ ~IsHeld(a.item)
                            /\ a.op \in {"rename", "remove"}
  <2>1. CASE Gone(a)
    <3> DEFINE b == [a EXCEPT !.pc = "gone", !.stamp = stamp[a.item]]
    <3>1. stamp[a.item] \in Nat
      BY <1>a, <1>t
    <3>2. b \in Action /\ b.op = a.op /\ b.gen = a.gen /\ b.item = a.item
          /\ b.pc = "gone" /\ b.stamp = stamp[a.item]
      BY <1>a, <3>1 DEF Action
    <3>3. Becomes(a, b) /\ ~IsHeld(a.item) /\ a.op \in {"rename", "remove"}
      BY <2>1 DEF Gone
    <3> HIDE DEF b
    <3> QED
      BY <3>2, <3>3
  <2>2. CASE Refused(a) \/ AnswerLost(a)
    <3> DEFINE b == [a EXCEPT !.pc = "failed"]
    <3>1. b \in Action /\ b.op = a.op /\ b.gen = a.gen /\ b.item = a.item /\ b.pc = "failed"
      BY <1>a DEF Action
    <3>2. Becomes(a, b)
      BY <2>2 DEF Refused, AnswerLost
    <3> HIDE DEF b
    <3> QED
      BY <3>1, <3>2
  <2> QED
    BY <2>1, <2>2
<1>2. AccountTypeOK'
  BY <1>t DEF account, SecurityTypeOK, AccountTypeOK
<1>3. SecurityTypeOK' /\ OneAction' /\ actions' = {b}
  BY <1>1, <1>2, <1>u, MovesOn
<1>4. LoadingOK' /\ ShowsNewestKnown'
  BY <1>u, <1>s DEF SecurityIInv, LoadingOK, ShowsNewestKnown
<1>5. ActionsOK'
  <2>1. ActionOK(b)'
    BY <1>a, <1>1, <1>s DEF ActionOK
  <2> QED
    BY <1>3, <2>1 DEF ActionsOK
<1>6. KnownOK'
  BY <1>1, <1>3, <1>u, <1>s, <1>a DEF SecurityIInv, KnownOK
<1> QED
  BY <1>3, <1>4, <1>5, <1>6, <1>s DEF SecurityIInv

\* beginAction, for an item whose row the page shows, or for none.
LEMMA BeginKeeps ==
  ASSUME SecurityIInv, NEW op \in {"add", "rename", "remove", "removePassword"},
         NEW i \in Items, Begin(op, i),
         op \in {"rename", "remove"} => i \in Ids /\ i < nextId,
         op = "removePassword" => i = Password
  PROVE  SecurityIInv'
<1> DEFINE b == [op |-> op, gen |-> actionGeneration + 1, item |-> i, pc |-> "sent", stamp |-> 0]
<1>t. /\ SecurityTypeOK /\ AccountOK /\ actionGeneration \in Nat /\ MaxActions \in Nat
      /\ ~busy /\ actionGeneration < MaxActions
  BY BoundsAssumption DEF SecurityIInv, SecurityTypeOK, Begin, BeginAction
<1>u. /\ loading' = loading /\ passkeys' = passkeys /\ password' = password
      /\ others' = others /\ known' = known /\ UNCHANGED account
      /\ busy' = TRUE /\ actionGeneration' = actionGeneration + 1
      /\ raced' = (raced \/ loading.pc # "done")
  BY DEF Begin, shown
<1>s. /\ AccountOK'
      /\ \A j, there, at : Tells(j, there, at)' <=> Tells(j, there, at)
      /\ \A j : IsHeld(j)' <=> IsHeld(j)
      /\ stamp' = stamp /\ nextId' = nextId
  BY <1>t, <1>u, AccountSame
<1>1. /\ b \in Action /\ b.op = op /\ b.gen = actionGeneration' /\ b.item = i /\ b.pc = "sent"
  BY <1>t, <1>u DEF Action
<1>2. actions' = {b}
  <2>1. actions = {}
    BY <1>t DEF SecurityIInv, OneAction
  <2> QED
    BY <2>1 DEF Begin
<1> HIDE DEF b
<1>3. PICK c \in Action : c = b
  BY <1>1
<1>4. SecurityTypeOK'
  <2>1. actionGeneration' \in 0 .. MaxActions
    BY <1>t, <1>u
  <2>2. /\ held' = held /\ hasPassword' = hasPassword /\ epoch' = epoch
        /\ nextId' = nextId /\ stamp' = stamp
    BY <1>u DEF account
  <2> QED
    BY <1>t, <1>u, <1>1, <1>2, <2>1, <2>2 DEF SecurityTypeOK
<1>5. OneAction'
  BY <1>1, <1>2, <1>3, <1>u DEF OneAction
<1>6. LoadingOK'
  BY <1>u, <1>s DEF SecurityIInv, LoadingOK
<1>7. ActionsOK'
  <2>1. ActionOK(c)'
    BY <1>1, <1>3, <1>s DEF ActionOK
  <2> QED
    BY <1>2, <1>3, <2>1 DEF ActionsOK
<1>8. KnownOK'
  BY <1>1, <1>2, <1>3, <1>u, <1>s DEF SecurityIInv, KnownOK
<1>9. ShowsNewestKnown'
  BY <1>u DEF SecurityIInv, ShowsNewestKnown
<1> QED
  BY <1>4, <1>5, <1>6, <1>7, <1>8, <1>9, <1>s DEF SecurityIInv

LEMMA PressKeeps ==
  ASSUME SecurityIInv, Press
  PROVE  SecurityIInv'
<1>1. Password \in Items /\ \A i \in Ids : i \in Items
  BY DEF Items
<1>2. CASE Begin("add", Password)
  BY <1>1, <1>2, BeginKeeps
<1>3. ASSUME NEW n \in DOMAIN passkeys, NEW op \in {"rename", "remove"},
             Begin(op, passkeys[n].id)
      PROVE  SecurityIInv'
  <2>1. passkeys[n] \in Rows(passkeys)
    BY DEF Rows
  <2>2. passkeys[n].id \in Ids /\ passkeys[n].id < nextId
    BY <2>1, RowsType DEF SecurityIInv, SecurityTypeOK, KnownOK, Row
  <2> QED
    BY <1>1, <1>3, <2>2, BeginKeeps
<1>4. CASE Begin("removePassword", Password)
  BY <1>1, <1>4, BeginKeeps
<1> QED
  BY <1>2, <1>3, <1>4 DEF Press

LEMMA LoadServedKeeps ==
  ASSUME SecurityIInv, LoadServed
  PROVE  SecurityIInv'
<1>u. /\ loading.pc = "sent" /\ loading' = ListPasskeys
      /\ passkeys' = passkeys /\ password' = password /\ others' = others /\ known' = known
      /\ busy' = busy /\ actionGeneration' = actionGeneration /\ actions' = actions
      /\ raced' = raced /\ UNCHANGED account
  BY DEF LoadServed, shown, guards
<1>s. /\ AccountOK'
      /\ \A j, there, at : Tells(j, there, at)' <=> Tells(j, there, at)
      /\ \A j : IsHeld(j)' <=> IsHeld(j)
      /\ stamp' = stamp /\ nextId' = nextId
  BY <1>u, AccountSame DEF SecurityIInv
<1>1. /\ ListPasskeys.pc = "answered"
      /\ ListPasskeys.password = [has |-> hasPassword[Owner], stamp |-> stamp[Password]]
      /\ ListPasskeys \in [pc : {"answered"}, passkeys : Seq(Row), password : PasswordState]
      /\ Ascending(ListPasskeys.passkeys)
      /\ Rows(ListPasskeys.passkeys) =
            {[id |-> i, stamp |-> stamp[i]] : i \in {j \in Ids : IsHeld(j)}}
  BY ListIsTheAccount DEF SecurityIInv
<1>2. SecurityTypeOK'
  <2>1. /\ held' = held /\ hasPassword' = hasPassword /\ epoch' = epoch
        /\ nextId' = nextId /\ stamp' = stamp
    BY <1>u DEF account
  <2> QED
    BY <1>u, <1>1, <2>1 DEF SecurityIInv, SecurityTypeOK
<1>3. LoadingOK'
  <2>1. stamp \in [Items -> Nat] /\ Password \in Items /\ nextId \in Nat
        /\ \A i \in Ids : i \in Items /\ i # Password /\ i \in Nat
    BY BoundsAssumption DEF SecurityIInv, SecurityTypeOK, Items, Ids, Password
  <2>2. ASSUME NEW r \in Rows(loading'.passkeys)
        PROVE  r.id < nextId /\ r.stamp > 0 /\ Tells(r.id, TRUE, r.stamp)
    <3>1. PICK i \in Ids : IsHeld(i) /\ r = [id |-> i, stamp |-> stamp[i]]
      BY <1>u, <1>1, <2>2
    <3>2. r.id = i /\ r.stamp = stamp[i] /\ stamp[i] \in Nat
      BY <2>1, <3>1
    <3>3. i < nextId /\ stamp[i] > 0
      BY <2>1, <3>1, <3>2 DEF SecurityIInv, AccountOK
    <3> QED
      BY <2>1, <3>1, <3>2, <3>3 DEF Tells, Have
  <2>3. loading'.password.has = hasPassword[Owner] /\ loading'.password.stamp = stamp[Password]
    BY <1>u, <1>1
  <2>4. Tells(Password, loading'.password.has, loading'.password.stamp)
    BY <2>1, <2>3 DEF Tells, Have
  <2> QED
    BY <1>u, <1>1, <1>s, <2>2, <2>4 DEF LoadingOK
<1>4. OneAction' /\ ActionsOK'
  BY <1>u, <1>s DEF SecurityIInv, OneAction, ActionsOK, ActionOK
<1>5. KnownOK'
  BY <1>u, <1>s DEF SecurityIInv, KnownOK
<1>6. ShowsNewestKnown'
  BY <1>u, <1>1 DEF ShowsNewestKnown
<1> QED
  BY <1>2, <1>3, <1>4, <1>5, <1>6, <1>s DEF SecurityIInv

LEMMA LoadAnswersKeeps ==
  ASSUME SecurityIInv, LoadAnswers
  PROVE  SecurityIInv'
<1> DEFINE list == loading.passkeys
           of(i) == {r \in Rows(list) : r.id = i}
<1>u. /\ loading.pc = "answered" /\ loading' = Loading("done")
      /\ passkeys' = list /\ password' = loading.password
      /\ busy' = busy /\ actionGeneration' = actionGeneration /\ actions' = actions
      /\ others' = others /\ raced' = raced /\ UNCHANGED account
  BY DEF LoadAnswers, guards
<1>k. known' = [i \in Items |->
                   IF i = Password THEN [there |-> loading.password.has,
                                         stamp |-> loading.password.stamp]
                   ELSE IF of(i) = {} THEN known[i]
                   ELSE [there |-> TRUE, stamp |-> (CHOOSE r \in of(i) : TRUE).stamp]]
  BY DEF LoadAnswers
<1>s. /\ AccountOK'
      /\ \A j, there, at : Tells(j, there, at)' <=> Tells(j, there, at)
      /\ \A j : IsHeld(j)' <=> IsHeld(j)
      /\ stamp' = stamp /\ nextId' = nextId
  BY <1>u, AccountSame DEF SecurityIInv
<1>t. /\ list \in Seq(Row) /\ Rows(list) \subseteq Row /\ loading.password \in PasswordState
      /\ known \in [Items -> [there : BOOLEAN, stamp : Nat]] /\ raced \in BOOLEAN
  BY RowsType DEF SecurityIInv, SecurityTypeOK
<1>i. Password \in Items /\ Password \notin Ids /\ \A i \in Ids : i \in Items /\ i # Password
  BY BoundsAssumption DEF Items, Ids, Password
<1>l. /\ Ascending(list)
      /\ \A r \in Rows(list) : r.id < nextId /\ r.stamp > 0 /\ Tells(r.id, TRUE, r.stamp)
      /\ Tells(Password, loading.password.has, loading.password.stamp)
  BY <1>u DEF SecurityIInv, LoadingOK
<1>d. loading'.pc = "done" /\ loading' \in [pc : {"sent", "answered", "done"}, passkeys : Seq(Row),
                    password : PasswordState]
  BY <1>u, NoRows DEF Loading, PasswordState
<1>c. \A i \in Items : of(i) # {} =>
         /\ (CHOOSE r \in of(i) : TRUE) \in of(i)
         /\ of(i) = {CHOOSE r \in of(i) : TRUE}
  <2> SUFFICES ASSUME NEW i \in Items, of(i) # {}
               PROVE  /\ (CHOOSE r \in of(i) : TRUE) \in of(i)
                      /\ of(i) = {CHOOSE r \in of(i) : TRUE}
    OBVIOUS
  <2>1. (CHOOSE r \in of(i) : TRUE) \in of(i)
    OBVIOUS
  <2>2. \A p, q \in of(i) : p = q
    BY <1>t, <1>l, OneRowEach
  <2> HIDE DEF of
  <2> QED
    BY <2>1, <2>2
\* What the page knows afterwards, from each row of the list.
<1>1. \A i \in Ids : of(i) = {} => known'[i] = known[i]
  BY <1>k, <1>i
<1>2. ASSUME NEW r \in Rows(list)
      PROVE  r.id \in Ids /\ known'[r.id] = [there |-> TRUE, stamp |-> r.stamp] /\ r.stamp \in Nat
  <2>1. r.id \in Ids /\ r.id \in Items /\ r.id # Password /\ r.stamp \in Nat
    BY <1>t, <1>i DEF Row
  <2>2. r \in of(r.id)
    OBVIOUS
  <2>3. (CHOOSE q \in of(r.id) : TRUE) = r
    BY <1>c, <2>1, <2>2
  <2> HIDE DEF of
  <2> QED
    BY <1>k, <2>1, <2>2, <2>3
<1>3. known'[Password] = [there |-> loading.password.has, stamp |-> loading.password.stamp]
  BY <1>k, <1>i
<1>p. loading.password.has \in BOOLEAN /\ loading.password.stamp \in Nat
  BY <1>t DEF PasswordState
<1>e. \A i \in Ids : of(i) = {} \/ \E r \in Rows(list) : r.id = i
  OBVIOUS
<1>4. known' \in [Items -> [there : BOOLEAN, stamp : Nat]]
  <2>1. ASSUME NEW i \in Items PROVE known'[i] \in [there : BOOLEAN, stamp : Nat]
    <3>1. CASE i = Password
      BY <1>3, <1>p, <3>1
    <3>2. CASE i \in Ids
      <4>1. known[i] \in [there : BOOLEAN, stamp : Nat]
        BY <1>t
      <4>2. CASE of(i) = {}
        <5> HIDE DEF of
        <5> QED
          BY <1>1, <3>2, <4>1, <4>2
      <4>3. ASSUME NEW r \in Rows(list), r.id = i
            PROVE  known'[i] \in [there : BOOLEAN, stamp : Nat]
        <5>1. known'[i] = [there |-> TRUE, stamp |-> r.stamp] /\ r.stamp \in Nat
          BY <1>2, <4>3
        <5> QED
          BY <5>1
      <4> QED
        BY <1>e, <3>2, <4>2, <4>3
    <3> QED
      BY <3>1, <3>2 DEF Items
  <2>2. DOMAIN known' = Items /\ known' = [i \in Items |-> known'[i]]
    BY <1>k
  <2> QED
    BY <2>1, <2>2
<1> HIDE DEF of, list
<1>5. SecurityTypeOK'
  <2>1. /\ held' = held /\ hasPassword' = hasPassword /\ epoch' = epoch
        /\ nextId' = nextId /\ stamp' = stamp
    BY <1>u DEF account
  <2> QED
    BY <1>u, <1>t, <1>d, <1>4, <2>1 DEF SecurityIInv, SecurityTypeOK
<1>6. LoadingOK'
  BY <1>d DEF LoadingOK
<1>7. OneAction' /\ ActionsOK'
  BY <1>u, <1>s DEF SecurityIInv, OneAction, ActionsOK, ActionOK
<1>8. ASSUME ~raced
      PROVE  actions = {} /\ \A i \in Items : known[i] = [there |-> FALSE, stamp |-> 0]
  BY <1>8, <1>u DEF SecurityIInv, KnownOK
<1>9. ASSUME ~raced, NEW i \in Ids
      PROVE  /\ known'[i].there <=> \E r \in Rows(list) : r.id = i
             /\ Tells(i, known'[i].there, known'[i].stamp)
             /\ known'[i].there => known'[i].stamp > 0
  <2>1. CASE of(i) = {}
    <3>1. known'[i] = [there |-> FALSE, stamp |-> 0] /\ ~ \E r \in Rows(list) : r.id = i
      BY <1>1, <1>8, <1>9, <1>i, <2>1 DEF of
    <3>2. stamp[i] \in Nat /\ (stamp[i] = 0 => ~Have(i))
      BY <1>i DEF SecurityIInv, SecurityTypeOK, AccountOK, Have
    <3> QED
      BY <3>1, <3>2 DEF Tells
  <2>2. ASSUME NEW r \in Rows(list), r.id = i
        PROVE  /\ known'[i].there /\ known'[i].stamp = r.stamp
               /\ Tells(i, TRUE, r.stamp) /\ r.stamp > 0
    <3>1. known'[i] = [there |-> TRUE, stamp |-> r.stamp]
      BY <1>2, <2>2
    <3>2. Tells(r.id, TRUE, r.stamp) /\ r.stamp > 0
      BY <1>l, <2>2 DEF list
    <3>3. Tells(i, TRUE, r.stamp) /\ r.stamp > 0
      BY <2>2, <3>2 DEF Tells
    <3>4. known'[i].there = TRUE /\ known'[i].stamp = r.stamp
      BY <3>1
    <3> QED
      BY <3>3, <3>4
  <2> QED
    BY <1>e, <2>1, <2>2 DEF Tells
<1>10. KnownOK'
  <2>1. \A r \in Rows(passkeys') : r.id < nextId'
    BY <1>u, <1>l, <1>s DEF list
  <2>2. ~raced => \A i \in Items : Tells(i, known'[i].there, known'[i].stamp)
    BY <1>3, <1>9, <1>l DEF Items
  <2> QED
    BY <1>u, <1>s, <1>d, <1>8, <1>9, <2>1, <2>2 DEF KnownOK
<1>11. ShowsNewestKnown'
  <2> SUFFICES ASSUME ~raced
               PROVE  /\ Ascending(list)
                      /\ Rows(list) = {[id |-> i, stamp |-> known'[i].stamp] :
                                       i \in {j \in Ids : known'[j].there}}
                      /\ loading.password = [has |-> known'[Password].there,
                                             stamp |-> known'[Password].stamp]
    BY <1>u DEF ShowsNewestKnown
  <2>1. \A r \in Rows(list) : /\ r.id \in Ids /\ known'[r.id].there
                              /\ r = [id |-> r.id, stamp |-> known'[r.id].stamp]
    <3> SUFFICES ASSUME NEW r \in Rows(list)
                 PROVE  /\ r.id \in Ids /\ known'[r.id].there
                        /\ r = [id |-> r.id, stamp |-> known'[r.id].stamp]
      OBVIOUS
    <3>1. r = [id |-> r.id, stamp |-> r.stamp]
      BY <1>t DEF Row
    <3>2. r.id \in Ids /\ known'[r.id] = [there |-> TRUE, stamp |-> r.stamp]
      BY <1>2
    <3>3. known'[r.id].there /\ known'[r.id].stamp = r.stamp
      BY <3>2
    <3> QED
      BY <3>1, <3>2, <3>3
  <2>2. \A i \in Ids : known'[i].there => \E r \in Rows(list) : r.id = i
    BY <1>9
  <2>3. Rows(list) = {[id |-> i, stamp |-> known'[i].stamp] : i \in {j \in Ids : known'[j].there}}
    BY <2>1, <2>2
  <2>4. loading.password = [has |-> known'[Password].there, stamp |-> known'[Password].stamp]
    BY <1>3, <1>t DEF PasswordState
  <2> QED
    BY <1>l, <2>3, <2>4 DEF list
<1> QED
  BY <1>s, <1>5, <1>6, <1>7, <1>10, <1>11 DEF SecurityIInv

LEMMA LoadFailsKeeps ==
  ASSUME SecurityIInv, LoadFails
  PROVE  SecurityIInv'
<1>u. /\ loading.pc # "done" /\ loading' = Loading("done")
      /\ passkeys' = passkeys /\ password' = password /\ others' = others /\ known' = known
      /\ busy' = busy /\ actionGeneration' = actionGeneration /\ actions' = actions
      /\ raced' = raced /\ UNCHANGED account
  BY DEF LoadFails, shown, guards
<1>s. /\ AccountOK'
      /\ \A j, there, at : Tells(j, there, at)' <=> Tells(j, there, at)
      /\ \A j : IsHeld(j)' <=> IsHeld(j)
      /\ stamp' = stamp /\ nextId' = nextId
  BY <1>u, AccountSame DEF SecurityIInv
<1>d. loading'.pc = "done" /\ loading' \in [pc : {"sent", "answered", "done"}, passkeys : Seq(Row),
                    password : PasswordState]
  BY <1>u, NoRows DEF Loading, PasswordState
<1>1. SecurityTypeOK'
  <2>1. /\ held' = held /\ hasPassword' = hasPassword /\ epoch' = epoch
        /\ nextId' = nextId /\ stamp' = stamp
    BY <1>u DEF account
  <2> QED
    BY <1>u, <1>d, <2>1 DEF SecurityIInv, SecurityTypeOK
<1>2. LoadingOK'
  BY <1>d DEF LoadingOK
<1>3. OneAction' /\ ActionsOK'
  BY <1>u, <1>s DEF SecurityIInv, OneAction, ActionsOK, ActionOK
<1>4. KnownOK'
  BY <1>u, <1>s, <1>d DEF SecurityIInv, KnownOK
<1>5. ShowsNewestKnown'
  <2> SUFFICES ASSUME ~raced
               PROVE  /\ Ascending(passkeys)
                      /\ Rows(passkeys) = {[id |-> i, stamp |-> known[i].stamp] :
                                           i \in {j \in Ids : known[j].there}}
                      /\ password = [has |-> known[Password].there,
                                     stamp |-> known[Password].stamp]
    BY <1>u DEF ShowsNewestKnown
  <2>1. /\ passkeys = <<>> /\ password = [has |-> FALSE, stamp |-> 0]
        /\ \A i \in Items : known[i] = [there |-> FALSE, stamp |-> 0]
    BY <1>u DEF SecurityIInv, KnownOK
  <2>2. Password \in Items /\ \A i \in Ids : i \in Items
    BY DEF Items
  <2>3. {j \in Ids : known[j].there} = {}
    BY <2>1, <2>2
  <2>4. {[id |-> i, stamp |-> known[i].stamp] : i \in {j \in Ids : known[j].there}} = {}
    BY <2>3
  <2>5. known[Password].there = FALSE /\ known[Password].stamp = 0
    BY <2>1, <2>2
  <2>6. Ascending(passkeys) /\ Rows(passkeys) = {}
    BY <2>1, NoRows
  <2> QED
    BY <2>1, <2>4, <2>5, <2>6
<1> QED
  BY <1>s, <1>1, <1>2, <1>3, <1>4, <1>5 DEF SecurityIInv

\* The answer says what happened to its item: so the page knows the newest of each item.
LEMMA Learns ==
  ASSUME SecurityIInv, NEW i \in Items, NEW there \in BOOLEAN, NEW at \in Nat,
         Learn(i, there, at), Tells(i, there, at), there => at > 0
  PROVE  /\ known' \in [Items -> [there : BOOLEAN, stamp : Nat]]
         /\ \A j \in Items : j # i => known'[j] = known[j]
         /\ known[i].stamp < at => known'[i] = [there |-> there, stamp |-> at]
         /\ ~raced => \A j \in Items : Tells(j, known'[j].there, known'[j].stamp)
         /\ ~raced => \A j \in Ids : known'[j].there => known'[j].stamp > 0
<1>t. known \in [Items -> [there : BOOLEAN, stamp : Nat]] /\ \A j \in Ids : j \in Items
  BY DEF SecurityIInv, SecurityTypeOK, Items
<1>1. ~raced => /\ \A j \in Items : Tells(j, known[j].there, known[j].stamp)
                /\ \A j \in Ids : known[j].there => known[j].stamp > 0
  BY DEF SecurityIInv, KnownOK
<1>2. CASE at > known[i].stamp
  <2> DEFINE news == [there |-> there, stamp |-> at]
  <2>1. known' = [known EXCEPT ![i] = news]
    BY <1>2 DEF Learn
  <2>2. news \in [there : BOOLEAN, stamp : Nat] /\ news.there = there /\ news.stamp = at
    OBVIOUS
  <2> HIDE DEF news
  <2>3. /\ known' \in [Items -> [there : BOOLEAN, stamp : Nat]]
        /\ known'[i] = news /\ \A j \in Items : j # i => known'[j] = known[j]
    BY <1>t, <2>1, <2>2
  <2>4. ASSUME ~raced, NEW j \in Items
        PROVE  /\ Tells(j, known'[j].there, known'[j].stamp)
               /\ j \in Ids /\ known'[j].there => known'[j].stamp > 0
    <3>1. CASE j = i
      BY <2>2, <2>3, <3>1
    <3>2. CASE j # i
      BY <1>1, <2>3, <2>4, <3>2
    <3> QED
      BY <3>1, <3>2
  <2> QED
    BY <1>t, <2>3, <2>4 DEF news
<1>3. CASE ~ at > known[i].stamp
  <2>1. known' = known
    BY <1>3 DEF Learn
  <2>2. ~ known[i].stamp < at
    BY <1>3, <1>t
  <2> QED
    BY <1>1, <1>t, <2>1, <2>2
<1> QED
  BY <1>2, <1>3

\* Before the answer, the page shows a row of each passkey it knows of.
LEMMA RowsShown ==
  ASSUME SecurityIInv, loading.pc = "done", ~raced
  PROVE  /\ Ascending(passkeys)
         /\ \A r \in Rows(passkeys) : r.id \in Ids /\ known[r.id].there
         /\ Rows(passkeys) = {[id |-> i, stamp |-> known[i].stamp] :
                              i \in {j \in Ids : known[j].there}}
         /\ password = [has |-> known[Password].there, stamp |-> known[Password].stamp]
  BY DEF SecurityIInv, ShowsNewestKnown

LEMMA SucceedsKeeps ==
  ASSUME SecurityIInv, NEW a \in actions, Succeeds(a)
  PROVE  SecurityIInv' /\ \A i \in Ids : Shows(i) /\ ~Shows(i)' => ~IsHeld(i)
<1> DEFINE r == [id |-> a.item, stamp |-> a.stamp]
           there == a.op # "remove" /\ a.op # "removePassword"
<1>a. /\ a \in Action /\ a.item \in Items /\ a.stamp \in Nat
      /\ a.gen = actionGeneration /\ actions = {a} /\ ActionOK(a)
      /\ ~raced => loading.pc = "done"
  BY TheAction
<1>o. a.op \in {"add", "rename", "remove", "removePassword"}
  BY <1>a DEF Action
<1>u. /\ a.pc = "ok" /\ actions' = {} /\ busy' = FALSE
      /\ loading' = loading /\ others' = others /\ actionGeneration' = actionGeneration
      /\ raced' = raced /\ UNCHANGED account
  BY <1>a DEF Succeeds, EndAction
<1>v. /\ Learn(a.item, there, a.stamp)
      /\ passkeys' = CASE a.op = "add" -> InsertPasskey(passkeys, r)
                       [] a.op = "rename" -> ReplacePasskey(passkeys, r)
                       [] a.op = "remove" -> RemoveLocally(passkeys, a.item)
                       [] OTHER -> passkeys
      /\ password' = IF a.op = "removePassword"
                     THEN [has |-> FALSE, stamp |-> a.stamp] ELSE password
  BY <1>a DEF Succeeds
<1>s. /\ AccountOK'
      /\ \A j, at, is : Tells(j, is, at)' <=> Tells(j, is, at)
      /\ \A j : IsHeld(j)' <=> IsHeld(j)
      /\ stamp' = stamp /\ nextId' = nextId
  BY <1>u, AccountSame DEF SecurityIInv
<1>t. /\ passkeys \in Seq(Row) /\ password \in PasswordState
      /\ Rows(passkeys) \subseteq Row
      /\ \A q \in Rows(passkeys) : q.id < nextId
      /\ known \in [Items -> [there : BOOLEAN, stamp : Nat]]
  BY RowsType DEF SecurityIInv, SecurityTypeOK, KnownOK
<1>i. Password \in Items /\ Password \notin Ids /\ \A i \in Ids : i \in Items /\ i # Password
  BY BoundsAssumption DEF Items, Ids, Password
<1>w. /\ there \in BOOLEAN /\ (there <=> a.op \in {"add", "rename"}) /\ a.stamp > 0
      /\ Tells(a.item, there, a.stamp)
      /\ a.op = "add" => a.stamp = 1
      /\ a.op = "remove" => ~IsHeld(a.item)
      /\ a.op # "removePassword" => a.item \in Ids /\ a.item < nextId /\ r \in Row
      /\ a.op = "removePassword" => a.item = Password
  <2>1. there \in BOOLEAN /\ (there <=> a.op \in {"add", "rename"})
    BY <1>o
  <2>2. /\ a.stamp > 0
        /\ a.op = "add" => a.stamp = 1
        /\ a.op = "remove" => ~IsHeld(a.item)
        /\ a.op # "removePassword" => a.item \in Ids /\ a.item < nextId
        /\ a.op = "removePassword" => a.item = Password
        /\ Tells(a.item, a.op \in {"add", "rename"}, a.stamp)
    BY <1>a, <1>o, <1>u DEF ActionOK
  <2>3. Tells(a.item, there, a.stamp)
    BY <2>1, <2>2 DEF Tells
  <2>4. a.item \in Ids => r \in Row
    BY <1>a DEF Row
  <2> HIDE DEF r, there
  <2> QED
    BY <2>1, <2>2, <2>3, <2>4
<1>r. r.id = a.item /\ r.stamp = a.stamp
  OBVIOUS
<1> HIDE DEF r, there
<1>1. /\ known' \in [Items -> [there : BOOLEAN, stamp : Nat]]
      /\ \A j \in Items : j # a.item => known'[j] = known[j]
      /\ known[a.item].stamp < a.stamp => known'[a.item] = [there |-> there, stamp |-> a.stamp]
      /\ ~raced => \A j \in Items : Tells(j, known'[j].there, known'[j].stamp)
      /\ ~raced => \A j \in Ids : known'[j].there => known'[j].stamp > 0
  BY <1>a, <1>v, <1>w, Learns
\* The list, whatever it was: its type, its ids, and which rows have gone.
<1>2. /\ passkeys' \in Seq(Row)
      /\ \A q \in Rows(passkeys') : q.id < nextId
      /\ \A i \in Ids : Shows(i) /\ ~Shows(i)' => ~IsHeld(i)
  <2>1. CASE a.op = "add"
    <3>1. passkeys' \in Seq(Row) /\ Rows(passkeys') = Rows(passkeys) \union {r}
      BY <1>t, <1>v, <1>w, <2>1, InsertKeeps
    <3> QED
      BY <1>r, <1>t, <1>w, <2>1, <3>1 DEF Shows
  <2>2. CASE a.op = "rename"
    <3>1. /\ passkeys' \in Seq(Row)
          /\ \A q \in Rows(passkeys') : q \in Rows(passkeys) \union {r}
          /\ \A q \in Rows(passkeys) : \E p \in Rows(passkeys') : p.id = q.id
      BY <1>t, <1>v, <1>w, <2>2, ReplaceKeeps
    <3> QED
      BY <1>r, <1>t, <1>w, <2>2, <3>1 DEF Shows
  <2>3. CASE a.op = "remove"
    <3>1. passkeys' \in Seq(Row) /\ Rows(passkeys') = {q \in Rows(passkeys) : q.id # a.item}
      BY <1>t, <1>v, <2>3, RemoveKeeps
    <3> QED
      BY <1>t, <1>w, <2>3, <3>1 DEF Shows
  <2>4. CASE a.op = "removePassword"
    BY <1>t, <1>v, <2>4 DEF Shows
  <2> QED
    BY <1>o, <2>1, <2>2, <2>3, <2>4
<1>3. SecurityTypeOK'
  <2>1. /\ held' = held /\ hasPassword' = hasPassword /\ epoch' = epoch
        /\ nextId' = nextId /\ stamp' = stamp
    BY <1>u DEF account
  <2>2. password' \in PasswordState
    BY <1>a, <1>t, <1>v DEF PasswordState
  <2> QED
    BY <1>u, <1>1, <1>2, <2>1, <2>2 DEF SecurityIInv, SecurityTypeOK
<1>4. LoadingOK' /\ OneAction' /\ ActionsOK'
  BY <1>u, <1>s DEF SecurityIInv, LoadingOK, OneAction, ActionsOK
<1>5. KnownOK'
  <2>1. ~raced => loading'.pc = "done"
    BY <1>a, <1>u
  <2> QED
    BY <1>u, <1>s, <1>1, <1>2, <2>1 DEF KnownOK
<1>6. ShowsNewestKnown'
  <2> SUFFICES ASSUME loading.pc = "done", ~raced
               PROVE  /\ Ascending(passkeys')
                      /\ Rows(passkeys') = {[id |-> i, stamp |-> known'[i].stamp] :
                                            i \in {j \in Ids : known'[j].there}}
                      /\ password' = [has |-> known'[Password].there,
                                      stamp |-> known'[Password].stamp]
    BY <1>u DEF ShowsNewestKnown
  <2>1. /\ Ascending(passkeys)
        /\ \A q \in Rows(passkeys) : q.id \in Ids /\ known[q.id].there
        /\ Rows(passkeys) = {[id |-> i, stamp |-> known[i].stamp] :
                             i \in {j \in Ids : known[j].there}}
        /\ password = [has |-> known[Password].there, stamp |-> known[Password].stamp]
    BY RowsShown
  <2>2. known[a.item].stamp < a.stamp
    BY <1>a, <1>u DEF SecurityIInv, KnownOK
  <2>3. /\ known'[a.item].there = there /\ known'[a.item].stamp = a.stamp
        /\ \A j \in Items : j # a.item => known'[j] = known[j]
    BY <1>1, <2>2
  \* One row for each passkey but this one, as before, and its new row if it is there.
  <2>4. ASSUME a.item \in Ids,
               Rows(passkeys') = {q \in Rows(passkeys) : q.id # a.item}
                                    \union (IF there THEN {r} ELSE {})
        PROVE  Rows(passkeys') = {[id |-> i, stamp |-> known'[i].stamp] :
                                  i \in {j \in Ids : known'[j].there}}
    <3>1. ASSUME NEW q \in Rows(passkeys')
          PROVE  \E i \in Ids : known'[i].there /\ q = [id |-> i, stamp |-> known'[i].stamp]
      <4>1. CASE q \in Rows(passkeys) /\ q.id # a.item
        <5>1. PICK i \in Ids : known[i].there /\ q = [id |-> i, stamp |-> known[i].stamp]
          BY <2>1, <4>1
        <5>2. i # a.item /\ i \in Items
          BY <1>i, <4>1, <5>1
        <5> QED
          BY <2>3, <5>1, <5>2
      <4>2. CASE there /\ q = r
        BY <2>3, <2>4, <4>2 DEF r
      <4> QED
        BY <2>4, <3>1, <4>1, <4>2
    <3>2. ASSUME NEW i \in Ids, known'[i].there
          PROVE  [id |-> i, stamp |-> known'[i].stamp] \in Rows(passkeys')
      <4>1. CASE i = a.item
        BY <2>3, <2>4, <3>2, <4>1 DEF r
      <4>2. CASE i # a.item
        <5>1. known'[i] = known[i]
          BY <1>i, <2>3, <4>2
        <5>2. [id |-> i, stamp |-> known[i].stamp] \in Rows(passkeys)
          BY <2>1, <3>2, <5>1
        <5> QED
          BY <2>4, <4>2, <5>1, <5>2
      <4> QED
        BY <4>1, <4>2
    <3> QED
      BY <3>1, <3>2
  <2>5. a.item \in Ids => password = [has |-> known'[Password].there,
                                      stamp |-> known'[Password].stamp]
    BY <1>i, <2>1, <2>3
  <2>6. CASE a.op = "add"
    <3>1. ~known[a.item].there
      <4>1. known[a.item].there => known[a.item].stamp > 0
        BY <1>w, <2>6 DEF SecurityIInv, KnownOK
      <4>2. known[a.item].stamp \in Nat /\ a.stamp = 1
        BY <1>a, <1>t, <1>w, <2>6
      <4> QED
        BY <2>2, <4>1, <4>2
    <3>2. \A q \in Rows(passkeys) : q.id # a.item
      BY <2>1, <3>1
    <3>3. Rows(passkeys') = Rows(passkeys) \union {r} /\ Ascending(passkeys')
      BY <1>r, <1>t, <1>v, <1>w, <2>1, <2>6, <3>2, InsertKeeps
    <3>4. Rows(passkeys) = {q \in Rows(passkeys) : q.id # a.item}
      BY <3>2
    <3> QED
      BY <1>v, <1>w, <2>4, <2>5, <2>6, <3>3, <3>4
  <2>7. CASE a.op = "rename"
    <3>1. /\ Rows(passkeys') = {q \in Rows(passkeys) : q.id # r.id} \union {r}
          /\ Ascending(passkeys')
      BY <1>t, <1>v, <1>w, <2>1, <2>7, ReplaceKeeps
    <3> QED
      BY <1>r, <1>v, <1>w, <2>4, <2>5, <2>7, <3>1
  <2>8. CASE a.op = "remove"
    <3>1. Rows(passkeys') = {q \in Rows(passkeys) : q.id # a.item} /\ Ascending(passkeys')
      BY <1>t, <1>v, <2>1, <2>8, RemoveKeeps
    <3> QED
      BY <1>v, <1>w, <2>4, <2>5, <2>8, <3>1
  <2>9. CASE a.op = "removePassword"
    <3>1. a.item = Password /\ ~there /\ passkeys' = passkeys
          /\ password' = [has |-> FALSE, stamp |-> a.stamp]
      BY <1>v, <1>w, <2>9
    <3>2. \A j \in Ids : known'[j] = known[j]
      BY <1>i, <2>3, <3>1
    <3>3. {[id |-> i, stamp |-> known'[i].stamp] : i \in {j \in Ids : known'[j].there}}
            = {[id |-> i, stamp |-> known[i].stamp] : i \in {j \in Ids : known[j].there}}
      BY <3>2
    <3>4. known'[Password].there = FALSE /\ known'[Password].stamp = a.stamp
      BY <1>w, <2>3, <3>1
    <3> QED
      BY <2>1, <3>1, <3>3, <3>4
  <2> QED
    BY <1>o, <2>6, <2>7, <2>8, <2>9
<1> QED
  BY <1>s, <1>2, <1>3, <1>4, <1>5, <1>6 DEF SecurityIInv

LEMMA FailsKeeps ==
  ASSUME SecurityIInv, NEW a \in actions, Fails(a)
  PROVE  SecurityIInv' /\ \A i \in Ids : Shows(i) /\ ~Shows(i)' => ~IsHeld(i)
<1>a. /\ a \in Action /\ a.item \in Items /\ a.stamp \in Nat
      /\ a.gen = actionGeneration /\ actions = {a} /\ ActionOK(a)
      /\ ~raced => loading.pc = "done"
  BY TheAction
<1>u. /\ a.pc \in {"gone", "failed"} /\ actions' = {} /\ busy' = FALSE
      /\ loading' = loading /\ others' = others /\ actionGeneration' = actionGeneration
      /\ raced' = raced /\ password' = password /\ UNCHANGED account
  BY <1>a DEF Fails, EndAction
<1>s. /\ AccountOK'
      /\ \A j, at, is : Tells(j, is, at)' <=> Tells(j, is, at)
      /\ \A j : IsHeld(j)' <=> IsHeld(j)
      /\ stamp' = stamp /\ nextId' = nextId
  BY <1>u, AccountSame DEF SecurityIInv
<1>t. /\ passkeys \in Seq(Row) /\ Rows(passkeys) \subseteq Row
      /\ \A q \in Rows(passkeys) : q.id < nextId
      /\ known \in [Items -> [there : BOOLEAN, stamp : Nat]]
  BY RowsType DEF SecurityIInv, SecurityTypeOK, KnownOK
<1>1. LoadingOK' /\ OneAction' /\ ActionsOK'
  BY <1>u, <1>s DEF SecurityIInv, LoadingOK, OneAction, ActionsOK
<1>2. /\ held' = held /\ hasPassword' = hasPassword /\ epoch' = epoch
      /\ nextId' = nextId /\ stamp' = stamp
  BY <1>u DEF account
<1>3. CASE a.pc = "failed"
  <2>1. passkeys' = passkeys /\ known' = known
    BY <1>3 DEF Fails
  <2>2. SecurityTypeOK'
    BY <1>u, <1>2, <2>1 DEF SecurityIInv, SecurityTypeOK
  <2>3. KnownOK'
    BY <1>a, <1>u, <1>s, <2>1 DEF SecurityIInv, KnownOK
  <2>4. ShowsNewestKnown'
    BY <1>u, <2>1 DEF SecurityIInv, ShowsNewestKnown
  <2> QED
    BY <1>s, <1>1, <2>1, <2>2, <2>3, <2>4 DEF SecurityIInv, Shows
<1>4. CASE a.pc = "gone"
  <2>1. Learn(a.item, FALSE, a.stamp) /\ passkeys' = RemoveLocally(passkeys, a.item)
    BY <1>4, <1>a DEF Fails
  <2>2. a.item \in Ids /\ a.stamp = stamp[a.item] /\ ~IsHeld(a.item)
    BY <1>4, <1>a DEF ActionOK
  <2>i. Password \in Items /\ a.item # Password /\ \A i \in Ids : i \in Items
    BY <2>2, BoundsAssumption DEF Items, Ids, Password
  <2>3. Tells(a.item, FALSE, a.stamp)
    BY <1>a, <2>2, <2>i DEF Tells, Have
  <2>4. /\ known' \in [Items -> [there : BOOLEAN, stamp : Nat]]
        /\ \A j \in Items : j # a.item => known'[j] = known[j]
        /\ known[a.item].stamp < a.stamp => known'[a.item] = [there |-> FALSE, stamp |-> a.stamp]
        /\ ~raced => \A j \in Items : Tells(j, known'[j].there, known'[j].stamp)
        /\ ~raced => \A j \in Ids : known'[j].there => known'[j].stamp > 0
    BY <1>a, <2>1, <2>3, Learns
  <2>5. /\ passkeys' \in Seq(Row)
        /\ Rows(passkeys') = {q \in Rows(passkeys) : q.id # a.item}
        /\ Ascending(passkeys) => Ascending(passkeys')
    BY <1>t, <2>1, RemoveKeeps
  <2>6. SecurityTypeOK'
    BY <1>u, <1>2, <2>4, <2>5 DEF SecurityIInv, SecurityTypeOK
  <2>7. KnownOK'
    <3>1. ~raced => loading'.pc = "done"
      BY <1>a, <1>u
    <3>2. \A q \in Rows(passkeys') : q.id < nextId'
      BY <1>t, <1>2, <2>5
    <3> QED
      BY <1>u, <1>s, <2>4, <3>1, <3>2 DEF KnownOK
  <2>8. ShowsNewestKnown'
    <3> SUFFICES ASSUME loading.pc = "done", ~raced
                 PROVE  /\ Ascending(passkeys')
                        /\ Rows(passkeys') = {[id |-> i, stamp |-> known'[i].stamp] :
                                              i \in {j \in Ids : known'[j].there}}
                        /\ password' = [has |-> known'[Password].there,
                                        stamp |-> known'[Password].stamp]
      BY <1>u DEF ShowsNewestKnown
    <3>1. /\ Ascending(passkeys)
          /\ Rows(passkeys) = {[id |-> i, stamp |-> known[i].stamp] :
                               i \in {j \in Ids : known[j].there}}
          /\ password = [has |-> known[Password].there, stamp |-> known[Password].stamp]
      BY RowsShown
    <3>2. ~known'[a.item].there
      <4>1. Tells(a.item, known'[a.item].there, known'[a.item].stamp)
        BY <1>a, <2>4
      <4>2. known[a.item].stamp < a.stamp => known'[a.item].there = FALSE
        BY <2>4
      <4>3. CASE ~ known[a.item].stamp < a.stamp
        <5>1. known' = known
          BY <1>a, <1>t, <2>1, <4>3 DEF Learn
        <5>2. known[a.item].stamp <= a.stamp /\ known[a.item].stamp \in Nat
          BY <1>a, <1>t, <2>2, <4>1, <5>1 DEF Tells
        <5>3. known[a.item].stamp = stamp[a.item]
          BY <1>a, <2>2, <4>3, <5>2
        <5> QED
          BY <2>2, <2>i, <4>1, <5>1, <5>3 DEF Tells, Have
      <4> QED
        BY <4>2, <4>3
    <3>3. ASSUME NEW q \in Rows(passkeys')
          PROVE  \E i \in Ids : known'[i].there /\ q = [id |-> i, stamp |-> known'[i].stamp]
      <4>1. PICK i \in Ids : known[i].there /\ q = [id |-> i, stamp |-> known[i].stamp]
        BY <2>5, <3>1, <3>3
      <4>2. i # a.item /\ i \in Items
        BY <2>5, <2>i, <3>3, <4>1
      <4> QED
        BY <2>4, <4>1, <4>2
    <3>4. ASSUME NEW i \in Ids, known'[i].there
          PROVE  [id |-> i, stamp |-> known'[i].stamp] \in Rows(passkeys')
      <4>1. i # a.item /\ known'[i] = known[i]
        BY <2>4, <2>i, <3>2, <3>4
      <4>2. [id |-> i, stamp |-> known[i].stamp] \in Rows(passkeys)
        BY <3>1, <3>4, <4>1
      <4> QED
        BY <2>5, <4>1, <4>2
    <3>5. known'[Password] = known[Password]
      BY <2>4, <2>i
    <3>6. Rows(passkeys') = {[id |-> i, stamp |-> known'[i].stamp] :
                              i \in {j \in Ids : known'[j].there}}
      BY <3>3, <3>4
    <3> QED
      BY <1>u, <2>5, <3>1, <3>5, <3>6
  <2>9. \A i \in Ids : Shows(i) /\ ~Shows(i)' => ~IsHeld(i)
    BY <2>2, <2>5 DEF Shows
  <2> QED
    BY <1>s, <1>1, <2>6, <2>7, <2>8, <2>9 DEF SecurityIInv
<1> QED
  BY <1>u, <1>3, <1>4

LEMMA SecurityStarts == SecurityInit => SecurityIInv
<1> SUFFICES ASSUME SecurityInit PROVE SecurityIInv
  OBVIOUS
<1>1. /\ held = {} /\ hasPassword = [u \in {Owner} |-> TRUE] /\ epoch = [u \in {Owner} |-> 0]
      /\ nextId = 1 /\ stamp = [i \in Items |-> IF i = Password THEN 1 ELSE 0] /\ others = 0
      /\ loading = Loading("sent") /\ passkeys = <<>> /\ password = [has |-> FALSE, stamp |-> 0]
      /\ busy = FALSE /\ actionGeneration = 0 /\ actions = {} /\ raced = FALSE
      /\ known = [i \in Items |-> [there |-> FALSE, stamp |-> 0]]
  BY DEF SecurityInit, Methods!Init
<1>2. MaxIds \in Nat /\ MaxActions \in Nat /\ MaxOthers \in Nat
  BY BoundsAssumption
<1>3. Password \in Items /\ \A i \in Ids : i \in Items /\ i # Password /\ i \in Nat
  BY <1>2 DEF Items, Ids, Password
<1>4. /\ loading.pc = "sent"
      /\ loading \in [pc : {"sent", "answered", "done"}, passkeys : Seq(Row),
                      password : PasswordState]
  BY <1>1, NoRows DEF Loading, PasswordState
<1>5. SecurityTypeOK
  <2>1. /\ held \subseteq {Owner} \X Ids /\ hasPassword \in [{Owner} -> BOOLEAN]
        /\ epoch \in [{Owner} -> Nat] /\ nextId \in 1 .. MaxIds + 1 /\ stamp \in [Items -> Nat]
    BY <1>1, <1>2
  <2>2. others \in 0 .. MaxOthers /\ actionGeneration \in 0 .. MaxActions
    BY <1>1, <1>2
  <2>5. busy \in BOOLEAN /\ actions \subseteq Action /\ raced \in BOOLEAN
    BY <1>1
  <2>3. passkeys \in Seq(Row)
    BY <1>1, NoRows
  <2>4. password \in PasswordState /\ known \in [Items -> [there : BOOLEAN, stamp : Nat]]
    BY <1>1 DEF PasswordState
  <2> QED
    BY <1>4, <2>1, <2>2, <2>3, <2>4, <2>5 DEF SecurityTypeOK
<1>6. AccountOK
  BY <1>1, <1>3 DEF AccountOK, IsHeld
<1>7. LoadingOK /\ OneAction /\ ActionsOK /\ ShowsNewestKnown
  BY <1>1, <1>4 DEF LoadingOK, OneAction, ActionsOK, ShowsNewestKnown
<1>8. KnownOK
  <2>1. \A i \in Items : stamp[i] \in Nat /\ (stamp[i] = 0 => ~Have(i))
    BY <1>1, <1>3 DEF Have, IsHeld
  <2>2. \A i \in Items : Tells(i, known[i].there, known[i].stamp)
    BY <1>1, <2>1 DEF Tells
  <2> QED
    BY <1>1, <1>3, <2>2, NoRows DEF KnownOK
<1> QED
  BY <1>5, <1>6, <1>7, <1>8 DEF SecurityIInv

LEMMA SecuritySteps == SecurityIInv /\ [SecurityNext]_securityVars => SecurityIInv'
<1> SUFFICES ASSUME SecurityIInv, [SecurityNext]_securityVars PROVE SecurityIInv'
  OBVIOUS
<1>1. CASE Elsewhere
  BY <1>1, ElsewhereKeeps
<1>2. CASE LoadServed
  BY <1>2, LoadServedKeeps
<1>3. CASE LoadAnswers
  BY <1>3, LoadAnswersKeeps
<1>4. CASE LoadFails
  BY <1>4, LoadFailsKeeps
<1>5. CASE Press
  BY <1>5, PressKeeps
<1>6. ASSUME NEW a \in actions, Served(a) PROVE SecurityIInv'
  BY <1>6, ServedKeeps
<1>7. ASSUME NEW a \in actions, Gone(a) \/ Refused(a) \/ AnswerLost(a) PROVE SecurityIInv'
  BY <1>7, AnswerKeeps
<1>8. ASSUME NEW a \in actions, Succeeds(a) PROVE SecurityIInv'
  BY <1>8, SucceedsKeeps
<1>9. ASSUME NEW a \in actions, Fails(a) PROVE SecurityIInv'
  BY <1>9, FailsKeeps
<1>10. CASE UNCHANGED securityVars
  <2> USE <1>10 DEF securityVars, account, shown, guards
  <2>1. SecurityTypeOK'
    BY DEF SecurityIInv, SecurityTypeOK
  <2>2. AccountOK' /\ (\A j, there, at : Tells(j, there, at)' <=> Tells(j, there, at))
        /\ \A j : IsHeld(j)' <=> IsHeld(j)
    BY AccountSame DEF SecurityIInv
  <2>3. LoadingOK' /\ OneAction' /\ ShowsNewestKnown'
    BY <2>2 DEF SecurityIInv, LoadingOK, OneAction, ShowsNewestKnown
  <2>4. ActionsOK'
    BY <2>2 DEF SecurityIInv, ActionsOK, ActionOK
  <2>5. KnownOK'
    BY <2>2 DEF SecurityIInv, KnownOK
  <2> QED
    BY <2>1, <2>2, <2>3, <2>4, <2>5 DEF SecurityIInv
<1> QED
  BY <1>1, <1>2, <1>3, <1>4, <1>5, <1>6, <1>7, <1>8, <1>9, <1>10 DEF SecurityNext

LEMMA SecurityHolds == SecuritySpec => []SecurityIInv
  BY SecurityStarts, SecuritySteps, PTL DEF SecuritySpec

\* Every variable of the account security page and of its account keeps its type.
THEOREM SecurityTyped == SecuritySpec => []SecurityTypeOK
<1>1. SecurityIInv => SecurityTypeOK
  BY DEF SecurityIInv
<1> QED
  BY <1>1, SecurityHolds, PTL

\* However requests, answers and changes made elsewhere interleave, a page whose load()
\* settled before its first action shows the newest state it was told of every item.
THEOREM NewestShown == SecuritySpec => []ShowsNewestKnown
<1>1. SecurityIInv => ShowsNewestKnown
  BY DEF SecurityIInv
<1> QED
  BY <1>1, SecurityHolds, PTL

\* No failed or late answer takes away the row of a passkey that still works.
THEOREM WorkingPasskeysShown == SecuritySpec => NothingHidden
<1>1. SecurityIInv /\ [SecurityNext]_securityVars
        => [\A i \in Ids : Shows(i) /\ ~Shows(i)' => ~IsHeld(i) \/ raced]_securityVars
  <2> SUFFICES ASSUME SecurityIInv, SecurityNext, NEW i \in Ids, Shows(i), ~Shows(i)'
               PROVE  ~IsHeld(i) \/ raced
    OBVIOUS
  <2>1. passkeys' # passkeys
    BY DEF Shows
  <2>2. CASE LoadAnswers
    <3>1. ~raced => passkeys = <<>>
      BY <2>2 DEF LoadAnswers, SecurityIInv, KnownOK
    <3> QED
      BY <3>1, NoRows DEF Shows
  <2>3. ASSUME NEW a \in actions, Succeeds(a) \/ Fails(a) PROVE ~IsHeld(i)
    BY <2>3, SucceedsKeeps, FailsKeeps
  <2>4. ASSUME \/ Elsewhere \/ LoadServed \/ LoadFails \/ Press
               \/ \E a \in actions : Served(a) \/ Gone(a) \/ Refused(a) \/ AnswerLost(a)
        PROVE  passkeys' = passkeys
    BY <2>4 DEF Elsewhere, LoadServed, LoadFails, Press, Begin, Served, Gone, Refused,
                AnswerLost, browser, shown
  <2> QED
    BY <2>1, <2>2, <2>3, <2>4 DEF SecurityNext
<1> QED
  BY <1>1, SecurityHolds, PTL DEF SecuritySpec, NothingHidden
=============================================================================
