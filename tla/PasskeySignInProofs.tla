-------------------------- MODULE PasskeySignInProofs --------------------------
(***************************************************************************)
(* What PasskeySignIn's run checks on two requests, for any number of      *)
(* requests, accounts, passkeys and sessions, and any size of a chunk.     *)
(***************************************************************************)
EXTENDS PasskeySignIn, FiniteSetTheorems, TLAPS

-----------------------------------------------------------------------------
(* The chunks of the sweep. *)

\* Every position of a list lies in some chunk.
LEMMA ChunkOf ==
  ASSUME NEW m \in Nat \ {0}
  PROVE  \E k \in Nat : k * Chunk < m /\ m <= (k + 1) * Chunk
  <1> DEFINE k == (m - 1) \div Chunk
             x == (m - 1) % Chunk
  <1>1. Chunk \in Nat \ {0}
    BY SignInAssumption
  <1>2. k \in Nat /\ x \in 0 .. Chunk - 1 /\ m - 1 = Chunk * k + x
    BY <1>1
  <1>3. k * Chunk < m /\ m <= (k + 1) * Chunk
    BY <1>1, <1>2
  <1> QED
    BY <1>2, <1>3

\* Chunk by chunk, delete_user_sessions deletes exactly the keys it read.
LEMMA ChunksCover ==
  ASSUME NEW keys, IsFiniteSet(keys)
  PROVE  InChunks(keys) = keys
  <1> DEFINE list == SetToSeq(keys)
             n == Cardinality(keys)
  <1>1. n \in Nat /\ ExistsBijection(1 .. n, keys)
    BY FS_CardinalityType
  <1>2. \E f \in [1 .. n -> keys] : IsInjective(f)
    BY <1>1 DEF ExistsBijection, Bijection, Injection
  <1>3. list \in [1 .. n -> keys] /\ IsInjective(list)
    BY <1>2 DEF SetToSeq
  <1>4. list \in Surjection(1 .. n, keys)
    <2>1. list \in Injection(1 .. n, keys)
      BY <1>3 DEF Injection
    <2>2. Cardinality(1 .. n) = n
      BY <1>1, FS_Interval
    <2> QED
      BY <2>1, <2>2, FS_Injection
  <1>5. DOMAIN list = 1 .. n /\ Len(list) = n
    BY <1>1, <1>3
  <1>6. InChunks(keys) \subseteq keys
    BY <1>3, <1>5 DEF InChunks
  <1>7. ASSUME NEW x \in keys
        PROVE  x \in InChunks(keys)
    <2>1. PICK m \in 1 .. n : list[m] = x
      BY <1>4 DEF Surjection
    <2>2. PICK k \in Nat : k * Chunk < m /\ m <= (k + 1) * Chunk
      BY <2>1, ChunkOf
    <2>3. k <= k * Chunk /\ k * Chunk < n /\ k \in 0 .. n
      BY <1>1, <2>2, SignInAssumption
    <2>4. k \in {j \in 0 .. Len(list) : j * Chunk < Len(list)}
      BY <1>5, <2>3
    <2>5. m \in {l \in DOMAIN list : k * Chunk < l /\ l <= (k + 1) * Chunk}
      BY <1>5, <2>1, <2>2
    <2> QED
      BY <2>1, <2>4, <2>5 DEF InChunks
  <1> QED
    BY <1>6, <1>7
-----------------------------------------------------------------------------
(* What a step leaves alone. *)

LEMMA Zeroes == 0 \in 0 .. MaxCount /\ 0 \in 0 .. MaxChallenges /\ 0 \in 0 .. MaxSessions
  BY SignInAssumption

\* RequestOK, of one request.
Fits(q) ==
    /\ q.pc \in {"select", "delete"} => q.challenge \in Challenges
    /\ q.kind = "recover" => q.pc \in {"scan", "sweep", "login"} /\ q.user \in Users
    /\ q.pc \in {"scan", "sweep"} => q.kind = "recover" /\ q.keep = q.mine
    /\ q.pc = "scan" => q.tries < MaxTries
    /\ q.pc \in {"record", "stamp", "login"} /\ q.kind # "recover" => q.key \in Passkeys
    /\ q.pc = "record" => OwnerOk(q, q.key)

Moves(r, q) == req' = [req EXCEPT ![r] = q]

\* A step after which whoever deletes a challenge did so before it.
NoNewDelete == \A s \in Requests : req'[s].pc = "delete" => req'[s] = req[s]
NoNewSweep == \A s \in Requests : req'[s].pc = "sweep" => req'[s] = req[s]

LEMMA MovedRequests ==
  ASSUME IInv, NEW r \in Requests, NEW q \in Request, Fits(q), Moves(r, q)
  PROVE  /\ req' \in [Requests -> Request]
         /\ \A s \in Requests : req'[s] = IF s = r THEN q ELSE req[s]
         /\ RequestOK'
  <1>1. req' \in [Requests -> Request]
        /\ \A s \in Requests : req'[s] = IF s = r THEN q ELSE req[s]
    BY DEF IInv, TypeOK, Moves
  <1>2. RequestOK'
    BY <1>1 DEF IInv, RequestOK, Fits
  <1> QED
    BY <1>1, <1>2

LEMMA IdleFits == Idle \in Request /\ Fits(Idle) /\ Idle.pc = "idle"
  BY SignInAssumption DEF Idle, Request, Fits, Kinds

LEMMA ChallengesKept ==
  ASSUME IInv, NoNewDelete, UNCHANGED challengeVars
  PROVE  ChallengeOK' /\ ChallengeSpentOnce'
  BY DEF IInv, ChallengeOK, ChallengeSpentOnce, NoNewDelete, challengeVars

\* Sessions that appear are newer than every sweep.
LEMMA SessionsKept ==
  ASSUME IInv, NoNewSweep, UNCHANGED swept, nextSession' \in Nat,
         nextSession <= nextSession', sessions' \subseteq Session,
         \A s \in sessions' : s \in sessions
                              \/ (s.id \in Nat /\ s.id >= nextSession /\ s.id < nextSession')
  PROVE  SweepOK' /\ SweptOK' /\ SweptSessionsGone'
  <1>1. nextSession \in Nat /\ \A u \in Users : swept[u].before \in Nat
    BY SignInAssumption DEF IInv, TypeOK
  <1>2. \A s \in sessions : s.user \in Users /\ s.id \in Nat
    BY SignInAssumption DEF IInv, TypeOK, Session
  <1>3. \A r \in Requests : req[r].before \in Nat
    BY SignInAssumption DEF IInv, TypeOK, Request
  <1>4. SweepOK'
    BY <1>1, <1>3 DEF IInv, SweepOK, NoNewSweep
  <1>5. SweptOK'
    BY <1>1, <1>2 DEF IInv, SweptOK
  <1>6. SweptSessionsGone'
    BY <1>1 DEF IInv, SweptOK, SweptSessionsGone, Session
  <1> QED
    BY <1>4, <1>5, <1>6

LEMMA Releases ==
  ASSUME IInv, NEW r \in Requests
  PROVE  /\ Released(challengeLock, r) \in [Challenges -> Requests \union {None}]
         /\ \A c \in Challenges :
               Released(challengeLock, r)[c] =
                   IF challengeLock[c] = r THEN None ELSE challengeLock[c]
         /\ Released(userLock, r) \in [Users -> Requests \union {None}]
         /\ \A u \in Users :
               Released(userLock, r)[u] = IF userLock[u] = r THEN None ELSE userLock[u]
  BY DEF IInv, TypeOK, Released

\* The locks' part of TypeOK.
LocksOK ==
    /\ \A c \in Challenges, r \in Requests :
          challengeLock[c] = r => req[r].pc = "delete" /\ req[r].challenge = c
    /\ \A u \in Users, r \in Requests :
          userLock[u] = r => req[r].pc = "sweep" /\ req[r].user = u

\* A request that holds no lock moves and takes none.
LEMMA UnlockedMoves ==
  ASSUME IInv, NEW r \in Requests, NEW q \in Request, Fits(q), Moves(r, q),
         req[r].pc \notin {"delete", "sweep"}, q.pc \notin {"delete", "sweep"},
         UNCHANGED <<challengeLock, userLock>>
  PROVE  /\ req' \in [Requests -> Request] /\ RequestOK'
         /\ LocksOK' /\ NoNewDelete /\ NoNewSweep
  <1>1. req' \in [Requests -> Request] /\ RequestOK'
        /\ \A s \in Requests : req'[s] = IF s = r THEN q ELSE req[s]
    BY MovedRequests
  <1>2. LocksOK'
    BY <1>1 DEF IInv, TypeOK, LocksOK
  <1>3. NoNewDelete /\ NoNewSweep
    BY <1>1 DEF NoNewDelete, NoNewSweep
  <1> QED
    BY <1>1, <1>2, <1>3

\* Sessions change at most by one that is newer than all others.
SessionsGrow ==
    /\ nextSession' \in 1 .. MaxSessions + 1
    /\ nextSession <= nextSession'
    /\ sessions' \subseteq Session
    /\ \A s \in sessions' : s \in sessions
                             \/ (s.id \in Nat /\ s.id >= nextSession /\ s.id < nextSession')

LEMMA UnlockedKeeps ==
  ASSUME IInv, NEW r \in Requests, NEW q \in Request, Fits(q), Moves(r, q),
         req[r].pc \notin {"delete", "sweep"}, q.pc \notin {"delete", "sweep"},
         UNCHANGED <<challengeVars, userLock, swept>>,
         stored' \in [Passkeys -> [there : BOOLEAN, count : 0 .. MaxCount]],
         SessionsGrow
  PROVE  IInv'
  <1>1. /\ req' \in [Requests -> Request] /\ RequestOK'
        /\ LocksOK' /\ NoNewDelete /\ NoNewSweep
    BY UnlockedMoves DEF challengeVars
  <1>2. TypeOK'
    BY <1>1 DEF IInv, TypeOK, LocksOK, challengeVars, SessionsGrow
  <1>3. ChallengeOK' /\ ChallengeSpentOnce'
    BY <1>1, ChallengesKept
  <1>4. nextSession' \in Nat
    BY SignInAssumption DEF SessionsGrow
  <1>5. SweepOK' /\ SweptOK' /\ SweptSessionsGone'
    BY <1>1, <1>4, SessionsKept DEF SessionsGrow
  <1> QED
    BY <1>1, <1>2, <1>3, <1>5 DEF IInv

LEMMA QuietKeeps ==
  ASSUME IInv, NEW r \in Requests, NEW q \in Request, Fits(q), Moves(r, q),
         req[r].pc \notin {"delete", "sweep"}, q.pc \notin {"delete", "sweep"},
         UNCHANGED <<challengeVars, userLock, sessionVars>>,
         stored' \in [Passkeys -> [there : BOOLEAN, count : 0 .. MaxCount]]
  PROVE  IInv'
  <1>1. SessionsGrow
    BY SignInAssumption DEF IInv, TypeOK, SessionsGrow, sessionVars
  <1>2. UNCHANGED <<challengeVars, userLock, swept>>
    BY DEF sessionVars
  <1> QED
    BY <1>1, <1>2, UnlockedKeeps
-----------------------------------------------------------------------------
(* The challenge. *)

LEMMA BeginLoginKeeps ==
  ASSUME IInv, BeginLogin
  PROVE  IInv'
  <1> USE DEF Challenges, sessionVars
  <1>1. nextChallenge \in Nat /\ UNCHANGED <<challengeLock, spent, stored, userLock, sessionVars, req>>
        /\ live' = live \union {nextChallenge} /\ nextChallenge' = nextChallenge + 1
    BY SignInAssumption DEF IInv, TypeOK, BeginLogin
  <1>2. TypeOK'
    BY <1>1, SignInAssumption DEF IInv, TypeOK, BeginLogin
  <1>3. ChallengeOK' /\ ChallengeSpentOnce'
    BY <1>1, SignInAssumption DEF IInv, TypeOK, ChallengeOK, ChallengeSpentOnce
  <1>4. RequestOK' /\ SweepOK' /\ SweptOK' /\ SweptSessionsGone'
    BY <1>1 DEF IInv, RequestOK, SweepOK, SweptOK, SweptSessionsGone
  <1> QED
    BY <1>2, <1>3, <1>4 DEF IInv

LEMMA ExpireKeeps ==
  ASSUME IInv, NEW c \in Challenges, Expire(c)
  PROVE  IInv'
  <1> USE DEF sessionVars
  <1>1. UNCHANGED <<nextChallenge, challengeLock, spent, stored, userLock, sessionVars, req>>
        /\ live' = live \ {c} /\ challengeLock[c] = None
    BY DEF Expire
  <1>2. TypeOK'
    BY <1>1 DEF IInv, TypeOK
  <1>3. ChallengeOK' /\ ChallengeSpentOnce'
    <2>1. \A r \in Requests : req[r].pc = "delete" => req[r].challenge # c
      BY <1>1, SignInAssumption DEF IInv, ChallengeOK
    <2> QED
      BY <1>1, <2>1 DEF IInv, ChallengeOK, ChallengeSpentOnce
  <1>4. RequestOK' /\ SweepOK' /\ SweptOK' /\ SweptSessionsGone'
    BY <1>1 DEF IInv, RequestOK, SweepOK, SweptOK, SweptSessionsGone
  <1> QED
    BY <1>2, <1>3, <1>4 DEF IInv

LEMMA SubmitKeeps ==
  ASSUME IInv, NEW r \in Requests, NEW kind \in Kinds,
         NEW u \in Users \union {None}, NEW c \in Challenges,
         Submit(r, kind, u, c)
  PROVE  IInv'
  <1> DEFINE q == [Idle EXCEPT !.pc = "select", !.kind = kind, !.user = u, !.challenge = c]
  <1>1. Moves(r, q) /\ req[r].pc = "idle" /\ kind # "recover"
        /\ UNCHANGED <<challengeVars, stored, userLock, sessionVars>>
    BY DEF Submit, Moves, Idle
  <1>2. q.pc = "select" /\ q.kind = kind /\ q.challenge = c
    BY DEF Idle
  <1>3. q \in Request
    <2>1. c \in 0 .. MaxChallenges
      BY SignInAssumption DEF Challenges
    <2> QED
      BY <2>1, IdleFits DEF Request
  <1>4. Fits(q)
    BY <1>1, <1>2 DEF Fits
  <1>5. stored \in [Passkeys -> [there : BOOLEAN, count : 0 .. MaxCount]]
    BY DEF IInv, TypeOK
  <1> QED
    BY <1>1, <1>2, <1>3, <1>4, <1>5, QuietKeeps

LEMMA ConsumeSelectKeeps ==
  ASSUME IInv, NEW r \in Requests, ConsumeSelect(r)
  PROVE  IInv'
  <1> USE DEF sessionVars
  <1> DEFINE c == req[r].challenge
             q == [req[r] EXCEPT !.pc = "delete"]
  <1>1. req[r].pc = "select" /\ c \in Challenges /\ challengeLock[c] = None
        /\ UNCHANGED <<live, nextChallenge, spent, stored, userLock, sessionVars>>
    BY DEF ConsumeSelect, IInv, RequestOK
  <1>2. CASE c \in live /\ challengeLock' = [challengeLock EXCEPT ![c] = r] /\ Goto(r, "delete")
    <2>1. Moves(r, q) /\ q.pc = "delete" /\ q.challenge = c
      BY <1>2 DEF Moves, Goto, IInv, TypeOK, Request
    <2>2. q \in Request /\ Fits(q)
      BY <1>1 DEF IInv, TypeOK, Request, RequestOK, Fits
    <2>3. /\ req' \in [Requests -> Request] /\ RequestOK'
          /\ \A s \in Requests : req'[s] = IF s = r THEN q ELSE req[s]
      BY <2>1, <2>2, MovedRequests
    <2>4. challengeLock' \in [Challenges -> Requests \union {None}]
          /\ \A d \in Challenges : challengeLock'[d] = IF d = c THEN r ELSE challengeLock[d]
      BY <1>1, <1>2 DEF IInv, TypeOK
    <2>5. LocksOK'
      <3>1. \A d \in Challenges, s \in Requests :
               challengeLock'[d] = s => req'[s].pc = "delete" /\ req'[s].challenge = d
        <4>1. \A d \in Challenges : challengeLock[d] # r
          BY <1>1 DEF IInv, TypeOK
        <4>2. \A d \in Challenges, s \in Requests : challengeLock'[d] = s =>
                 (d = c /\ s = r) \/ (s # r /\ challengeLock[d] = s)
          BY <2>4, <4>1
        <4>3. \A d \in Challenges, s \in Requests :
                 challengeLock[d] = s => req[s].pc = "delete" /\ req[s].challenge = d
          BY DEF IInv, TypeOK
        <4> HIDE DEF q, c
        <4> QED
          BY <2>1, <2>3, <4>2, <4>3
      <3>2. \A u \in Users, s \in Requests :
               userLock'[u] = s => req'[s].pc = "sweep" /\ req'[s].user = u
        BY <1>1, <2>3 DEF IInv, TypeOK
      <3> QED
        BY <3>1, <3>2 DEF LocksOK
    <2>6. TypeOK'
      BY <1>1, <2>3, <2>4, <2>5 DEF IInv, TypeOK, LocksOK
    <2>7. ChallengeOK' /\ ChallengeSpentOnce'
      <3>1. \A s \in Requests :
               req'[s].pc = "delete" =>
                   req'[s].challenge \in live /\ challengeLock'[req'[s].challenge] = s
        <4> SUFFICES ASSUME NEW s \in Requests, req'[s].pc = "delete"
                     PROVE  req'[s].challenge \in live
                            /\ challengeLock'[req'[s].challenge] = s
          OBVIOUS
        <4>1. CASE s = r
          BY <1>1, <1>2, <2>1, <2>3, <2>4, <4>1
        <4>2. CASE s # r
          <5>1. req'[s] = req[s] /\ req[s].challenge \in live
                /\ challengeLock[req[s].challenge] = s /\ live \subseteq Challenges
            BY <2>3, <4>2 DEF IInv, ChallengeOK, TypeOK
          <5>2. req[s].challenge # c
            BY <1>1, <5>1, SignInAssumption
          <5> QED
            BY <2>4, <5>1, <5>2
        <4> QED
          BY <4>1, <4>2
      <3> QED
        BY <1>1, <3>1 DEF IInv, ChallengeOK, ChallengeSpentOnce
    <2>8. NoNewSweep
      BY <2>1, <2>3 DEF NoNewSweep
    <2>9. SweepOK' /\ SweptOK' /\ SweptSessionsGone'
      BY <1>1, <2>3, <2>8 DEF IInv, SweepOK, SweptOK, SweptSessionsGone, NoNewSweep
    <2> QED
      BY <2>3, <2>6, <2>7, <2>9 DEF IInv
  <1>3. CASE c \notin live /\ Done(r) /\ UNCHANGED challengeLock
    <2>1. Moves(r, Idle) /\ UNCHANGED challengeVars
      BY <1>1, <1>3 DEF Done, Moves, challengeVars
    <2>2. stored \in [Passkeys -> [there : BOOLEAN, count : 0 .. MaxCount]]
      BY DEF IInv, TypeOK
    <2> QED
      BY <1>1, <2>1, <2>2, IdleFits, QuietKeeps
  <1> QED
    BY <1>2, <1>3 DEF ConsumeSelect

\* A request that ends its transaction gives its locks back.
LEMMA NothingToRelease ==
  ASSUME IInv, NEW r \in Requests
  PROVE  /\ req[r].pc # "delete" => Released(challengeLock, r) = challengeLock
         /\ req[r].pc # "sweep" => Released(userLock, r) = userLock
  <1>1. ASSUME req[r].pc # "delete"
        PROVE  Released(challengeLock, r) = challengeLock
    <2>1. challengeLock \in [Challenges -> Requests \union {None}]
          /\ \A c \in Challenges : challengeLock[c] # r
      BY <1>1 DEF IInv, TypeOK
    <2> QED
      BY <2>1 DEF Released
  <1>2. ASSUME req[r].pc # "sweep"
        PROVE  Released(userLock, r) = userLock
    <2>1. userLock \in [Users -> Requests \union {None}] /\ \A u \in Users : userLock[u] # r
      BY <1>2 DEF IInv, TypeOK
    <2> QED
      BY <2>1 DEF Released
  <1> QED
    BY <1>1, <1>2

LEMMA Frees ==
  ASSUME IInv, NEW r \in Requests, NEW q \in Request, Fits(q), Moves(r, q),
         q.pc \notin {"delete", "sweep"},
         challengeLock' = Released(challengeLock, r), userLock' = Released(userLock, r)
  PROVE  /\ req' \in [Requests -> Request] /\ RequestOK'
         /\ challengeLock' \in [Challenges -> Requests \union {None}]
         /\ userLock' \in [Users -> Requests \union {None}]
         /\ LocksOK' /\ NoNewDelete /\ NoNewSweep
         /\ \A s \in Requests : req'[s].pc = "delete" =>
               s # r /\ challengeLock'[req[s].challenge] = s
  <1>1. req' \in [Requests -> Request] /\ RequestOK'
        /\ \A s \in Requests : req'[s] = IF s = r THEN q ELSE req[s]
    BY MovedRequests
  <1>2. /\ challengeLock' \in [Challenges -> Requests \union {None}]
        /\ \A c \in Challenges :
              challengeLock'[c] = IF challengeLock[c] = r THEN None ELSE challengeLock[c]
        /\ userLock' \in [Users -> Requests \union {None}]
        /\ \A u \in Users : userLock'[u] = IF userLock[u] = r THEN None ELSE userLock[u]
    BY Releases
  <1>3. LocksOK'
    <2>1. LocksOK
      BY DEF IInv, TypeOK, LocksOK
    <2>2. \A c \in Challenges, s \in Requests :
             challengeLock'[c] = s => s # r /\ challengeLock[c] = s
      BY <1>2, SignInAssumption
    <2>3. \A u \in Users, s \in Requests : userLock'[u] = s => s # r /\ userLock[u] = s
      BY <1>2, SignInAssumption
    <2> QED
      BY <1>1, <2>1, <2>2, <2>3 DEF LocksOK
  <1>4. NoNewDelete /\ NoNewSweep
    BY <1>1 DEF NoNewDelete, NoNewSweep
  <1>5. \A s \in Requests : req'[s].pc = "delete" =>
           s # r /\ challengeLock'[req[s].challenge] = s
    <2> SUFFICES ASSUME NEW s \in Requests, req'[s].pc = "delete"
                 PROVE  s # r /\ challengeLock'[req[s].challenge] = s
      OBVIOUS
    <2>1. s # r /\ req[s].pc = "delete"
      BY <1>1
    <2>2. req[s].challenge \in Challenges /\ challengeLock[req[s].challenge] = s
      BY <2>1 DEF IInv, ChallengeOK, TypeOK
    <2> QED
      BY <1>2, <2>1, <2>2
  <1> QED
    BY <1>1, <1>2, <1>3, <1>4, <1>5

LEMMA ConsumeDeleteKeeps ==
  ASSUME IInv, NEW r \in Requests, ConsumeDelete(r)
  PROVE  IInv'
  <1> DEFINE c == req[r].challenge
             q == [req[r] EXCEPT !.pc = "verify", !.challenge = 0]
  <1>1. /\ req[r].pc = "delete" /\ c \in live /\ c \in Challenges /\ spent[c] = 0
        /\ challengeLock[c] = r
    BY DEF ConsumeDelete, IInv, ChallengeOK, TypeOK
  <1>2. /\ Moves(r, q) /\ q.pc = "verify"
        /\ live' = live \ {c} /\ spent' = [spent EXCEPT ![c] = @ + 1]
        /\ challengeLock' = Released(challengeLock, r)
        /\ UNCHANGED <<nextChallenge, stored, userLock, sessionVars>>
    <2>1. req' = [req EXCEPT ![r].pc = "verify", ![r].challenge = 0] /\ req[r] \in Request
          /\ req \in [Requests -> Request]
      BY DEF ConsumeDelete, IInv, TypeOK
    <2>2. Moves(r, q)
      BY <2>1 DEF Moves
    <2>3. q.pc = "verify"
      BY <2>1 DEF Request
    <2> QED
      BY <2>2, <2>3 DEF ConsumeDelete
  <1>3. q \in Request
    <2>1. req[r] \in Request
      BY DEF IInv, TypeOK
    <2> QED
      BY <2>1, Zeroes DEF Request
  <1>4. Fits(q)
    BY <1>1, <1>2 DEF IInv, RequestOK, Fits, TypeOK, Request
  <1>5. userLock' = Released(userLock, r)
    BY <1>1, <1>2, NothingToRelease
  <1>6. /\ req' \in [Requests -> Request] /\ RequestOK'
        /\ challengeLock' \in [Challenges -> Requests \union {None}]
        /\ userLock' \in [Users -> Requests \union {None}]
        /\ LocksOK' /\ NoNewDelete /\ NoNewSweep
        /\ \A s \in Requests : req'[s].pc = "delete" =>
              s # r /\ challengeLock'[req[s].challenge] = s
    BY <1>2, <1>3, <1>4, <1>5, Frees
  <1>7. spent' \in [Challenges -> Nat]
        /\ \A d \in Challenges : spent'[d] = IF d = c THEN 1 ELSE spent[d]
    BY <1>1, <1>2 DEF IInv, TypeOK
  <1>8. TypeOK'
    BY <1>2, <1>6, <1>7 DEF IInv, TypeOK, LocksOK, sessionVars
  <1>9. ChallengeSpentOnce'
    BY <1>7 DEF IInv, ChallengeSpentOnce
  <1>10. ChallengeOK'
    <2>1. \A d \in Challenges :
             /\ d \in live' => spent'[d] = 0
             /\ d >= nextChallenge' => d \notin live' /\ spent'[d] = 0
      BY <1>1, <1>2, <1>7 DEF IInv, ChallengeOK
    <2>2. ASSUME NEW s \in Requests, req'[s].pc = "delete"
          PROVE  req'[s].challenge \in live' /\ challengeLock'[req'[s].challenge] = s
      <3>1. s # r /\ req'[s] = req[s] /\ challengeLock'[req[s].challenge] = s
        BY <1>6, <2>2 DEF NoNewDelete
      <3>2. req[s].challenge \in live /\ challengeLock[req[s].challenge] = s
        BY <2>2, <3>1 DEF IInv, ChallengeOK
      <3>3. req[s].challenge # c
        BY <1>1, <3>1, <3>2
      <3> QED
        BY <1>2, <3>1, <3>2, <3>3
    <2> QED
      BY <2>1, <2>2 DEF ChallengeOK
  <1>11. SweepOK' /\ SweptOK' /\ SweptSessionsGone'
    BY <1>2, <1>6 DEF IInv, SweepOK, SweptOK, SweptSessionsGone, NoNewSweep, sessionVars
  <1> QED
    BY <1>6, <1>8, <1>9, <1>10, <1>11 DEF IInv
-----------------------------------------------------------------------------
(* The assertion. *)

\* A request not yet recovering is a sign-in or a step-up.
LEMMA Asserts ==
  ASSUME IInv, NEW r \in Requests, req[r].pc \in {"verify", "record", "stamp"}
  PROVE  /\ req[r].kind # "recover" /\ req[r] \in Request
         /\ req[r].pc \notin {"delete", "sweep"}
         /\ stored \in [Passkeys -> [there : BOOLEAN, count : 0 .. MaxCount]]
  BY DEF IInv, TypeOK, RequestOK

LEMMA VerifyKeeps ==
  ASSUME IInv, NEW r \in Requests, NEW p \in Passkeys, NEW n \in 0 .. MaxCount, Verify(r, p, n)
  PROVE  IInv'
  <1> DEFINE q == [req[r] EXCEPT !.pc = "record", !.key = p, !.count = n]
  <1>1. /\ req[r].pc = "verify" /\ OwnerOk(req[r], p)
        /\ req' = [req EXCEPT ![r].pc = "record", ![r].key = p, ![r].count = n]
        /\ UNCHANGED <<challengeVars, stored, userLock, sessionVars>>
    BY DEF Verify
  <1>2. req[r].kind # "recover" /\ req[r] \in Request
        /\ stored \in [Passkeys -> [there : BOOLEAN, count : 0 .. MaxCount]]
    BY <1>1, Asserts
  <1>3. Moves(r, q)
    BY <1>1 DEF IInv, TypeOK, Moves
  <1>4. /\ q \in Request /\ q.pc = "record" /\ q.key = p
        /\ q.kind = req[r].kind /\ q.user = req[r].user
    BY <1>2 DEF Request
  <1>5. OwnerOk(q, q.key)
    BY <1>1, <1>4 DEF OwnerOk
  <1>6. Fits(q)
    BY <1>2, <1>4, <1>5 DEF Fits
  <1> HIDE DEF q
  <1> QED
    BY <1>1, <1>2, <1>3, <1>4, <1>6, QuietKeeps

\* The request ends, and with it nothing but a passkey's row may have changed.
LEMMA DoneKeeps ==
  ASSUME IInv, NEW r \in Requests, Done(r), req[r].pc \notin {"delete", "sweep"},
         UNCHANGED <<challengeVars, userLock, sessionVars>>,
         stored' \in [Passkeys -> [there : BOOLEAN, count : 0 .. MaxCount]]
  PROVE  IInv'
  <1>1. Moves(r, Idle)
    BY DEF Done, Moves
  <1> QED
    BY <1>1, IdleFits, QuietKeeps

LEMMA RejectKeeps ==
  ASSUME IInv, NEW r \in Requests, Reject(r)
  PROVE  IInv'
  <1>1. req[r].pc = "verify" /\ Done(r) /\ UNCHANGED <<challengeVars, stored, userLock, sessionVars>>
    BY DEF Reject
  <1>2. stored \in [Passkeys -> [there : BOOLEAN, count : 0 .. MaxCount]]
    BY <1>1, Asserts
  <1> QED
    BY <1>1, <1>2, DoneKeeps

\* The conditional update leaves the rows rows, and only raises counters.
LEMMA Updated ==
  ASSUME IInv, NEW r \in Requests, Record(r)
  PROVE  /\ req[r].pc = "record" /\ req[r].key \in Passkeys
         /\ stored' \in [Passkeys -> [there : BOOLEAN, count : 0 .. MaxCount]]
         /\ \A p \in Passkeys : /\ stored'[p].there = stored[p].there
                                /\ stored[p].count <= stored'[p].count
                                /\ p # req[r].key => stored'[p] = stored[p]
         /\ UNCHANGED <<challengeVars, userLock, sessionVars>>
         /\ Done(r) \/ (Proved(r) /\ stored[req[r].key].there)
  <1> DEFINE k == req[r].key
             n == NewCount(stored[k].count, req[r].count)
  <1>1. req[r].pc = "record" /\ UNCHANGED <<challengeVars, userLock, sessionVars>>
    BY DEF Record
  <1>2. req[r].kind # "recover" /\ req[r] \in Request
        /\ stored \in [Passkeys -> [there : BOOLEAN, count : 0 .. MaxCount]]
    BY <1>1, Asserts
  <1>3. k \in Passkeys
    BY <1>1, <1>2 DEF IInv, RequestOK
  <1>4. \A p \in Passkeys : stored[p].count \in Nat
    BY <1>2, SignInAssumption
  <1>5. CASE stored[k].there
    <2>1. stored' = [stored EXCEPT ![k].count = NewCount(@, req[r].count)] /\ Proved(r)
      BY <1>5 DEF Record
    <2>2. n \in 0 .. MaxCount /\ stored[k].count <= n
      BY <1>2, <1>3, SignInAssumption DEF NewCount, Request
    <2>3. stored' = [stored EXCEPT ![k] = [stored[k] EXCEPT !.count = n]]
      BY <1>2, <2>1
    <2> HIDE DEF n
    <2>4. stored' \in [Passkeys -> [there : BOOLEAN, count : 0 .. MaxCount]]
          /\ \A p \in Passkeys : /\ stored'[p].there = stored[p].there
                                 /\ stored[p].count <= stored'[p].count
                                 /\ p # k => stored'[p] = stored[p]
      BY <1>2, <1>3, <1>4, <2>2, <2>3
    <2> QED
      BY <1>1, <1>3, <1>5, <2>1, <2>4
  <1>6. CASE ~stored[k].there
    <2>1. Done(r) /\ stored' = stored
      BY <1>6 DEF Record
    <2>2. \A p \in Passkeys : stored[p].count <= stored[p].count
      BY <1>4
    <2>3. /\ stored' \in [Passkeys -> [there : BOOLEAN, count : 0 .. MaxCount]]
          /\ \A p \in Passkeys : /\ stored'[p].there = stored[p].there
                                 /\ stored[p].count <= stored'[p].count
                                 /\ p # k => stored'[p] = stored[p]
      BY <1>2, <2>1, <2>2
    <2> QED
      BY <1>1, <1>3, <2>1, <2>3
  <1> QED
    BY <1>5, <1>6

LEMMA RecordKeeps ==
  ASSUME IInv, NEW r \in Requests, Record(r)
  PROVE  IInv'
  <1>1. /\ req[r].pc = "record"
        /\ stored' \in [Passkeys -> [there : BOOLEAN, count : 0 .. MaxCount]]
        /\ UNCHANGED <<challengeVars, userLock, sessionVars>>
        /\ Done(r) \/ Proved(r)
        /\ req[r].key \in Passkeys
    BY Updated
  <1>2. CASE Done(r)
    BY <1>1, <1>2, DoneKeeps
  <1>3. CASE req' = [req EXCEPT ![r].pc = "stamp", ![r].count = 0]
    <2> DEFINE q == [req[r] EXCEPT !.pc = "stamp", !.count = 0]
    <2>1. req[r].kind # "recover" /\ req[r] \in Request
      BY <1>1, Asserts
    <2>2. Moves(r, q)
      BY <1>3 DEF IInv, TypeOK, Moves
    <2>3. q \in Request /\ q.pc = "stamp" /\ q.kind = req[r].kind /\ q.key = req[r].key
      BY <2>1, Zeroes DEF Request
    <2>4. Fits(q)
      BY <1>1, <2>1, <2>3 DEF Fits
    <2> HIDE DEF q
    <2> QED
      BY <1>1, <2>2, <2>3, <2>4, QuietKeeps
  <1> QED
    BY <1>1, <1>2, <1>3 DEF Proved

LEMMA StampKeeps ==
  ASSUME IInv, NEW r \in Requests, Stamp(r)
  PROVE  IInv'
  <1> DEFINE q == [req[r] EXCEPT !.pc = "login"]
  <1>1. req[r].pc = "stamp" /\ Goto(r, "login")
        /\ UNCHANGED <<challengeVars, stored, userLock, sessionVars>>
    BY DEF Stamp
  <1>2. /\ req[r].kind # "recover" /\ req[r] \in Request
        /\ stored \in [Passkeys -> [there : BOOLEAN, count : 0 .. MaxCount]]
    BY <1>1, Asserts
  <1>3. Moves(r, q)
    BY <1>1 DEF IInv, TypeOK, Moves, Goto
  <1>4. q \in Request /\ q.pc = "login" /\ q.kind = req[r].kind /\ q.key = req[r].key
    BY <1>2 DEF Request
  <1>5. Fits(q)
    BY <1>1, <1>2, <1>4 DEF Fits, IInv, RequestOK
  <1> HIDE DEF q
  <1> QED
    BY <1>1, <1>2, <1>3, <1>4, <1>5, QuietKeeps

LEMMA LoginKeeps ==
  ASSUME IInv, NEW r \in Requests, Login(r)
  PROVE  IInv'
  <1> DEFINE new == [id |-> nextSession, user |-> OwnerOf[req[r].key]]
  <1>1. /\ req[r].pc = "login" /\ req[r].kind = "login" /\ Done(r)
        /\ nextSession <= MaxSessions
        /\ sessions' = sessions \union {new} /\ nextSession' = nextSession + 1
        /\ UNCHANGED <<challengeVars, stored, userLock, swept>>
    BY DEF Login
  <1>2. req[r].key \in Passkeys
    BY <1>1 DEF IInv, RequestOK
  <1>3. SessionsGrow
    BY <1>1, <1>2, SignInAssumption DEF IInv, TypeOK, SessionsGrow, Session
  <1>4. stored \in [Passkeys -> [there : BOOLEAN, count : 0 .. MaxCount]]
    BY DEF IInv, TypeOK
  <1>5. Moves(r, Idle)
    BY <1>1 DEF Done, Moves
  <1> QED
    BY <1>1, <1>3, <1>4, <1>5, IdleFits, UnlockedKeeps
-----------------------------------------------------------------------------
(* The recovery. *)

LEMMA RecoverKeeps ==
  ASSUME IInv, NEW r \in Requests, NEW u \in Users, Recover(r, u)
  PROVE  IInv'
  <1>1. PICK own \in {0} \union {s.id : s \in sessions} :
          /\ sessions' = {IF s.id = own THEN [s EXCEPT !.id = nextSession] ELSE s :
                             s \in sessions}
          /\ req' = [req EXCEPT ![r] =
                        [Idle EXCEPT !.pc = "scan", !.kind = "recover", !.user = u,
                                     !.mine = nextSession, !.keep = KeepKey(own, nextSession)]]
    BY DEF Recover
  <1>2. /\ req[r] = Idle /\ nextSession <= MaxSessions /\ nextSession' = nextSession + 1
        /\ UNCHANGED <<challengeVars, stored, userLock, swept>>
    BY DEF Recover
  <1> DEFINE q == [Idle EXCEPT !.pc = "scan", !.kind = "recover", !.user = u,
                               !.mine = nextSession, !.keep = KeepKey(own, nextSession)]
  <1>3. Moves(r, q) /\ req[r].pc = "idle"
    BY <1>1, <1>2, IdleFits DEF Moves
  <1>4. nextSession \in Nat /\ nextSession \in 0 .. MaxSessions
    BY <1>2, SignInAssumption DEF IInv, TypeOK
  <1>5. /\ q.pc = "scan" /\ q.kind = "recover" /\ q.user = u /\ q.tries = 0
        /\ q.mine = nextSession /\ q.keep = nextSession
    BY DEF Idle, KeepKey
  <1>6. q \in Request
    BY <1>4, IdleFits DEF Request, Kinds, KeepKey
  <1>7. Fits(q)
    BY <1>5, SignInAssumption DEF Fits
  <1>8. SessionsGrow
    <2>1. sessions \subseteq Session
      BY DEF IInv, TypeOK
    <2>2. nextSession' \in 1 .. MaxSessions + 1 /\ nextSession <= nextSession'
      BY <1>2, <1>4, SignInAssumption
    <2>3. \A s \in sessions' : s \in Session
             /\ (s \in sessions
                 \/ (s.id \in Nat /\ s.id >= nextSession /\ s.id < nextSession'))
      <3> SUFFICES ASSUME NEW s \in sessions'
                   PROVE  s \in Session
                          /\ (s \in sessions
                              \/ (s.id \in Nat /\ s.id >= nextSession /\ s.id < nextSession'))
        OBVIOUS
      <3>1. PICK t \in sessions : s = IF t.id = own THEN [t EXCEPT !.id = nextSession] ELSE t
        BY <1>1
      <3>2. CASE t.id # own
        BY <2>1, <3>1, <3>2
      <3>3. CASE t.id = own
        <4>1. s = [t EXCEPT !.id = nextSession] /\ nextSession \in 1 .. MaxSessions
              /\ t \in Session
          BY <1>2, <2>1, <3>1, <3>3, SignInAssumption DEF IInv, TypeOK
        <4>2. s \in Session /\ s.id = nextSession
          BY <4>1 DEF Session
        <4> QED
          BY <1>2, <1>4, <4>2
      <3> QED
        BY <3>2, <3>3
    <2> QED
      BY <2>2, <2>3 DEF SessionsGrow
  <1>9. stored \in [Passkeys -> [there : BOOLEAN, count : 0 .. MaxCount]]
    BY DEF IInv, TypeOK
  <1> HIDE DEF q
  <1> QED
    BY <1>2, <1>3, <1>5, <1>6, <1>7, <1>8, <1>9, UnlockedKeeps

LEMMA RecoverLoginKeeps ==
  ASSUME IInv, NEW r \in Requests, RecoverLogin(r)
  PROVE  IInv'
  <1> DEFINE u == req[r].user
             new == [id |-> nextSession, user |-> u]
  <1>1. /\ req[r].pc = "login" /\ req[r].kind = "recover" /\ Done(r)
        /\ nextSession <= MaxSessions
        /\ sessions' = {s \in sessions : s.id # req[r].mine} \union {new}
        /\ nextSession' = nextSession + 1
        /\ UNCHANGED <<challengeVars, stored, userLock, swept>>
    BY DEF RecoverLogin
  <1>2. u \in Users
    BY <1>1 DEF IInv, RequestOK
  <1>3. SessionsGrow
    BY <1>1, <1>2, SignInAssumption DEF IInv, TypeOK, SessionsGrow, Session
  <1>4. stored \in [Passkeys -> [there : BOOLEAN, count : 0 .. MaxCount]]
    BY DEF IInv, TypeOK
  <1>5. Moves(r, Idle)
    BY <1>1 DEF Done, Moves
  <1> QED
    BY <1>1, <1>3, <1>4, <1>5, IdleFits, UnlockedKeeps

LEMMA ScanKeeps ==
  ASSUME IInv, NEW r \in Requests, Scan(r)
  PROVE  IInv'
  <1> DEFINE u == req[r].user
             list == {s.id : s \in {t \in sessions : t.user = u}} \ {req[r].keep}
             q == [req[r] EXCEPT !.pc = "sweep", !.stale = list, !.before = nextSession,
                                 !.tries = @ + 1]
  <1>1. /\ req[r].pc = "scan" /\ userLock[u] = None
        /\ userLock' = [userLock EXCEPT ![u] = r]
        /\ req' = [req EXCEPT ![r].pc = "sweep", ![r].stale = list, ![r].before = nextSession,
                              ![r].tries = @ + 1]
        /\ UNCHANGED <<challengeVars, stored, sessionVars>>
    BY DEF Scan
  <1>2. /\ req[r] \in Request /\ req \in [Requests -> Request]
        /\ req[r].kind = "recover" /\ u \in Users /\ req[r].keep = req[r].mine
        /\ req[r].tries < MaxTries
    BY <1>1 DEF IInv, TypeOK, RequestOK
  <1>3. Moves(r, q)
    BY <1>1, <1>2 DEF Moves
  <1>4. /\ q.pc = "sweep" /\ q.kind = "recover" /\ q.user = u /\ q.keep = q.mine
        /\ q.stale = list /\ q.before = nextSession /\ q.keep = req[r].keep
    BY <1>2 DEF Request
  <1>5. list \subseteq 1 .. MaxSessions /\ nextSession \in 1 .. MaxSessions + 1
        /\ nextSession \in Nat
    BY SignInAssumption DEF IInv, TypeOK, Session
  <1>6. req[r].tries + 1 \in 0 .. MaxTries
    BY <1>2, SignInAssumption DEF Request
  <1>7. list \in SUBSET (1 .. MaxSessions)
    BY <1>5
  <1> HIDE DEF list
  <1>8. q \in Request
    BY <1>2, <1>5, <1>6, <1>7 DEF Request
  <1>9. Fits(q)
    BY <1>2, <1>4 DEF Fits
  <1> HIDE DEF q
  <1>10. /\ req' \in [Requests -> Request] /\ RequestOK'
         /\ \A s \in Requests : req'[s] = IF s = r THEN q ELSE req[s]
    BY <1>3, <1>8, <1>9, MovedRequests
  <1>11. /\ userLock' \in [Users -> Requests \union {None}]
         /\ \A v \in Users : userLock'[v] = IF v = u THEN r ELSE userLock[v]
    BY <1>1, <1>2 DEF IInv, TypeOK
  <1>12. LocksOK'
    <2>1. \A v \in Users, s \in Requests : userLock'[v] = s =>
             (v = u /\ s = r) \/ (s # r /\ userLock[v] = s)
      <3>1. \A v \in Users : userLock[v] # r
        BY <1>1 DEF IInv, TypeOK
      <3> QED
        BY <1>11, <3>1
    <2>2. LocksOK
      BY DEF IInv, TypeOK, LocksOK
    <2>3. \A v \in Users, s \in Requests :
             userLock'[v] = s => req'[s].pc = "sweep" /\ req'[s].user = v
      BY <1>4, <1>10, <2>1, <2>2 DEF LocksOK
    <2>4. \A c \in Challenges, s \in Requests :
             challengeLock'[c] = s => req'[s].pc = "delete" /\ req'[s].challenge = c
      <3>1. challengeLock' = challengeLock
        BY <1>1 DEF challengeVars
      <3> QED
        BY <1>1, <1>10, <2>2, <3>1 DEF LocksOK
    <2> QED
      BY <2>3, <2>4 DEF LocksOK
  <1>13. TypeOK'
    BY <1>1, <1>10, <1>11, <1>12 DEF IInv, TypeOK, LocksOK, challengeVars, sessionVars
  <1>14. NoNewDelete
    BY <1>4, <1>10 DEF NoNewDelete
  <1>15. ChallengeOK' /\ ChallengeSpentOnce'
    BY <1>1, <1>14, ChallengesKept
  <1>16. SweepOK'
    <2>1. \A s \in sessions : s.user = u => s.id \in list \union {req[r].keep}
      BY DEF list
    <2>2. req[r].keep \notin list /\ nextSession <= nextSession
      BY <1>5 DEF list
    <2>3. sessions' = sessions /\ nextSession' = nextSession
      BY <1>1 DEF sessionVars
    <2> QED
      BY <1>4, <1>10, <2>1, <2>2, <2>3 DEF IInv, SweepOK
  <1>17. SweptOK' /\ SweptSessionsGone'
    BY <1>1 DEF IInv, SweptOK, SweptSessionsGone, sessionVars
  <1> QED
    BY <1>10, <1>13, <1>15, <1>16, <1>17 DEF IInv

\* The chunked deletes remove the scanned list, whole.
LEMMA SweptList ==
  ASSUME IInv, NEW r \in Requests, Sweep(r)
  PROVE  sessions' = {s \in sessions : s.id \notin req[r].stale}
  <1>1. IsFiniteSet(1 .. MaxSessions)
    BY SignInAssumption, FS_Interval
  <1>2. req[r].stale \subseteq 1 .. MaxSessions
    BY DEF IInv, TypeOK, Request
  <1>3. InChunks(req[r].stale) = req[r].stale
    BY <1>1, <1>2, FS_Subset, ChunksCover
  <1> QED
    BY <1>3 DEF Sweep

LEMMA SweepKeeps ==
  ASSUME IInv, NEW r \in Requests, Sweep(r)
  PROVE  IInv'
  <1> DEFINE q == req[r]
             next == [Idle EXCEPT !.pc = "login", !.kind = "recover", !.user = q.user,
                                  !.mine = q.mine]
  <1>1. /\ q.pc = "sweep" /\ q \in Request /\ q.kind = "recover" /\ q.user \in Users
        /\ q.keep \notin q.stale
        /\ \A s \in sessions :
              s.user = q.user /\ s.id < q.before => s.id \in q.stale \union {q.keep}
        /\ q.before <= nextSession
    BY DEF Sweep, IInv, TypeOK, RequestOK, SweepOK
  <1>2. /\ sessions' = {s \in sessions : s.id \notin q.stale}
        /\ swept' = [swept EXCEPT ![q.user] = [before |-> q.before, keep |-> q.keep]]
        /\ userLock' = Released(userLock, r)
        /\ Moves(r, next)
        /\ UNCHANGED <<challengeVars, stored, nextSession>>
    BY SweptList DEF Sweep, Moves
  <1>3. next.pc = "login" /\ next.kind = "recover" /\ next.user = q.user
    BY DEF Idle
  <1>4. next \in Request
    BY <1>1, IdleFits DEF Request, Kinds
  <1>5. Fits(next)
    BY <1>1, <1>3 DEF Fits
  <1> HIDE DEF next
  <1>6. challengeLock' = Released(challengeLock, r)
    BY <1>1, <1>2, NothingToRelease DEF challengeVars
  <1>7. /\ req' \in [Requests -> Request] /\ RequestOK'
        /\ challengeLock' \in [Challenges -> Requests \union {None}]
        /\ userLock' \in [Users -> Requests \union {None}]
        /\ LocksOK' /\ NoNewDelete /\ NoNewSweep
    BY <1>2, <1>3, <1>4, <1>5, <1>6, Frees
  <1>8. /\ swept' \in [Users -> [before : 1 .. MaxSessions + 1, keep : 0 .. MaxSessions]]
        /\ \A u \in Users : swept'[u] = IF u = q.user THEN [before |-> q.before, keep |-> q.keep]
                                                      ELSE swept[u]
    BY <1>1, <1>2 DEF IInv, TypeOK, Request
  <1>9. TypeOK'
    BY <1>2, <1>7, <1>8 DEF IInv, TypeOK, LocksOK, challengeVars
  <1>10. ChallengeOK' /\ ChallengeSpentOnce'
    BY <1>2, <1>7, ChallengesKept
  <1>11. SweepOK'
    BY <1>2, <1>7 DEF IInv, SweepOK, NoNewSweep
  <1>12. SweptOK'
    BY <1>1, <1>2, <1>8 DEF IInv, SweptOK
  <1>13. SweptSessionsGone'
    <2> SUFFICES ASSUME NEW s \in sessions', s.id < swept'[s.user].before
                 PROVE  s.id = swept'[s.user].keep
      BY DEF SweptSessionsGone
    <2>1. s \in sessions /\ s.id \notin q.stale /\ s.user \in Users
      BY <1>2 DEF IInv, TypeOK, Session
    <2>2. CASE s.user = q.user
      BY <1>1, <1>8, <2>1, <2>2
    <2>3. CASE s.user # q.user
      BY <1>8, <2>1, <2>3 DEF IInv, SweptSessionsGone
    <2> QED
      BY <2>2, <2>3
  <1> QED
    BY <1>7, <1>9, <1>10, <1>11, <1>12, <1>13 DEF IInv

\* A transaction that rolls back: its request starts over or is gone.
LEMMA RollbackKeeps ==
  ASSUME IInv, NEW r \in Requests, NEW q \in Request, Fits(q), Moves(r, q),
         q.pc \notin {"delete", "sweep"},
         challengeLock' = Released(challengeLock, r), userLock' = Released(userLock, r),
         UNCHANGED <<live, nextChallenge, spent, stored, sessionVars>>
  PROVE  IInv'
  <1>1. /\ req' \in [Requests -> Request] /\ RequestOK'
        /\ challengeLock' \in [Challenges -> Requests \union {None}]
        /\ userLock' \in [Users -> Requests \union {None}]
        /\ LocksOK' /\ NoNewDelete /\ NoNewSweep
        /\ \A s \in Requests : req'[s].pc = "delete" =>
              s # r /\ challengeLock'[req[s].challenge] = s
    BY Frees
  <1>2. TypeOK'
    BY <1>1 DEF IInv, TypeOK, LocksOK, sessionVars
  <1>3. ChallengeOK' /\ ChallengeSpentOnce'
    BY <1>1 DEF IInv, ChallengeOK, ChallengeSpentOnce, NoNewDelete
  <1>4. SweepOK' /\ SweptOK' /\ SweptSessionsGone'
    BY <1>1 DEF IInv, SweepOK, SweptOK, SweptSessionsGone, NoNewSweep, sessionVars
  <1> QED
    BY <1>1, <1>2, <1>3, <1>4 DEF IInv

LEMMA SweepFailsKeeps ==
  ASSUME IInv, NEW r \in Requests, SweepFails(r)
  PROVE  IInv'
  <1>1. /\ req[r].pc = "sweep" /\ userLock' = Released(userLock, r)
        /\ UNCHANGED <<challengeVars, stored, sessionVars>>
    BY DEF SweepFails
  <1>2. challengeLock' = Released(challengeLock, r)
    BY <1>1, NothingToRelease DEF challengeVars
  <1>3. CASE Done(r)
    <2>1. Moves(r, Idle)
      BY <1>3 DEF Done, Moves
    <2> QED
      BY <1>1, <1>2, <2>1, IdleFits, RollbackKeeps DEF challengeVars
  <1>4. CASE req[r].tries < MaxTries /\ Goto(r, "scan")
    <2> DEFINE q == [req[r] EXCEPT !.pc = "scan"]
    <2>1. /\ req[r] \in Request /\ req[r].kind = "recover" /\ req[r].user \in Users
          /\ req[r].keep = req[r].mine
      BY <1>1 DEF IInv, TypeOK, RequestOK
    <2>2. Moves(r, q)
      BY <1>4 DEF Goto, Moves
    <2>3. /\ q \in Request /\ q.pc = "scan" /\ q.kind = "recover" /\ q.user = req[r].user
          /\ q.keep = q.mine /\ q.tries = req[r].tries
      BY <2>1 DEF Request
    <2>4. Fits(q)
      BY <1>4, <2>1, <2>3 DEF Fits
    <2> HIDE DEF q
    <2> QED
      BY <1>1, <1>2, <2>2, <2>3, <2>4, RollbackKeeps DEF challengeVars
  <1> QED
    BY <1>3, <1>4 DEF SweepFails

LEMMA AbortKeeps ==
  ASSUME IInv, NEW r \in Requests, Abort(r)
  PROVE  IInv'
  <1>1. Moves(r, Idle)
    BY DEF Abort, Done, Moves
  <1> QED
    BY <1>1, IdleFits, RollbackKeeps DEF Abort
-----------------------------------------------------------------------------
(* No request. *)

\* Steps that touch neither requests nor locks, and of the sessions at most drop some.
LEMMA OtherStepsKeep ==
  ASSUME IInv, UNCHANGED <<challengeVars, userLock, nextSession, swept, req>>,
         stored' \in [Passkeys -> [there : BOOLEAN, count : 0 .. MaxCount]],
         sessions' \subseteq sessions
  PROVE  IInv'
  <1>1. TypeOK'
    BY DEF IInv, TypeOK, challengeVars
  <1>2. ChallengeOK' /\ ChallengeSpentOnce' /\ RequestOK'
    BY DEF IInv, ChallengeOK, ChallengeSpentOnce, RequestOK, challengeVars
  <1>3. SweepOK' /\ SweptOK' /\ SweptSessionsGone'
    BY DEF IInv, SweepOK, SweptOK, SweptSessionsGone
  <1> QED
    BY <1>1, <1>2, <1>3 DEF IInv

LEMMA DeletePasskeyKeeps ==
  ASSUME IInv, NEW p \in Passkeys, DeletePasskey(p)
  PROVE  IInv'
  <1>1. stored' \in [Passkeys -> [there : BOOLEAN, count : 0 .. MaxCount]]
    BY Zeroes DEF DeletePasskey, IInv, TypeOK
  <1> QED
    BY <1>1, OtherStepsKeep DEF DeletePasskey, sessionVars

LEMMA LogoutKeeps ==
  ASSUME IInv, NEW s \in sessions, Logout(s)
  PROVE  IInv'
  <1>1. stored' \in [Passkeys -> [there : BOOLEAN, count : 0 .. MaxCount]]
        /\ sessions' \subseteq sessions
    BY DEF Logout, IInv, TypeOK
  <1> QED
    BY <1>1, OtherStepsKeep DEF Logout, sessionVars
-----------------------------------------------------------------------------
(* The invariant. *)

LEMMA InvariantInit == Init => IInv
  <1> SUFFICES ASSUME Init PROVE IInv
    OBVIOUS
  <1>1. \A r \in Requests : req[r] = Idle
    BY DEF Init
  <1>2. TypeOK
    <2>1. req \in [Requests -> Request]
      BY IdleFits DEF Init
    <2>2. stored \in [Passkeys -> [there : BOOLEAN, count : 0 .. MaxCount]]
      BY Zeroes DEF Init
    <2>3. /\ live \subseteq Challenges /\ nextChallenge \in 1 .. MaxChallenges + 1
          /\ spent \in [Challenges -> Nat] /\ sessions \subseteq Session
          /\ nextSession \in 1 .. MaxSessions + 1
      BY SignInAssumption DEF Init
    <2>4. /\ challengeLock \in [Challenges -> Requests \union {None}]
          /\ userLock \in [Users -> Requests \union {None}]
      BY DEF Init
    <2>5. swept \in [Users -> [before : 1 .. MaxSessions + 1, keep : 0 .. MaxSessions]]
      BY SignInAssumption DEF Init
    <2>6. /\ \A c \in Challenges, r \in Requests : challengeLock[c] # r
          /\ \A u \in Users, r \in Requests : userLock[u] # r
      BY SignInAssumption DEF Init
    <2> QED
      BY <2>1, <2>2, <2>3, <2>4, <2>5, <2>6 DEF TypeOK
  <1>3. RequestOK /\ SweepOK
    BY <1>1, IdleFits DEF RequestOK, SweepOK, Fits, Idle
  <1>4. ChallengeOK /\ ChallengeSpentOnce
    BY <1>1, IdleFits DEF Init, ChallengeOK, ChallengeSpentOnce
  <1>5. SweptOK /\ SweptSessionsGone
    BY DEF Init, SweptOK, SweptSessionsGone
  <1> QED
    BY <1>2, <1>3, <1>4, <1>5 DEF IInv

LEMMA InvariantStep == IInv /\ [Next]_vars => IInv'
  <1> SUFFICES ASSUME IInv, [Next]_vars PROVE IInv'
    OBVIOUS
  <1>1. CASE BeginLogin
    BY <1>1, BeginLoginKeeps
  <1>2. CASE \E c \in Challenges : Expire(c)
    BY <1>2, ExpireKeeps
  <1>3. CASE \E p \in Passkeys : DeletePasskey(p)
    BY <1>3, DeletePasskeyKeeps
  <1>4. CASE \E s \in sessions : Logout(s)
    BY <1>4, LogoutKeeps
  <1>5. ASSUME NEW r \in Requests,
               NEW kind \in Kinds, NEW u \in Users \union {None},
               NEW c \in Challenges, Submit(r, kind, u, c)
        PROVE  IInv'
    BY <1>5, SubmitKeeps
  <1>6. ASSUME NEW r \in Requests,
               ConsumeSelect(r) \/ ConsumeDelete(r) \/ Reject(r) \/ Record(r) \/ Stamp(r)
               \/ Login(r)
        PROVE  IInv'
    BY <1>6, ConsumeSelectKeeps, ConsumeDeleteKeeps, RejectKeeps, RecordKeeps, StampKeeps,
       LoginKeeps
  <1>7. ASSUME NEW r \in Requests, NEW p \in Passkeys, NEW n \in 0 .. MaxCount, Verify(r, p, n)
        PROVE  IInv'
    BY <1>7, VerifyKeeps
  <1>8. ASSUME NEW r \in Requests, NEW u \in Users, Recover(r, u)
        PROVE  IInv'
    BY <1>8, RecoverKeeps
  <1>9. ASSUME NEW r \in Requests,
               Scan(r) \/ Sweep(r) \/ SweepFails(r) \/ RecoverLogin(r) \/ Abort(r)
        PROVE  IInv'
    BY <1>9, ScanKeeps, SweepKeeps, SweepFailsKeeps, RecoverLoginKeeps, AbortKeeps
  <1>10. CASE UNCHANGED vars
    <2>1. stored' \in [Passkeys -> [there : BOOLEAN, count : 0 .. MaxCount]]
          /\ sessions' \subseteq sessions
          /\ UNCHANGED <<challengeVars, userLock, nextSession, swept, req>>
      BY <1>10 DEF vars, sessionVars, IInv, TypeOK
    <2> QED
      BY <2>1, OtherStepsKeep
  <1> QED
    BY <1>1, <1>2, <1>3, <1>4, <1>5, <1>6, <1>7, <1>8, <1>9, <1>10 DEF Next

LEMMA Invariant == Spec => []IInv
  BY InvariantInit, InvariantStep, PTL DEF Spec
-----------------------------------------------------------------------------
(* Whose a key is. *)

\* cycle_key changes the key of one session at most.
LEMMA CycledSession ==
  ASSUME IInv, KeysOK, NEW r \in Requests, NEW u \in Users, Recover(r, u)
  PROVE  sessions' \in {sessions} \union
             {(sessions \ {s}) \union {[id |-> nextSession, user |-> s.user]} : s \in sessions}
  <1>1. PICK own \in {0} \union {s.id : s \in sessions} :
          sessions' = {IF s.id = own THEN [s EXCEPT !.id = nextSession] ELSE s : s \in sessions}
    BY DEF Recover
  <1>2. \A s \in sessions : s = [id |-> s.id, user |-> s.user] /\ s.id \in Nat /\ s.id > 0
    BY SignInAssumption DEF IInv, TypeOK, Session
  <1>3. CASE \E s \in sessions : s.id = own
    <2>1. PICK s \in sessions : s.id = own
      BY <1>3
    <2>2. [s EXCEPT !.id = nextSession] = [id |-> nextSession, user |-> s.user]
      BY <1>2
    <2>3. \A t \in sessions : t.id = own <=> t = s
      BY <2>1 DEF KeysOK
    <2>4. sessions' = (sessions \ {s}) \union {[id |-> nextSession, user |-> s.user]}
      BY <1>1, <2>1, <2>2, <2>3
    <2> QED
      BY <2>1, <2>4
  <1>4. CASE \A s \in sessions : s.id # own
    BY <1>1, <1>4
  <1> QED
    BY <1>3, <1>4

\* At most one session appears, under a key that was never used.
OneNewKey ==
    \/ nextSession' = nextSession /\ sessions' \subseteq sessions
    \/ /\ nextSession' = nextSession + 1
       /\ \E u \in Users : sessions' \subseteq sessions \union {[id |-> nextSession, user |-> u]}

\* No sweep begins, and none grows its list.
NoNewList == NoNewSweep /\ \A r \in Requests : req'[r].stale \subseteq req[r].stale

LEMMA KeysKept ==
  ASSUME IInv, KeysOK, OneNewKey, NoNewList
  PROVE  KeysOK'
  <1>1. nextSession \in Nat /\ sessions \subseteq Session /\ \A s \in sessions : s.id < nextSession
    BY SignInAssumption DEF IInv, TypeOK, SweptOK
  <1>2. \A s \in sessions : s.id \in Nat
    BY <1>1, SignInAssumption DEF Session
  <1>3. \A r \in Requests : \A id \in req[r].stale : id \in Nat /\ id < nextSession
    BY SignInAssumption DEF IInv, TypeOK, Request, KeysOK
  <1>4. CASE nextSession' = nextSession /\ sessions' \subseteq sessions
    BY <1>1, <1>4 DEF KeysOK, NoNewList, NoNewSweep
  <1>5. CASE nextSession' = nextSession + 1
             /\ \E u \in Users : sessions' \subseteq sessions \union {[id |-> nextSession, user |-> u]}
    <2>1. PICK u \in Users : sessions' \subseteq sessions \union {[id |-> nextSession, user |-> u]}
      BY <1>5
    <2>2. \A s, t \in sessions' : s.id = t.id => s = t
      BY <1>1, <1>2, <2>1 DEF KeysOK
    <2>3. \A r \in Requests, s \in sessions' :
             req'[r].pc = "sweep" /\ s.id \in req'[r].stale => s.user = req'[r].user
      BY <1>1, <1>3, <2>1 DEF KeysOK, NoNewList, NoNewSweep
    <2>4. \A r \in Requests : \A id \in req'[r].stale : id < nextSession'
      BY <1>1, <1>3, <1>5 DEF NoNewList
    <2> QED
      BY <2>2, <2>3, <2>4 DEF KeysOK
  <1> QED
    BY <1>4, <1>5 DEF OneNewKey

LEMMA ScanKeepsKeys ==
  ASSUME IInv, KeysOK, NEW r \in Requests, Scan(r)
  PROVE  KeysOK'
  <1> DEFINE list == {s.id : s \in {t \in sessions : t.user = req[r].user}} \ {req[r].keep}
             q == [req[r] EXCEPT !.pc = "sweep", !.stale = list, !.before = nextSession,
                                 !.tries = @ + 1]
  <1>1. /\ sessions' = sessions /\ nextSession' = nextSession
        /\ \A x \in Requests : x # r => req'[x] = req[x]
        /\ req'[r].stale = list /\ req'[r].user = req[r].user
    <2>1. req' = [req EXCEPT ![r].pc = "sweep", ![r].stale = list, ![r].before = nextSession,
                             ![r].tries = @ + 1]
          /\ req[r] \in Request /\ req \in [Requests -> Request]
      BY DEF Scan, IInv, TypeOK
    <2>2. req' = [req EXCEPT ![r] = q]
      BY <2>1
    <2>3. q.stale = list /\ q.user = req[r].user
      BY <2>1 DEF Request
    <2> QED
      BY <2>1, <2>2, <2>3 DEF Scan, sessionVars
  <1>2. \A id \in list : id < nextSession
    BY DEF IInv, SweptOK
  <1>3. \A s \in sessions : s.id \in list => s.user = req[r].user
    BY DEF KeysOK
  <1> HIDE DEF list
  <1> QED
    BY <1>1, <1>2, <1>3 DEF KeysOK

LEMMA WhoListsSessions ==
  ASSUME IInv, [Next]_vars
  PROVE  NoNewList \/ \E r \in Requests : Scan(r)
  <1>1. req \in [Requests -> Request] /\ Idle.pc = "idle" /\ Idle.stale = {}
    BY IdleFits DEF IInv, TypeOK, Idle
  <1>2. ASSUME req' = req PROVE NoNewList
    BY <1>2 DEF NoNewList, NoNewSweep
  <1>3. ASSUME NEW r \in Requests, Done(r) PROVE NoNewList
    BY <1>1, <1>3 DEF Done, NoNewList, NoNewSweep
  <1>4. ASSUME NEW r \in Requests, NEW pc \in {"delete", "login", "scan"}, Goto(r, pc)
        PROVE  NoNewList
    BY <1>1, <1>4 DEF Goto, NoNewList, NoNewSweep, Request
  <1>5. ASSUME NEW r \in Requests, NEW kind \in Kinds, NEW u \in Users \union {None},
               NEW c \in Challenges, Submit(r, kind, u, c)
        PROVE  NoNewList
    BY <1>1, <1>5 DEF Submit, NoNewList, NoNewSweep, Idle
  <1>6. ASSUME NEW r \in Requests, ConsumeDelete(r)
        PROVE  NoNewList
    BY <1>1, <1>6 DEF ConsumeDelete, NoNewList, NoNewSweep, Request
  <1>7. ASSUME NEW r \in Requests, NEW p \in Passkeys, NEW n \in 0 .. MaxCount, Verify(r, p, n)
        PROVE  NoNewList
    BY <1>1, <1>7 DEF Verify, NoNewList, NoNewSweep, Request
  <1>8. ASSUME NEW r \in Requests, Proved(r)
        PROVE  NoNewList
    <2>1. CASE req' = [req EXCEPT ![r].pc = "stamp", ![r].count = 0]
      BY <1>1, <2>1 DEF NoNewList, NoNewSweep, Request
    <2> QED
      BY <1>3, <1>8, <2>1 DEF Proved
  <1>9. ASSUME NEW r \in Requests, NEW u \in Users, Recover(r, u)
        PROVE  NoNewList
    BY <1>1, <1>9 DEF Recover, NoNewList, NoNewSweep, Idle
  <1>10. ASSUME NEW r \in Requests, Sweep(r)
         PROVE  NoNewList
    BY <1>1, <1>10 DEF Sweep, NoNewList, NoNewSweep, Idle
  <1>11. ASSUME NEW r \in Requests,
                ConsumeSelect(r) \/ Reject(r) \/ Record(r) \/ Stamp(r) \/ Login(r)
                \/ SweepFails(r) \/ RecoverLogin(r) \/ Abort(r)
         PROVE  NoNewList
    BY <1>3, <1>4, <1>8, <1>11
       DEF ConsumeSelect, Reject, Record, Stamp, Login, SweepFails, RecoverLogin, Abort
  <1>12. ASSUME \/ BeginLogin
                \/ \E c \in Challenges : Expire(c)
                \/ \E p \in Passkeys : DeletePasskey(p)
                \/ \E s \in sessions : Logout(s)
                \/ UNCHANGED vars
         PROVE  NoNewList
    <2>1. req' = req
      BY <1>12 DEF BeginLogin, Expire, DeletePasskey, Logout, vars
    <2> QED
      BY <1>2, <2>1
  <1>13. ASSUME NEW r \in Requests,
                \/ \E kind \in Kinds, u \in Users \union {None}, c \in Challenges :
                      Submit(r, kind, u, c)
                \/ \E p \in Passkeys, n \in 0 .. MaxCount : Verify(r, p, n)
                \/ \E u \in Users : Recover(r, u)
         PROVE  NoNewList
    BY <1>5, <1>7, <1>9, <1>13
  <1> QED
    BY <1>6, <1>10, <1>11, <1>12, <1>13 DEF Next

LEMMA WhoMakesKeys ==
  ASSUME IInv, KeysOK, [Next]_vars
  PROVE  OneNewKey
  <1>1. ASSUME UNCHANGED <<sessions, nextSession>> PROVE OneNewKey
    BY <1>1 DEF OneNewKey
  <1>2. ASSUME NEW r \in Requests, Login(r) PROVE OneNewKey
    <2>1. OwnerOf[req[r].key] \in Users
      BY <1>2, SignInAssumption DEF Login, IInv, RequestOK
    <2> QED
      BY <1>2, <2>1 DEF Login, OneNewKey
  <1>3. ASSUME NEW r \in Requests, RecoverLogin(r) PROVE OneNewKey
    <2>1. req[r].user \in Users
      BY <1>3 DEF RecoverLogin, IInv, RequestOK
    <2> QED
      BY <1>3, <2>1 DEF RecoverLogin, OneNewKey
  <1>4. ASSUME NEW r \in Requests, NEW u \in Users, Recover(r, u) PROVE OneNewKey
    <2>1. nextSession' = nextSession + 1
      BY <1>4 DEF Recover
    <2>2. CASE sessions' = sessions
      BY <1>4, <2>1, <2>2 DEF OneNewKey
    <2>3. CASE \E s \in sessions :
                  sessions' = (sessions \ {s}) \union {[id |-> nextSession, user |-> s.user]}
      BY <2>1, <2>3 DEF OneNewKey, IInv, TypeOK, Session
    <2> QED
      BY <1>4, <2>2, <2>3, CycledSession
  <1>5. ASSUME NEW r \in Requests, Sweep(r) PROVE OneNewKey
    BY <1>5 DEF Sweep, OneNewKey
  <1>6. ASSUME NEW s \in sessions, Logout(s) PROVE OneNewKey
    BY <1>6 DEF Logout, OneNewKey
  <1>7. ASSUME NEW r \in Requests,
               ConsumeSelect(r) \/ ConsumeDelete(r) \/ Reject(r) \/ Record(r) \/ Stamp(r)
               \/ Scan(r) \/ SweepFails(r) \/ Abort(r)
        PROVE  OneNewKey
    BY <1>1, <1>7 DEF ConsumeSelect, ConsumeDelete, Reject, Record, Stamp, Scan, SweepFails,
                      Abort, sessionVars
  <1>8. ASSUME NEW r \in Requests,
               \/ \E kind \in Kinds, u \in Users \union {None}, c \in Challenges :
                     Submit(r, kind, u, c)
               \/ \E p \in Passkeys, n \in 0 .. MaxCount : Verify(r, p, n)
        PROVE  OneNewKey
    BY <1>1, <1>8 DEF Submit, Verify, sessionVars
  <1>9. ASSUME BeginLogin \/ (\E c \in Challenges : Expire(c))
               \/ (\E p \in Passkeys : DeletePasskey(p)) \/ UNCHANGED vars
        PROVE  OneNewKey
    BY <1>1, <1>9 DEF BeginLogin, Expire, DeletePasskey, vars, sessionVars
  <1> QED
    BY <1>2, <1>3, <1>4, <1>5, <1>6, <1>7, <1>8, <1>9 DEF Next

LEMMA KeysInvariant == Spec => []KeysOK
  <1>1. Init => KeysOK
    BY DEF Init, KeysOK, Idle
  <1>2. IInv /\ KeysOK /\ [Next]_vars => KeysOK'
    BY KeysKept, ScanKeepsKeys, WhoListsSessions, WhoMakesKeys
  <1> QED
    BY <1>1, <1>2, Invariant, PTL DEF Spec
-----------------------------------------------------------------------------
(* Each step is a step of PasskeyUse, or none of it. *)

\* What PasskeyUse sees of a request that moves.
LEMMA SeenMove ==
  ASSUME NEW r \in Requests, \A x \in Requests \ {r} : req'[x] = req[x]
  PROVE  /\ Entitled' = [Entitled EXCEPT ![r] = EntitledTo(req'[r])]
         /\ Proving' = IF req'[r].pc \in {"verify", "record"} THEN Proving \union {r}
                                                              ELSE Proving \ {r}
         /\ r \in Proving <=> req[r].pc \in {"verify", "record"}
         /\ Entitled[r] = EntitledTo(req[r])
  <1>1. \A x \in Requests : Entitled'[x] = EntitledTo(req'[x]) /\ Entitled[x] = EntitledTo(req[x])
    BY DEF Entitled
  <1>2. Entitled' = [x \in Requests |-> Entitled'[x]]
    BY DEF Entitled
  <1>3. [Entitled EXCEPT ![r] = EntitledTo(req'[r])]
           = [x \in Requests |-> IF x = r THEN EntitledTo(req'[r]) ELSE Entitled[x]]
    BY DEF Entitled
  <1>4. Entitled' = [Entitled EXCEPT ![r] = EntitledTo(req'[r])]
    BY <1>1, <1>2, <1>3
  <1>5. /\ Proving' = IF req'[r].pc \in {"verify", "record"} THEN Proving \union {r}
                                                             ELSE Proving \ {r}
        /\ r \in Proving <=> req[r].pc \in {"verify", "record"}
    BY DEF Proving
  <1> QED
    BY <1>1, <1>4, <1>5

\* A request PasskeyUse has nothing of, before or after.
Unseen(q) == q.pc \notin {"verify", "record", "stamp", "login"}

LEMMA UnseenMove ==
  ASSUME NEW r \in Requests, \A x \in Requests \ {r} : req'[x] = req[x],
         Unseen(req[r]), Unseen(req'[r])
  PROVE  UNCHANGED <<Entitled, Proving>>
  <1>1. EntitledTo(req[r]) = None /\ EntitledTo(req'[r]) = None
    BY DEF Unseen, EntitledTo
  <1>2. Entitled' = [Entitled EXCEPT ![r] = None] /\ Entitled[r] = None
    BY <1>1, SeenMove
  <1>3. Entitled' = Entitled
    BY <1>2 DEF Entitled
  <1>4. r \notin Proving /\ Proving' = Proving \ {r}
    BY SeenMove DEF Unseen
  <1> QED
    BY <1>3, <1>4

LEMMA GivenUp ==
  ASSUME IInv, NEW r \in Requests, Done(r),
         UNCHANGED <<live, nextChallenge, stored, sessions, nextSession>>
  PROVE  Use!GiveUp(r)
  <1>1. req \in [Requests -> Request] /\ Idle.pc = "idle"
    BY IdleFits DEF IInv, TypeOK
  <1>2. req'[r] = Idle /\ \A x \in Requests \ {r} : req'[x] = req[x]
    BY <1>1 DEF Done
  <1>3. Proving' = Proving \ {r} /\ Entitled' = [Entitled EXCEPT ![r] = None]
    BY <1>1, <1>2, SeenMove DEF EntitledTo
  <1>4. Phase' = Phase
    BY DEF Phase
  <1> QED
    BY <1>3, <1>4 DEF Use!GiveUp

\* No challenge of PasskeyUse that was live was unissued.
LEMMA LiveIssued ==
  ASSUME IInv
  PROVE  \A c \in live : c \in Challenges /\ c < nextChallenge
  <1>1. nextChallenge \in Nat /\ live \subseteq Challenges /\ Challenges \subseteq Nat
    BY SignInAssumption DEF IInv, TypeOK, Challenges
  <1>2. \A c \in live : ~(c >= nextChallenge)
    BY <1>1 DEF IInv, ChallengeOK
  <1> QED
    BY <1>1, <1>2

LEMMA PhaseTurns ==
  ASSUME NEW c \in Challenges, NEW from, NEW to, Phase[c] = from,
         \A d \in Challenges : Phase'[d] = IF d = c THEN to ELSE Phase[d]
  PROVE  Use!Turns(c, from, to)
  <1>1. Phase' = [d \in Challenges |-> Phase'[d]] /\ Phase = [d \in Challenges |-> Phase[d]]
    BY DEF Phase
  <1>2. Phase' = [Phase EXCEPT ![c] = to]
    BY <1>1
  <1> QED
    BY <1>2 DEF Use!Turns

LEMMA IssuesChallenge ==
  ASSUME IInv, BeginLogin
  PROVE  \E c \in Challenges : Use!Issue(c)
  <1> DEFINE c == nextChallenge
  <1>1. /\ c \in Challenges /\ c \in Nat /\ Challenges \subseteq Nat
        /\ live' = live \union {c} /\ nextChallenge' = c + 1
        /\ UNCHANGED <<stored, sessions, nextSession, req>>
    BY SignInAssumption DEF BeginLogin, IInv, TypeOK, Challenges, sessionVars
  <1>2. Phase[c] = "unissued"
    BY <1>1 DEF Phase
  <1>3. \A d \in Challenges : Phase'[d] = IF d = c THEN "live" ELSE Phase[d]
    BY <1>1 DEF Phase
  <1>4. Use!Turns(c, "unissued", "live")
    BY <1>1, <1>2, <1>3, PhaseTurns
  <1>5. UNCHANGED <<Proving, Entitled>>
    BY <1>1 DEF Proving, Entitled
  <1> QED
    BY <1>1, <1>4, <1>5 DEF Use!Issue

\* A live challenge that goes.
LEMMA ChallengeGoes ==
  ASSUME IInv, NEW c \in live, live' = live \ {c}, nextChallenge' = nextChallenge
  PROVE  c \in Challenges /\ Use!Turns(c, "live", "gone")
  <1>1. c \in Challenges /\ ~(c >= nextChallenge)
    <2>1. c \in Challenges /\ c < nextChallenge /\ c \in Nat /\ nextChallenge \in Nat
      BY LiveIssued, SignInAssumption DEF IInv, TypeOK, Challenges
    <2> QED
      BY <2>1
  <1>2. Phase[c] = "live"
    BY <1>1 DEF Phase
  <1>3. \A d \in Challenges : Phase'[d] = IF d = c THEN "gone" ELSE Phase[d]
    BY <1>1 DEF Phase
  <1> QED
    BY <1>1, <1>2, <1>3, PhaseTurns

LEMMA ExpiryLapses ==
  ASSUME IInv, NEW c \in Challenges, Expire(c)
  PROVE  Use!Lapse(c)
  <1>1. Use!Turns(c, "live", "gone")
    BY ChallengeGoes DEF Expire
  <1>2. UNCHANGED <<Proving, Entitled, stored, sessions, nextSession>>
    BY DEF Expire, Proving, Entitled, sessionVars
  <1> QED
    BY <1>1, <1>2 DEF Use!Lapse

LEMMA ConsumeSpends ==
  ASSUME IInv, NEW r \in Requests, ConsumeDelete(r)
  PROVE  \E c \in Challenges : Use!Spend(r, c)
  <1> DEFINE c == req[r].challenge
  <1>1. /\ req[r].pc = "delete" /\ c \in live /\ live' = live \ {c}
        /\ UNCHANGED <<nextChallenge, stored, sessions, nextSession>>
    BY DEF ConsumeDelete, IInv, ChallengeOK, sessionVars
  <1>2. c \in Challenges /\ Use!Turns(c, "live", "gone")
    BY <1>1, ChallengeGoes
  <1>3. req'[r].pc = "verify" /\ \A x \in Requests \ {r} : req'[x] = req[x]
    BY DEF ConsumeDelete, IInv, TypeOK, Request
  <1>4. EntitledTo(req[r]) = None /\ EntitledTo(req'[r]) = None
    BY <1>1, <1>3 DEF EntitledTo
  <1>5. /\ Entitled[r] = None /\ r \notin Proving
        /\ Entitled' = [Entitled EXCEPT ![r] = None] /\ Proving' = Proving \union {r}
    BY <1>1, <1>3, <1>4, SeenMove
  <1>6. Entitled' = Entitled
    BY <1>5 DEF Entitled
  <1> QED
    BY <1>1, <1>2, <1>5, <1>6 DEF Use!Spend

LEMMA RecordProves ==
  ASSUME IInv, NEW r \in Requests, Record(r)
  PROVE  Use!GiveUp(r) \/ \E p \in Passkeys : Use!Prove(r, p)
  <1> DEFINE p == req[r].key
             n == NewCount(stored[p].count, req[r].count)
  <1>1. /\ req[r].pc = "record" /\ p \in Passkeys /\ req[r].kind # "recover"
        /\ stored \in [Passkeys -> [there : BOOLEAN, count : 0 .. MaxCount]]
        /\ req[r] \in Request /\ req \in [Requests -> Request]
        /\ UNCHANGED <<live, nextChallenge, sessions, nextSession>>
    BY Updated, Asserts DEF IInv, TypeOK, challengeVars, sessionVars
  <1>2. Phase' = Phase
    BY <1>1 DEF Phase
  <1>3. CASE ~stored[p].there
    BY <1>1, <1>3, GivenUp DEF Record
  <1>4. CASE stored[p].there
    <2>1. stored' = [stored EXCEPT ![p].count = NewCount(@, req[r].count)] /\ Proved(r)
      BY <1>4 DEF Record
    <2>2. n \in stored[p].count .. MaxCount
      BY <1>1, SignInAssumption DEF NewCount, Request
    <2>3. stored' = [stored EXCEPT ![p].count = n]
      BY <1>1, <2>1
    <2>4. /\ req'[r].pc \in {"idle", "stamp"} /\ \A x \in Requests \ {r} : req'[x] = req[x]
          /\ req'[r].pc = "stamp" => req'[r].kind = req[r].kind /\ req'[r].key = p
      <3>1. CASE Done(r)
        BY <1>1, <3>1, IdleFits DEF Done
      <3>2. CASE req' = [req EXCEPT ![r].pc = "stamp", ![r].count = 0]
        BY <1>1, <3>2 DEF Request
      <3> QED
        BY <2>1, <3>1, <3>2 DEF Proved
    <2>5. r \in Proving /\ Proving' = Proving \ {r} /\ Entitled[r] = None
      BY <1>1, <2>4, SeenMove DEF EntitledTo
    <2>6. Entitled' \in {Entitled, [Entitled EXCEPT ![r] = OwnerOf[p]]}
      <3>1. CASE req'[r].pc = "stamp"
        BY <1>1, <2>4, <3>1, SeenMove DEF EntitledTo
      <3>2. CASE req'[r].pc = "idle"
        <4>1. Entitled' = [Entitled EXCEPT ![r] = None]
          BY <2>4, <3>2, SeenMove DEF EntitledTo
        <4> QED
          BY <2>5, <4>1 DEF Entitled
      <3> QED
        BY <2>4, <3>1, <3>2
    <2> HIDE DEF n
    <2>7. Use!Prove(r, p)
      BY <1>1, <1>2, <1>4, <2>2, <2>3, <2>5, <2>6 DEF Use!Prove
    <2> QED
      BY <1>1, <2>7
  <1> QED
    BY <1>3, <1>4

\* last_login changes nothing PasskeyUse tells apart.
LEMMA StampUnseen ==
  ASSUME IInv, NEW r \in Requests, Stamp(r)
  PROVE  UNCHANGED <<Entitled, Proving>>
  <1>1. /\ req[r].pc = "stamp" /\ req'[r].pc = "login" /\ req'[r].kind = req[r].kind
        /\ req'[r].user = req[r].user /\ req'[r].key = req[r].key
        /\ \A x \in Requests \ {r} : req'[x] = req[x]
    BY DEF Stamp, Goto, IInv, TypeOK, Request
  <1>2. EntitledTo(req'[r]) = EntitledTo(req[r])
    BY <1>1 DEF EntitledTo
  <1>3. Entitled' = [Entitled EXCEPT ![r] = Entitled[r]] /\ Proving' = Proving \ {r}
        /\ r \notin Proving
    BY <1>1, <1>2, SeenMove
  <1> QED
    BY <1>3 DEF Entitled

LEMMA LoginSignsIn ==
  ASSUME IInv, KeysOK, NEW r \in Requests, Login(r) \/ RecoverLogin(r)
  PROVE  Use!SignIn(r)
  <1> DEFINE u == EntitledTo(req[r])
  <1>1. req[r].pc = "login" /\ Done(r) /\ nextSession' = nextSession + 1
        /\ UNCHANGED <<live, nextChallenge, stored>>
    BY DEF Login, RecoverLogin, challengeVars
  <1>2. u \in Users /\ \E old \in {{}} \union {{s} : s \in sessions} :
           sessions' = (sessions \ old) \union {[id |-> nextSession, user |-> u]}
    <2>1. CASE Login(r)
      <3>1. req[r].key \in Passkeys /\ u = OwnerOf[req[r].key]
        BY <1>1, <2>1 DEF Login, EntitledTo, IInv, RequestOK
      <3>2. sessions' = (sessions \ {}) \union {[id |-> nextSession, user |-> u]}
        BY <2>1, <3>1 DEF Login
      <3> HIDE DEF u
      <3> QED
        BY <3>1, <3>2, SignInAssumption
    <2>2. CASE RecoverLogin(r)
      <3> DEFINE own == {s \in sessions : s.id = req[r].mine}
      <3>1. u = req[r].user /\ u \in Users
        BY <1>1, <2>2 DEF RecoverLogin, EntitledTo, IInv, RequestOK
      <3>2. sessions' = (sessions \ own) \union {[id |-> nextSession, user |-> u]}
        BY <2>2, <3>1 DEF RecoverLogin
      <3>3. own \in {{}} \union {{s} : s \in sessions}
        BY DEF KeysOK
      <3> HIDE DEF u, own
      <3> QED
        BY <3>1, <3>2, <3>3
    <2> QED
      BY <2>1, <2>2
  <1>3. Phase' = Phase
    BY <1>1 DEF Phase
  <1>4. req'[r] = Idle /\ \A x \in Requests \ {r} : req'[x] = req[x]
    BY <1>1 DEF Done, IInv, TypeOK
  <1>5. Entitled[r] = u /\ Entitled' = [Entitled EXCEPT ![r] = None] /\ Proving' = Proving
    BY <1>1, <1>4, IdleFits, SeenMove DEF EntitledTo
  <1>6. Entitled[r] # None
    BY <1>2, <1>5, SignInAssumption
  <1> HIDE DEF u
  <1> QED
    BY <1>1, <1>2, <1>3, <1>5, <1>6 DEF Use!SignIn

LEMMA RecoveryCycles ==
  ASSUME IInv, KeysOK, NEW r \in Requests, NEW u \in Users, Recover(r, u)
  PROVE  Use!Cycle
  <1>1. /\ req[r] = Idle /\ req'[r].pc = "scan" /\ \A x \in Requests \ {r} : req'[x] = req[x]
        /\ nextSession' = nextSession + 1 /\ UNCHANGED <<live, nextChallenge, stored>>
    BY DEF Recover, IInv, TypeOK, Idle, challengeVars
  <1>2. Unseen(req[r]) /\ Unseen(req'[r])
    BY <1>1, IdleFits DEF Unseen
  <1>3. UNCHANGED <<Entitled, Proving>>
    BY <1>1, <1>2, UnseenMove
  <1>4. Phase' = Phase
    BY <1>1 DEF Phase
  <1> QED
    BY <1>1, <1>3, <1>4, CycledSession DEF Use!Cycle

LEMMA SweepRecovers ==
  ASSUME IInv, KeysOK, NEW r \in Requests, Sweep(r)
  PROVE  \E u \in Users : Use!Recover(r, u)
  <1> DEFINE u == req[r].user
  <1>1. /\ req[r].pc = "sweep" /\ u \in Users
        /\ UNCHANGED <<live, nextChallenge, stored, nextSession>>
    BY DEF Sweep, IInv, RequestOK, challengeVars
  <1>2. sessions' = {s \in sessions : s.id \notin req[r].stale}
    BY SweptList
  <1>3. sessions' \subseteq sessions /\ \A s \in sessions \ sessions' : s.user = u
    BY <1>1, <1>2 DEF KeysOK
  <1>4. /\ req'[r].pc = "login" /\ req'[r].kind = "recover" /\ req'[r].user = u
        /\ \A x \in Requests \ {r} : req'[x] = req[x]
    BY DEF Sweep, IInv, TypeOK, Idle
  <1>5. /\ r \notin Proving /\ Entitled[r] = None
        /\ Entitled' = [Entitled EXCEPT ![r] = u] /\ Proving' = Proving
    BY <1>1, <1>4, SeenMove DEF EntitledTo
  <1>6. Phase' = Phase
    BY <1>1 DEF Phase
  <1> HIDE DEF u
  <1> QED
    BY <1>1, <1>3, <1>5, <1>6 DEF Use!Recover

LEMMA DeletionDeletes ==
  ASSUME IInv, NEW p \in Passkeys, DeletePasskey(p)
  PROVE  Use!Delete(p)
  BY DEF DeletePasskey, Use!Delete, Phase, Proving, Entitled, challengeVars, sessionVars

LEMMA LogoutLogsOut ==
  ASSUME IInv, NEW s \in sessions, Logout(s)
  PROVE  Use!Logout(s)
  BY DEF Logout, Use!Logout, Phase, Proving, Entitled, challengeVars

\* The statements between.
LEMMA UnseenSteps ==
  ASSUME IInv, NEW r \in Requests,
         \/ \E kind \in Kinds, u \in Users \union {None}, c \in Challenges : Submit(r, kind, u, c)
         \/ ConsumeSelect(r) \/ Scan(r) \/ SweepFails(r)
  PROVE  UNCHANGED Use!vars
  <1>1. UNCHANGED <<live, nextChallenge, stored, sessions, nextSession>>
    BY DEF Submit, ConsumeSelect, Scan, SweepFails, challengeVars, sessionVars
  <1>2. req \in [Requests -> Request] /\ Idle.pc = "idle"
    BY IdleFits DEF IInv, TypeOK
  <1>3. /\ req[r].pc \in {"idle", "select", "scan", "sweep"}
        /\ req'[r].pc \in {"idle", "select", "delete", "scan", "sweep"}
        /\ \A x \in Requests \ {r} : req'[x] = req[x]
    <2>1. ASSUME NEW kind \in Kinds, NEW u \in Users \union {None}, NEW c \in Challenges,
                 Submit(r, kind, u, c)
          PROVE  /\ req[r].pc = "idle" /\ req'[r].pc = "select"
                 /\ \A x \in Requests \ {r} : req'[x] = req[x]
      BY <1>2, <2>1 DEF Submit, Idle
    <2>2. ASSUME ConsumeSelect(r)
          PROVE  /\ req[r].pc = "select" /\ req'[r].pc \in {"idle", "delete"}
                 /\ \A x \in Requests \ {r} : req'[x] = req[x]
      BY <1>2, <2>2 DEF ConsumeSelect, Goto, Done, Request
    <2>3. ASSUME Scan(r)
          PROVE  /\ req[r].pc = "scan" /\ req'[r].pc = "sweep"
                 /\ \A x \in Requests \ {r} : req'[x] = req[x]
      BY <1>2, <2>3 DEF Scan, Request
    <2>4. ASSUME SweepFails(r)
          PROVE  /\ req[r].pc = "sweep" /\ req'[r].pc \in {"idle", "scan"}
                 /\ \A x \in Requests \ {r} : req'[x] = req[x]
      BY <1>2, <2>4 DEF SweepFails, Goto, Done, Request
    <2> QED
      BY <2>1, <2>2, <2>3, <2>4
  <1>4. UNCHANGED <<Entitled, Proving>>
    BY <1>3, UnseenMove DEF Unseen
  <1>5. Phase' = Phase
    BY <1>1 DEF Phase
  <1> QED
    BY <1>1, <1>4, <1>5 DEF Use!vars

LEMMA VerifyUnseen ==
  ASSUME IInv, NEW r \in Requests, NEW p \in Passkeys, NEW n \in 0 .. MaxCount, Verify(r, p, n)
  PROVE  UNCHANGED Use!vars
  <1>1. /\ req[r].pc = "verify" /\ req'[r].pc = "record"
        /\ \A x \in Requests \ {r} : req'[x] = req[x]
        /\ UNCHANGED <<live, nextChallenge, stored, sessions, nextSession>>
    BY DEF Verify, IInv, TypeOK, Request, challengeVars, sessionVars
  <1>2. EntitledTo(req[r]) = None /\ EntitledTo(req'[r]) = None
    BY <1>1 DEF EntitledTo
  <1>3. /\ r \in Proving /\ Proving' = Proving \union {r}
        /\ Entitled[r] = None /\ Entitled' = [Entitled EXCEPT ![r] = None]
    BY <1>1, <1>2, SeenMove
  <1>4. UNCHANGED <<Entitled, Proving, Phase>>
    BY <1>1, <1>3 DEF Entitled, Phase
  <1> QED
    BY <1>1, <1>4 DEF Use!vars

LEMMA UseStep == IInv /\ KeysOK /\ [Next]_vars => [Use!Next]_(Use!vars)
  <1> SUFFICES ASSUME IInv, KeysOK, [Next]_vars PROVE [Use!Next]_(Use!vars)
    OBVIOUS
  <1>1. CASE BeginLogin
    BY <1>1, IssuesChallenge DEF Use!Next
  <1>2. ASSUME NEW c \in Challenges, Expire(c)
        PROVE  Use!Next
    BY <1>2, ExpiryLapses DEF Use!Next
  <1>3. ASSUME NEW p \in Passkeys, DeletePasskey(p)
        PROVE  Use!Next
    BY <1>3, DeletionDeletes DEF Use!Next
  <1>4. ASSUME NEW s \in sessions, Logout(s)
        PROVE  Use!Next
    BY <1>4, LogoutLogsOut DEF Use!Next
  <1>5. ASSUME NEW r \in Requests, ConsumeDelete(r)
        PROVE  Use!Next
    BY <1>5, ConsumeSpends DEF Use!Next
  <1>6. ASSUME NEW r \in Requests, Reject(r) \/ Abort(r)
        PROVE  Use!Next
    <2>1. Use!GiveUp(r)
      BY <1>6, GivenUp DEF Reject, Abort, challengeVars, sessionVars
    <2> QED
      BY <2>1 DEF Use!Next
  <1>7. ASSUME NEW r \in Requests, Record(r)
        PROVE  Use!Next
    BY <1>7, RecordProves DEF Use!Next
  <1>8. ASSUME NEW r \in Requests, Stamp(r)
        PROVE  UNCHANGED Use!vars
    <2>1. UNCHANGED <<Phase, stored, sessions, nextSession>>
      BY <1>8 DEF Stamp, Phase, challengeVars, sessionVars
    <2> QED
      BY <1>8, <2>1, StampUnseen DEF Use!vars
  <1>9. ASSUME NEW r \in Requests, Login(r) \/ RecoverLogin(r)
        PROVE  Use!Next
    BY <1>9, LoginSignsIn DEF Use!Next
  <1>10. ASSUME NEW r \in Requests, NEW u \in Users, Recover(r, u)
         PROVE  Use!Next
    BY <1>10, RecoveryCycles DEF Use!Next
  <1>11. ASSUME NEW r \in Requests, Sweep(r)
         PROVE  Use!Next
    BY <1>11, SweepRecovers DEF Use!Next
  <1>12. CASE UNCHANGED vars
    BY <1>12 DEF vars, challengeVars, sessionVars, Use!vars, Phase, Proving, Entitled
  <1> QED
    BY <1>1, <1>2, <1>3, <1>4, <1>5, <1>6, <1>7, <1>8, <1>9, <1>10, <1>11, <1>12, UnseenSteps,
       VerifyUnseen DEF Next
-----------------------------------------------------------------------------
(* Who takes which step. *)

\* stored changes only in the conditional update and in a deletion.
LEMMA WhoWritesPasskeys ==
  ASSUME [Next]_vars
  PROVE  \/ stored' = stored
         \/ \E p \in Passkeys : DeletePasskey(p)
         \/ \E r \in Requests : Record(r)
  BY DEF Next, vars, BeginLogin, Expire, Logout, Submit, ConsumeSelect, ConsumeDelete, Verify,
         Reject, Stamp, Login, Recover, Scan, Sweep, SweepFails, RecoverLogin, Abort

\* A sign-in reaches last_login only by the update, a sweep its login only by its commit.
LEMMA WhoMoves ==
  ASSUME IInv, [Next]_vars, NEW r \in Requests
  PROVE  /\ req[r].pc # "stamp" /\ req'[r].pc = "stamp" => Record(r)
         /\ req[r].pc = "sweep" /\ req'[r].pc = "login" => Sweep(r)
  <1> DEFINE Goal == /\ req[r].pc # "stamp" /\ req'[r].pc = "stamp" => Record(r)
                     /\ req[r].pc = "sweep" /\ req'[r].pc = "login" => Sweep(r)
  <1>1. req \in [Requests -> Request] /\ Idle.pc = "idle"
    BY IdleFits DEF IInv, TypeOK
  <1>2. ASSUME req' = req
        PROVE  Goal
    BY <1>2
  <1>3. ASSUME NEW s \in Requests, Done(s)
        PROVE  Goal
    BY <1>1, <1>3 DEF Done
  <1>4. ASSUME NEW s \in Requests, NEW pc \in {"delete", "scan"}, Goto(s, pc)
        PROVE  Goal
    BY <1>1, <1>4 DEF Goto, Request
  <1>5. ASSUME NEW s \in Requests, NEW kind \in Kinds,
               NEW u \in Users \union {None}, NEW c \in Challenges,
               Submit(s, kind, u, c)
        PROVE  Goal
    BY <1>1, <1>5 DEF Submit, Idle
  <1>6. ASSUME NEW s \in Requests, ConsumeSelect(s)
        PROVE  Goal
    BY <1>3, <1>4, <1>6 DEF ConsumeSelect
  <1>7. ASSUME NEW s \in Requests, ConsumeDelete(s)
        PROVE  Goal
    BY <1>1, <1>7 DEF ConsumeDelete, Request
  <1>8. ASSUME NEW s \in Requests, NEW p \in Passkeys, NEW n \in 0 .. MaxCount, Verify(s, p, n)
        PROVE  Goal
    BY <1>1, <1>8 DEF Verify, Request
  <1>9. ASSUME NEW s \in Requests, Record(s)
        PROVE  Goal
    <2>1. CASE s = r
      BY <1>1, <1>9, <2>1 DEF Record
    <2>2. CASE s # r
      <3>1. req'[r] = req[r]
        BY <1>1, <1>9, <2>2 DEF Record, Proved, Done
      <3> QED
        BY <3>1
    <2> QED
      BY <2>1, <2>2
  <1>10. ASSUME NEW s \in Requests, Stamp(s)
         PROVE  Goal
    BY <1>1, <1>10 DEF Stamp, Goto, Request
  <1>11. ASSUME NEW s \in Requests, NEW u \in Users, Recover(s, u)
         PROVE  Goal
    BY <1>1, <1>11 DEF Recover, Idle
  <1>12. ASSUME NEW s \in Requests, Scan(s)
         PROVE  Goal
    BY <1>1, <1>12 DEF Scan, Request
  <1>13. ASSUME NEW s \in Requests, Sweep(s)
         PROVE  Goal
    BY <1>1, <1>13 DEF Sweep, Idle
  <1>14. ASSUME NEW s \in Requests, SweepFails(s)
         PROVE  Goal
    BY <1>3, <1>4, <1>14 DEF SweepFails
  <1>15. ASSUME NEW s \in Requests,
                Reject(s) \/ Login(s) \/ RecoverLogin(s) \/ Abort(s)
         PROVE  Goal
    BY <1>3, <1>15 DEF Reject, Login, RecoverLogin, Abort
  <1>16. ASSUME \/ BeginLogin
                \/ \E c \in Challenges : Expire(c)
                \/ \E p \in Passkeys : DeletePasskey(p)
                \/ \E s \in sessions : Logout(s)
                \/ UNCHANGED vars
         PROVE  Goal
    <2>1. req' = req
      BY <1>16 DEF BeginLogin, Expire, DeletePasskey, Logout, vars
    <2> QED
      BY <1>2, <2>1
  <1> HIDE DEF Goal
  <1>17. ASSUME NEW s \in Requests,
                ConsumeSelect(s) \/ ConsumeDelete(s) \/ Reject(s) \/ Record(s) \/ Stamp(s)
                \/ Login(s) \/ Scan(s) \/ Sweep(s) \/ SweepFails(s) \/ RecoverLogin(s)
                \/ Abort(s)
         PROVE  Goal
    BY <1>6, <1>7, <1>9, <1>10, <1>12, <1>13, <1>14, <1>15, <1>17
  <1>18. ASSUME NEW s \in Requests,
                \/ \E kind \in Kinds, u \in Users \union {None},
                      c \in Challenges : Submit(s, kind, u, c)
                \/ \E p \in Passkeys, n \in 0 .. MaxCount : Verify(s, p, n)
                \/ \E u \in Users : Recover(s, u)
         PROVE  Goal
    BY <1>5, <1>8, <1>11, <1>18
  <1>19. Goal
    BY <1>16, <1>17, <1>18 DEF Next
  <1> QED
    BY <1>19 DEF Goal
-----------------------------------------------------------------------------
(* The theorems. *)

\* Every variable keeps its kind of value, and a row is locked only by a request inside
\* its transaction.
THEOREM SignInTyped == Spec => []TypeOK
  BY Invariant, PTL DEF IInv

\* A challenge is accepted once, however many requests post it at once.
THEOREM OneAnswerPerChallenge == Spec => []ChallengeSpentOnce
  BY Invariant, PTL DEF IInv

\* A recovery leaves its user no session that was there when it swept, but its own.
THEOREM SweepIsComplete == Spec => []SweptSessionsGone
  BY Invariant, PTL DEF IInv

\* However many assertions of a passkey race, its signature counter never goes back.
THEOREM CounterOnlyRises == Spec => CounterNeverFalls
  <1>1. IInv /\ [Next]_vars =>
           [\A p \in Passkeys : stored[p].there /\ stored[p].there'
                                   => stored[p].count <= stored[p].count']_vars
    <2> SUFFICES ASSUME IInv, [Next]_vars, NEW p \in Passkeys,
                        stored[p].there, stored'[p].there
                 PROVE  stored[p].count <= stored'[p].count
      OBVIOUS
    <2>1. /\ stored \in [Passkeys -> [there : BOOLEAN, count : 0 .. MaxCount]]
          /\ stored[p].count \in Nat
      BY SignInAssumption DEF IInv, TypeOK
    <2>2. CASE stored' = stored
      BY <2>1, <2>2
    <2>3. ASSUME NEW k \in Passkeys, DeletePasskey(k)
          PROVE  stored[p].count <= stored'[p].count
      BY <2>1, <2>3 DEF DeletePasskey
    <2>4. ASSUME NEW r \in Requests, Record(r)
          PROVE  stored[p].count <= stored'[p].count
      BY <2>4, Updated
    <2> QED
      BY <2>2, <2>3, <2>4, WhoWritesPasskeys
  <1> QED
    BY <1>1, Invariant, PTL DEF Spec, CounterNeverFalls

\* A step-up that is about to write is its account's own: it never writes another's counter.
THEOREM StepUpStaysHome == Spec => StepUpTouchesOwn
  <1>1. IInv =>
           [\A p \in Passkeys, r \in Requests :
               /\ req[r].pc = "record" /\ req[r].kind = "stepup" /\ req[r].key = p
               /\ req[r].pc' # "record"
               /\ stored[p].count' > stored[p].count
               => req[r].user = OwnerOf[p]]_vars
    BY DEF IInv, RequestOK, OwnerOk
  <1> QED
    BY <1>1, Invariant, PTL DEF Spec, StepUpTouchesOwn

\* A sign-in goes on only while the passkey it verified is still there.
THEOREM NoSignInWithoutPasskey == Spec => DeletedSignsNobodyIn
  <1>1. IInv /\ [Next]_vars =>
           [\A r \in Requests :
               req[r].pc # "stamp" /\ req[r].pc' = "stamp" => stored[req[r].key].there]_vars
    <2> SUFFICES ASSUME IInv, [Next]_vars, NEW r \in Requests,
                        req[r].pc # "stamp", req'[r].pc = "stamp"
                 PROVE  stored[req[r].key].there
      OBVIOUS
    <2>1. Record(r)
      BY WhoMoves
    <2>2. ~Done(r)
      BY IdleFits DEF Done, IInv, TypeOK
    <2> QED
      BY <2>1, <2>2, Updated
  <1> QED
    BY <1>1, Invariant, PTL DEF Spec, DeletedSignsNobodyIn

\* The session of the browser that recovers survives the sweep, in whatever chunks it goes.
THEOREM RecovererKept == Spec => RecovererStaysIn
  <1>1. IInv /\ [Next]_vars =>
           [\A r \in Requests :
               req[r].kind = "recover" /\ req[r].pc = "sweep" /\ req[r].pc' = "login"
                  => \A s \in sessions : s.id = req[r].mine => s \in sessions']_vars
    <2> SUFFICES ASSUME IInv, [Next]_vars, NEW r \in Requests, NEW s \in sessions,
                        req[r].pc = "sweep", req'[r].pc = "login", s.id = req[r].mine
                 PROVE  s \in sessions'
      OBVIOUS
    <2>1. Sweep(r)
      BY WhoMoves
    <2>2. req[r].keep = req[r].mine /\ req[r].keep \notin req[r].stale
      BY DEF IInv, RequestOK, SweepOK
    <2>3. sessions' = {t \in sessions : t.id \notin req[r].stale}
      BY <2>1, SweptList
    <2> QED
      BY <2>2, <2>3
  <1> QED
    BY <1>1, Invariant, PTL DEF Spec, RecovererStaysIn

\* Whatever requests race, wait, retry or die, what happens to passkeys, challenges and
\* sessions is what PasskeyUse allows.
THEOREM SignInRefinesUse == Spec => ImplementsPasskeyUse
  <1>1. Init => Use!Init
    <2> SUFFICES ASSUME Init PROVE Use!Init
      OBVIOUS
    <2>1. \A r \in Requests : req[r].pc = "idle"
      BY IdleFits DEF Init
    <2>2. Proving = {} /\ Entitled = [r \in Requests |-> None]
      BY <2>1 DEF Proving, Entitled, EntitledTo
    <2>3. Phase = [c \in Challenges |-> "unissued"]
      BY SignInAssumption DEF Init, Phase, Challenges
    <2> QED
      BY <2>2, <2>3 DEF Init, Use!Init
  <1> QED
    BY <1>1, Invariant, KeysInvariant, UseStep, PTL DEF Spec, ImplementsPasskeyUse, Use!Spec
=============================================================================
