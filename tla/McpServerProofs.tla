----------------------------- MODULE McpServerProofs -----------------------------
(***************************************************************************)
(* What McpServer's run checks on a few tokens and calls, for any number   *)
(* of them, any time-to-live and any size of the cache.                    *)
(***************************************************************************)
EXTENDS McpServer, FiniteSetTheorems, TLAPS

USE DEF Never, Key

LEMMA InvariantInit == Init => IInv
  <1> SUFFICES ASSUME Init PROVE IInv
    OBVIOUS
  <1>1. TypeOK
    BY McpAssumption DEF Init, TypeOK, NoCall, Call
  <1>2. HttpOK /\ StdioOK
    BY McpAssumption DEF Init, HttpOK, StdioOK, NoCall
  <1>3. IsFiniteSet(cache) /\ CacheBounded
    BY McpAssumption, FS_EmptySet DEF Init, CacheBounded
  <1>4. RevocationDelay /\ CallHealsItself
    BY DEF Init, RevocationDelay, CallHealsItself, NoCall
  <1> QED
    BY <1>1, <1>2, <1>3, <1>4 DEF IInv
-----------------------------------------------------------------------------
(* Steps that do not touch the calls. *)

LEMMA TickKeeps ==
  ASSUME IInv, Tick
  PROVE  IInv'
  <1>1. TypeOK'
    BY McpAssumption DEF IInv, TypeOK, Tick, config, stdio
  <1>2. HttpOK' /\ StdioOK'
    BY McpAssumption DEF IInv, TypeOK, HttpOK, StdioOK, Tick, config, stdio, Call
  <1>3. (IsFiniteSet(cache) /\ RevocationDelay /\ CacheBounded /\ CallHealsItself)'
    BY DEF IInv, RevocationDelay, CacheBounded, CallHealsItself, Tick, config, stdio
  <1> QED
    BY <1>1, <1>2, <1>3 DEF IInv

LEMMA RevokeBearerKeeps ==
  ASSUME IInv, NEW t \in Tokens, RevokeBearer(t)
  PROVE  IInv'
  <1>1. TypeOK'
    BY McpAssumption DEF IInv, TypeOK, RevokeBearer, config, stdio
  <1>2. HttpOK' /\ StdioOK'
    BY McpAssumption
    DEF IInv, TypeOK, HttpOK, StdioOK, RevokeBearer, config, stdio, Call, Valid
  <1>3. RevocationDelay'
    BY McpAssumption
    DEF IInv, TypeOK, HttpOK, RevocationDelay, RevokeBearer, config, stdio, Call, Valid
  <1>4. (IsFiniteSet(cache) /\ CacheBounded /\ CallHealsItself)'
    BY DEF IInv, CacheBounded, CallHealsItself, RevokeBearer, config, stdio
  <1> QED
    BY <1>1, <1>2, <1>3, <1>4 DEF IInv

\* A revocation is counted, and a login elsewhere needs one: what StdioOK says of a
\* call's key survives both.
LEMMA KeyKeeps ==
  ASSUME IInv, RevokeKey \/ LoginElsewhere
  PROVE  IInv'
  <1>1. TypeOK'
    BY McpAssumption DEF IInv, TypeOK, RevokeKey, LoginElsewhere, config, http
  <1>2. HttpOK' /\ RevocationDelay' /\ CacheBounded' /\ IsFiniteSet(cache)'
    BY DEF IInv, HttpOK, RevocationDelay, CacheBounded, RevokeKey, LoginElsewhere,
           config, http
  <1>3. StdioOK' /\ CallHealsItself'
    BY McpAssumption
    DEF IInv, TypeOK, StdioOK, CallHealsItself, RevokeKey, LoginElsewhere, config, http, Call
  <1> QED
    BY <1>1, <1>2, <1>3 DEF IInv
-----------------------------------------------------------------------------
(* Steps of one call. *)

\* What IInv says of one call.
CallOK(q) ==
    /\ q \in Call
    /\ q.pc \in {"write", "get"} => q.key # 0
    /\ q.started <= clock
    /\ q.pc \in {"asked", "active", "accepted"} => transport = "http" /\ q.token \in Tokens
    /\ q.pc = "active" => q.started <= revokedAt[q.token]
    /\ q.since <= revocations
    /\ q.pc = "write" \/ (q.pc = "get" /\ q.retried /\ ~explicit) =>
          q.key = key \/ q.since < revocations
    /\ q.pc = "accepted" => revokedAt[q.token] + TTL > q.started
    /\ transport = "stdio" /\ q.pc = "unauthorized" => explicit \/ revocations > q.since

\* A step that gives one call an acceptable value and leaves the rest alone.
LEMMA OneCallKeeps ==
  ASSUME IInv, NEW c \in Calls, NEW q, CallOK(q),
         call' = [call EXCEPT ![c] = q], UNCHANGED <<config, http, stdio>>
  PROVE  IInv'
  <1> USE DEF config, http, stdio
  <1>1. call \in [Calls -> Call] /\ q \in Call
    BY DEF IInv, TypeOK, CallOK
  <1>2. \A d \in Calls : call'[d] = IF d = c THEN q ELSE call[d]
    BY <1>1
  <1>3. TypeOK'
    <2>1. call' \in [Calls -> Call]
      BY <1>1
    <2>2. \A d \in Calls : call'[d].pc \in {"write", "get"} => call'[d].key # 0
      BY <1>2 DEF IInv, TypeOK, CallOK
    <2> QED
      BY <2>1, <2>2 DEF IInv, TypeOK
  <1>4. HttpOK'
    BY <1>2 DEF IInv, HttpOK, CallOK
  <1>5. StdioOK'
    BY <1>2 DEF IInv, StdioOK, CallOK
  <1>6. RevocationDelay' /\ CallHealsItself'
    BY <1>2 DEF IInv, RevocationDelay, CallHealsItself, CallOK
  <1>7. CacheBounded' /\ IsFiniteSet(cache)'
    BY DEF IInv, CacheBounded
  <1> QED
    BY <1>3, <1>4, <1>5, <1>6, <1>7 DEF IInv

LEMMA CallsAreOK ==
  ASSUME IInv, NEW c \in Calls
  PROVE  CallOK(call[c])
  BY DEF IInv, TypeOK, HttpOK, StdioOK, RevocationDelay, CallHealsItself, CallOK

LEMMA NoCallIsOK ==
  ASSUME IInv
  PROVE  CallOK(NoCall)
  BY McpAssumption DEF IInv, TypeOK, NoCall, CallOK, Call

\* A call that only moves on to a step which promises nothing.
LEMMA GotoKeeps ==
  ASSUME IInv, NEW c \in Calls, NEW pc \in {"failed", "data", "unauthorized"}, Goto(c, pc),
         pc = "unauthorized" => transport = "http" \/ explicit \/ revocations > call[c].since,
         transport \in {"stdio", "http"}, UNCHANGED <<config, http, stdio>>
  PROVE  IInv'
  <1> DEFINE q == [call[c] EXCEPT !.pc = pc]
  <1>1. CallOK(call[c])
    BY CallsAreOK
  <1>2. CallOK(q)
    BY <1>1 DEF CallOK, Call
  <1>3. call' = [call EXCEPT ![c] = q]
    BY DEF Goto
  <1> QED
    BY <1>2, <1>3, OneCallKeeps

LEMMA EndsKeeps ==
  ASSUME IInv, NEW c \in Calls, Ends(c), UNCHANGED <<config, http, stdio>>
  PROVE  IInv'
  BY NoCallIsOK, OneCallKeeps DEF Ends

LEMMA VerifyTokenKeeps ==
  ASSUME IInv, NEW c \in Calls, NEW t \in Tokens, VerifyToken(c, t)
  PROVE  IInv'
  <1> DEFINE hit == \E e \in cache : e.token = t /\ Fresh(e)
             q == [NoCall EXCEPT !.pc = IF hit THEN "accepted" ELSE "asked",
                                 !.token = t, !.started = clock]
  <1>1. q.pc \in {"accepted", "asked"} /\ q.token = t /\ q.started = clock
        /\ q.since = 0 /\ ~q.retried
    BY DEF NoCall
  <1>2. q \in Call
    <2>1. clock \in 0 .. MaxTime /\ 0 \in Key /\ 0 \in 0 .. MaxTime
      BY McpAssumption DEF IInv, TypeOK
    <2> HIDE DEF hit
    <2>2. CASE hit
      BY <2>1, <2>2 DEF NoCall, Call
    <2>3. CASE ~hit
      BY <2>1, <2>3 DEF NoCall, Call
    <2> QED
      BY <2>2, <2>3
  <1>3. hit => revokedAt[t] + TTL > clock
    BY McpAssumption DEF IInv, TypeOK, HttpOK, Fresh
  <1>4. q.pc = "accepted" => hit
    BY DEF NoCall
  <1>5. CallOK(q)
    BY <1>1, <1>2, <1>3, <1>4 DEF IInv, TypeOK, VerifyToken, CallOK
  <1>6. call' = [call EXCEPT ![c] = q] /\ UNCHANGED <<config, http, stdio>>
    BY DEF VerifyToken
  <1> QED
    BY <1>5, <1>6, OneCallKeeps

\* Django looked after the call began: a token that was good then was good at the start.
LEMMA ActiveKeeps ==
  ASSUME IInv, NEW c \in Calls, Active(c)
  PROVE  IInv'
  <1> DEFINE q == [call[c] EXCEPT !.pc = "active"]
  <1>1. CallOK(call[c]) /\ call[c].pc = "asked" /\ revokedAt[call[c].token] = MaxTime + 1
    BY CallsAreOK DEF Active, Valid
  <1>2. CallOK(q)
    BY <1>1, McpAssumption DEF CallOK, Call
  <1>3. call' = [call EXCEPT ![c] = q] /\ UNCHANGED <<config, http, stdio>>
    BY DEF Active, Goto
  <1> QED
    BY <1>2, <1>3, OneCallKeeps

LEMMA FillKeeps ==
  ASSUME IInv, NEW c \in Calls, Fill(c)
  PROVE  IInv'
  <1> USE DEF config, stdio
  <1> DEFINE t == call[c].token
             old == IF Full THEN {} ELSE cache
             kept == {e \in old : e.token # t}
             new == [token |-> t, until |-> Until(c)]
             q == [call[c] EXCEPT !.pc = "accepted"]
  <1>1. CallOK(call[c]) /\ call[c].pc = "active"
    BY CallsAreOK DEF Fill
  <1>2. t \in Tokens /\ call[c].started \in Nat /\ call[c].started <= clock
        /\ call[c].started <= revokedAt[t]
    BY <1>1, McpAssumption DEF CallOK, Call
  <1>3. cache' = kept \union {new} /\ call' = [call EXCEPT ![c] = q]
        /\ UNCHANGED <<clock, revokedAt, config, stdio>>
    BY DEF Fill, Goto
  <1>4. revokedAt[t] \in Nat /\ clock \in Nat
    BY <1>2, McpAssumption DEF IInv, TypeOK
  <1>5. CallOK(q)
    BY <1>1, <1>2, <1>4, McpAssumption DEF CallOK, Call
  <1>6. \A d \in Calls : call'[d] = IF d = c THEN q ELSE call[d]
    BY <1>3 DEF IInv, TypeOK
  <1>7. call' \in [Calls -> Call]
    BY <1>3, <1>5 DEF IInv, TypeOK, CallOK
  <1>8. new \in [token : Tokens, until : Nat] /\ new.token = t
        /\ new.until = call[c].started + TTL
    BY <1>2, McpAssumption DEF Until
  <1>9. kept \subseteq cache
    OBVIOUS
  <1>10. TypeOK'
    <2>1. cache' \subseteq [token : Tokens, until : Nat]
      BY <1>3, <1>8, <1>9 DEF IInv, TypeOK
    <2>2. \A d, e \in cache' : d.token = e.token => d = e
      BY <1>3, <1>8, <1>9 DEF IInv, TypeOK
    <2>3. \A d \in Calls : call'[d].pc \in {"write", "get"} => call'[d].key # 0
      BY <1>5, <1>6 DEF IInv, TypeOK, CallOK
    <2> QED
      BY <1>3, <1>7, <2>1, <2>2, <2>3 DEF IInv, TypeOK
  <1>11. HttpOK'
    <2>1. \A e \in cache' : e.until <= clock + TTL /\ e.until <= revokedAt[e.token] + TTL
      BY <1>2, <1>3, <1>4, <1>8, <1>9, McpAssumption DEF IInv, HttpOK
    <2> QED
      BY <1>3, <1>5, <1>6, <2>1 DEF IInv, HttpOK, CallOK
  <1>12. StdioOK' /\ RevocationDelay' /\ CallHealsItself'
    BY <1>3, <1>5, <1>6
    DEF IInv, StdioOK, RevocationDelay, CallHealsItself, CallOK
  <1>13. IsFiniteSet(cache') /\ Cardinality(cache') <= MaxEntries
    <2>1. IsFiniteSet(old) /\ Cardinality(old) \in Nat /\ Cardinality(old) < MaxEntries
      BY McpAssumption, FS_EmptySet, FS_CardinalityType DEF IInv, CacheBounded, Full
    <2>2. IsFiniteSet(kept) /\ Cardinality(kept) <= Cardinality(old)
          /\ Cardinality(kept) \in Nat
      BY <2>1, FS_Subset, FS_CardinalityType
    <2>3. IsFiniteSet(cache') /\ Cardinality(cache') <= Cardinality(kept) + 1
      <3>1. IsFiniteSet(kept \union {new})
            /\ Cardinality(kept \union {new}) =
                 IF new \in kept THEN Cardinality(kept) ELSE Cardinality(kept) + 1
        BY <2>2, FS_AddElement
      <3> QED
        BY <1>3, <2>2, <3>1
    <2>4. Cardinality(cache') \in Nat
      BY <2>3, FS_CardinalityType
    <2> QED
      BY <2>1, <2>2, <2>3, <2>4, McpAssumption
  <1> QED
    BY <1>10, <1>11, <1>12, <1>13 DEF IInv, CacheBounded

LEMMA TakeTokenKeeps ==
  ASSUME IInv, NEW c \in Calls, TakeToken(c)
  PROVE  IInv'
  <1>1. PICK k \in IF explicit THEN {1} ELSE {file} :
           call' = [call EXCEPT ![c] =
                       [NoCall EXCEPT !.pc = IF NeedsLogin(k) THEN "mint" ELSE "get",
                                      !.key = k, !.since = revocations]]
    BY DEF TakeToken
  <1> DEFINE q(pc) == [NoCall EXCEPT !.pc = pc, !.key = k, !.since = revocations]
  <1>2. k \in Key /\ revocations \in Nat /\ clock \in 0 .. MaxTime /\ 0 \in 0 .. MaxTime
    BY McpAssumption DEF IInv, TypeOK
  <1>3. CallOK(q("mint")) /\ (k # 0 => CallOK(q("get")))
    <2>1. q("mint") \in Call /\ q("get") \in Call
      BY <1>2 DEF NoCall, Call
    <2>2. \A pc \in {"mint", "get"} :
             q(pc).pc = pc /\ q(pc).key = k /\ q(pc).started = 0 /\ ~q(pc).retried
             /\ q(pc).since = revocations
      BY DEF NoCall
    <2> QED
      BY <1>2, <2>1, <2>2 DEF CallOK
  <1>4. UNCHANGED <<config, http, stdio>>
    BY DEF TakeToken
  <1>5. CASE k = 0
    <2>1. call' = [call EXCEPT ![c] = q("mint")]
      BY <1>1, <1>5 DEF NeedsLogin
    <2> QED
      BY <1>3, <1>4, <2>1, OneCallKeeps
  <1>6. CASE k # 0
    <2>1. call' = [call EXCEPT ![c] = q("get")]
      BY <1>1, <1>6 DEF NeedsLogin
    <2> QED
      BY <1>3, <1>4, <1>6, <2>1, OneCallKeeps
  <1> QED
    BY <1>5, <1>6

\* A login finds the account's token or makes it one; either is what the call takes.
LEMMA MintKeeps ==
  ASSUME IInv, NEW c \in Calls, Mint(c)
  PROVE  IInv'
  <1> USE DEF config, http
  <1> DEFINE q == [call[c] EXCEPT !.pc = "write", !.key = LoginKey]
  <1>1. CallOK(call[c]) /\ call[c].pc = "mint"
    BY CallsAreOK DEF Mint
  <1>2. call' = [call EXCEPT ![c] = q] /\ LoginKey \in Key /\ key' = LoginKey /\ file' = 0
        /\ keys' = (IF key = 0 THEN keys + 1 ELSE keys)
        /\ UNCHANGED <<config, http, revocations>>
    BY DEF Mint
  <1>3. LoginKey # 0 /\ (key # 0 => LoginKey = key)
    BY DEF LoginKey, IInv, TypeOK
  <1>4. q \in Call /\ q.pc = "write" /\ q.key = LoginKey /\ q.since = call[c].since
        /\ q.started = call[c].started
    BY <1>1, <1>2 DEF CallOK, Call
  <1>5. \A d \in Calls : call'[d] = IF d = c THEN q ELSE call[d]
    BY <1>2 DEF IInv, TypeOK
  <1>6. TypeOK'
    <2>1. call' \in [Calls -> Call]
      BY <1>2, <1>4 DEF IInv, TypeOK
    <2>2. \A d \in Calls : call'[d].pc \in {"write", "get"} => call'[d].key # 0
      BY <1>3, <1>4, <1>5 DEF IInv, TypeOK
    <2>3. key' \in Key /\ keys' \in Nat /\ file' \in Key
      BY <1>2, McpAssumption DEF IInv, TypeOK
    <2> QED
      BY <1>2, <2>1, <2>2, <2>3 DEF IInv, TypeOK
  <1>7. HttpOK' /\ RevocationDelay'
    BY <1>1, <1>2, <1>4, <1>5 DEF IInv, HttpOK, RevocationDelay, CallOK
  <1>8. StdioOK' /\ CallHealsItself'
    <2>1. ASSUME NEW d \in Calls, d # c,
                 call[d].pc = "write" \/ (call[d].pc = "get" /\ call[d].retried /\ ~explicit)
          PROVE  call[d].key = LoginKey \/ call[d].since < revocations
      BY <1>3, <2>1 DEF IInv, TypeOK, StdioOK
    <2> QED
      BY <1>1, <1>2, <1>4, <1>5, <2>1 DEF IInv, StdioOK, CallHealsItself, CallOK
  <1>9. CacheBounded' /\ IsFiniteSet(cache)'
    BY <1>2 DEF IInv, CacheBounded
  <1> QED
    BY <1>6, <1>7, <1>8, <1>9 DEF IInv

LEMMA WriteFileKeeps ==
  ASSUME IInv, NEW c \in Calls, WriteFile(c)
  PROVE  IInv'
  <1> USE DEF config, http
  <1> DEFINE q == [call[c] EXCEPT !.pc = "get"]
  <1>1. CallOK(call[c]) /\ call[c].pc = "write"
    BY CallsAreOK DEF WriteFile
  <1>2. CallOK(q)
    BY <1>1 DEF CallOK, Call
  <1>3. call' = [call EXCEPT ![c] = q] /\ file' = call[c].key
        /\ UNCHANGED <<config, http, key, keys, revocations>>
    BY DEF WriteFile, Goto
  <1>4. \A d \in Calls : call'[d] = IF d = c THEN q ELSE call[d]
    BY <1>3 DEF IInv, TypeOK
  <1>5. TypeOK'
    <2>1. call' \in [Calls -> Call] /\ file' \in Key
      BY <1>1, <1>2, <1>3 DEF IInv, TypeOK, CallOK, Call
    <2>2. \A d \in Calls : call'[d].pc \in {"write", "get"} => call'[d].key # 0
      BY <1>2, <1>4 DEF IInv, TypeOK, CallOK
    <2> QED
      BY <1>3, <2>1, <2>2 DEF IInv, TypeOK
  <1>6. (HttpOK /\ StdioOK /\ RevocationDelay /\ CallHealsItself)'
    BY <1>2, <1>3, <1>4
    DEF IInv, HttpOK, StdioOK, RevocationDelay, CallHealsItself, CallOK
  <1>7. CacheBounded' /\ IsFiniteSet(cache)'
    BY <1>3 DEF IInv, CacheBounded
  <1> QED
    BY <1>5, <1>6, <1>7 DEF IInv

\* A refusal after the retry means a revocation since the call began, or a token that
\* no login can replace.
LEMMA ContentOverStdioKeeps ==
  ASSUME IInv, NEW c \in Calls, ContentOverStdio(c)
  PROVE  IInv'
  <1>1. CallOK(call[c]) /\ call[c].pc = "get" /\ UNCHANGED <<config, http, stdio>>
    BY CallsAreOK DEF ContentOverStdio
  <1>2. transport \in {"stdio", "http"}
    BY DEF IInv, TypeOK
  <1>3. CASE Goto(c, "data")
    BY <1>1, <1>2, <1>3, GotoKeeps
  <1>4. CASE call[c].key # key /\ call[c].retried /\ Goto(c, "unauthorized")
    <2>1. explicit \/ revocations > call[c].since
      BY <1>1, <1>4 DEF CallOK, Call, IInv, TypeOK
    <2> QED
      BY <1>1, <1>2, <1>4, <2>1, GotoKeeps
  <1>5. CASE Refresh(c)
    <2> DEFINE q == [call[c] EXCEPT !.pc = IF explicit THEN "get" ELSE "mint",
                                    !.retried = TRUE]
    <2>1. CallOK(q)
      BY <1>1 DEF CallOK, Call, IInv, TypeOK
    <2>2. call' = [call EXCEPT ![c] = q]
      BY <1>5 DEF Refresh
    <2> QED
      BY <1>1, <2>1, <2>2, OneCallKeeps
  <1> QED
    BY <1>3, <1>4, <1>5 DEF ContentOverStdio
-----------------------------------------------------------------------------
(* The theorems. *)

LEMMA InvariantStep == IInv /\ [Next]_vars => IInv'
  <1> SUFFICES ASSUME IInv, [Next]_vars PROVE IInv'
    OBVIOUS
  <1>1. CASE UNCHANGED vars
    BY <1>1
    DEF IInv, TypeOK, HttpOK, StdioOK, RevocationDelay, CacheBounded, CallHealsItself,
        vars, config, http, stdio
  <1>2. CASE Tick \/ RevokeKey \/ LoginElsewhere
    BY <1>2, TickKeeps, KeyKeeps
  <1>3. CASE \E t \in Tokens : RevokeBearer(t)
    BY <1>3, RevokeBearerKeeps
  <1>4. ASSUME NEW c \in Calls,
               \/ \E t \in Tokens : VerifyToken(c, t)
               \/ Active(c) \/ Fill(c) \/ TakeToken(c) \/ Mint(c) \/ WriteFile(c)
               \/ ContentOverStdio(c)
        PROVE  IInv'
    BY <1>4, VerifyTokenKeeps, ActiveKeeps, FillKeeps, TakeTokenKeeps, MintKeeps,
       WriteFileKeeps, ContentOverStdioKeeps
  <1>5. ASSUME NEW c \in Calls, NotVerified(c) \/ Deliver(c) \/ Crash(c)
        PROVE  IInv'
    BY <1>5, EndsKeeps DEF NotVerified, Deliver, Crash
  <1>6. ASSUME NEW c \in Calls, ContentOverHttp(c) \/ MintFails(c) \/ ContentFails(c)
        PROVE  IInv'
    <2>1. transport \in {"stdio", "http"}
      BY DEF IInv, TypeOK
    <2>2. call[c].pc = "accepted" => transport = "http"
      BY DEF IInv, HttpOK
    <2> QED
      BY <1>6, <2>1, <2>2, GotoKeeps DEF ContentOverHttp, MintFails, ContentFails
  <1> QED
    BY <1>1, <1>2, <1>3, <1>4, <1>5, <1>6 DEF Next

LEMMA Invariant == Spec => []IInv
  BY InvariantInit, InvariantStep, PTL DEF Spec

\* Every variable of the MCP server keeps its type, the cache has one entry per token,
\* and no call over stdio goes out without a token.
THEOREM McpTyped == Spec => []TypeOK
  <1>1. IInv => TypeOK
    BY DEF IInv
  <1> QED
    BY <1>1, Invariant, PTL

\* verifier.py accepts no token that was revoked CACHE_TTL_SECONDS or more before the
\* request, however answers and evictions interleave.
THEOREM RevocationsAreSeen == Spec => []RevocationDelay
  <1>1. IInv => RevocationDelay
    BY DEF IInv
  <1> QED
    BY <1>1, Invariant, PTL

\* The verifier's cache never holds more than CACHE_MAX_ENTRIES entries.
THEOREM CacheNeverOverflows == Spec => []CacheBounded
  <1>1. IInv => CacheBounded
    BY DEF IInv
  <1> QED
    BY <1>1, Invariant, PTL

\* client.py's one retry is enough: a call over stdio is refused only for an explicit
\* token or one revoked while the call was under way.
THEOREM OneRetryHeals == Spec => []CallHealsItself
  <1>1. IInv => CallHealsItself
    BY DEF IInv
  <1> QED
    BY <1>1, Invariant, PTL
=============================================================================
