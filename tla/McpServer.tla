-------------------------------- MODULE McpServer --------------------------------
(***************************************************************************)
(* How the MCP server gets a credential for Django's content API           *)
(* (src/mcp_server).  Over http a caller brings a bearer token, which      *)
(* DjangoTokenVerifier checks with Django or finds in its cache            *)
(* (verifier.py).  Over stdio each server process takes the account's      *)
(* token from a file it shares with the others, or logs in, and repeats a  *)
(* refused call once with a fresh login (auth.py, client.py).              *)
(***************************************************************************)
EXTENDS Naturals, FiniteSets

CONSTANTS Tokens,   \* OAuth bearer tokens
          Calls,    \* tool calls under way, over stdio each in a process of its own
          None,
          TTL,      \* CACHE_TTL_SECONDS
          MaxEntries, \* CACHE_MAX_ENTRIES
          MaxTime,  \* bound: the clock
          MaxKeys   \* bound: keys the account's token ever has

ASSUME McpAssumption ==
    /\ None \notin Tokens
    /\ TTL \in Nat \ {0} /\ MaxEntries \in Nat \ {0}
    /\ MaxTime \in Nat /\ MaxKeys \in Nat \ {0}

VARIABLES
    transport,  \* load_config's transport, for good
    explicit,   \* ETIPITAKA_TOKEN is set, for good
    clock,      \* time.monotonic()
    revokedAt,  \* when each bearer token was revoked; MaxTime + 1 is never
    cache,      \* the verifier's _cache
    key,        \* the account's token at Django; 0: none
    keys,       \* keys given out so far
    file,       \* the token file: 0 when missing, empty or just truncated
    revocations, \* history: how often the account's token was revoked
    call

config == <<transport, explicit>>
http == <<clock, revokedAt, cache>>
stdio == <<key, keys, file, revocations>>
vars == <<config, http, stdio, call>>

Never == MaxTime + 1
Key == 0 .. MaxKeys
NoCall == [pc |-> "idle", token |-> None, started |-> 0, key |-> 0, retried |-> FALSE,
           since |-> 0]

\* An explicit token is a key the account had once, or has.
Init ==
    /\ transport \in {"stdio", "http"}
    /\ explicit \in BOOLEAN
    /\ clock = 0
    /\ revokedAt = [t \in Tokens |-> Never]
    /\ cache = {}
    /\ key \in {0, 1}
    /\ keys = 1
    /\ file \in {0, 1}
    /\ revocations = 0
    /\ call = [c \in Calls |-> NoCall]

Goto(c, pc) == call' = [call EXCEPT ![c].pc = pc]
Ends(c) == call' = [call EXCEPT ![c] = NoCall]
-----------------------------------------------------------------------------
(* http: verify_token. *)

Valid(t) == revokedAt[t] = Never

Tick ==
    /\ transport = "http"
    /\ clock < MaxTime
    /\ clock' = clock + 1
    /\ UNCHANGED <<config, revokedAt, cache, stdio, call>>

RevokeBearer(t) ==
    /\ transport = "http"
    /\ Valid(t)
    /\ revokedAt' = [revokedAt EXCEPT ![t] = clock]
    /\ UNCHANGED <<config, clock, cache, stdio, call>>

Fresh(e) == e.until > clock

\* The clock is read and the cache looked up; without a hit Django is asked.
VerifyToken(c, t) ==
    /\ transport = "http"
    /\ call[c] = NoCall
    /\ call' = [call EXCEPT ![c] =
                   [NoCall EXCEPT !.pc = IF \E e \in cache : e.token = t /\ Fresh(e)
                                         THEN "accepted" ELSE "asked",
                                  !.token = t, !.started = clock]]
    /\ UNCHANGED <<config, http, stdio>>

\* Django looks at the token; "active" is on its way back.
Active(c) ==
    /\ call[c].pc = "asked"
    /\ Valid(call[c].token)
    /\ Goto(c, "active")
    /\ UNCHANGED <<config, http, stdio>>

\* 401, any other status, a malformed body or no answer: nothing is stored.
NotVerified(c) ==
    /\ call[c].pc \in {"asked", "active"}
    /\ Ends(c)
    /\ UNCHANGED <<config, http, stdio>>

Full == Cardinality(cache) >= MaxEntries

Until_FromAnswer(c) == clock + TTL
\* now, as read before the request.
Until(c) == call[c].started + TTL

\* The answer arrives: a full cache is cleared, the entry stored.
Fill(c) ==
    LET t == call[c].token IN
    /\ call[c].pc = "active"
    /\ cache' = {e \in (IF Full THEN {} ELSE cache) : e.token # t}
                \union {[token |-> t, until |-> Until(c)]}
    /\ Goto(c, "accepted")
    /\ UNCHANGED <<config, clock, revokedAt, stdio>>

\* The tool calls the content API with the same bearer; a refusal is not retried.
ContentOverHttp(c) ==
    /\ call[c].pc = "accepted"
    /\ Goto(c, IF Valid(call[c].token) THEN "data" ELSE "unauthorized")
    /\ UNCHANGED <<config, http, stdio>>
-----------------------------------------------------------------------------
(* stdio: Authenticator.token and ContentClient._get. *)

\* The account's token is deleted: a logout, a reset, a recovery.
RevokeKey ==
    /\ transport = "stdio"
    /\ key # 0
    /\ key' = 0
    /\ revocations' = revocations + 1
    /\ UNCHANGED <<config, http, keys, file, call>>

\* rest_login: get_or_create; the key it makes or finds.
LoginKey == IF key # 0 THEN key ELSE keys + 1

\* A login elsewhere makes the account a token.
LoginElsewhere ==
    /\ transport = "stdio"
    /\ key = 0 /\ keys < MaxKeys
    /\ key' = keys + 1
    /\ keys' = keys + 1
    /\ UNCHANGED <<config, http, file, revocations, call>>

NeedsLogin_NoFile(k) == FALSE
\* A file that is missing, or read while another process rewrites it, holds no token.
NeedsLogin(k) == k = 0

\* token(): an explicit token wins, else the file's, else a login is needed.
TakeToken(c) ==
    /\ transport = "stdio"
    /\ call[c] = NoCall
    /\ \E k \in IF explicit THEN {1} ELSE {file} :
          call' = [call EXCEPT ![c] =
                      [NoCall EXCEPT !.pc = IF NeedsLogin(k) THEN "mint" ELSE "get",
                                     !.key = k, !.since = revocations]]
    /\ UNCHANGED <<config, http, stdio>>

\* _mint, then write_text truncates the file.
Mint(c) ==
    /\ call[c].pc = "mint"
    /\ LoginKey \in Key
    /\ key' = LoginKey
    /\ keys' = IF key = 0 THEN keys + 1 ELSE keys
    /\ file' = 0
    /\ call' = [call EXCEPT ![c].pc = "write", ![c].key = LoginKey]
    /\ UNCHANGED <<config, http, revocations>>

\* AuthError: no credentials, a refused login, a lost connection.
MintFails(c) ==
    /\ call[c].pc = "mint"
    /\ Goto(c, "failed")
    /\ UNCHANGED <<config, http, stdio>>

\* The rest of write_text; another process may have minted meanwhile.
WriteFile(c) ==
    /\ call[c].pc = "write"
    /\ file' = call[c].key
    /\ Goto(c, "get")
    /\ UNCHANGED <<config, http, key, keys, revocations>>

Refresh_FromFile(c) ==
    call' = [call EXCEPT ![c].pc = IF explicit \/ file # 0 THEN "get" ELSE "mint",
                         ![c].key = IF explicit THEN @ ELSE file, ![c].retried = TRUE]
\* token(refresh=True): the file is not asked again.
Refresh(c) ==
    call' = [call EXCEPT ![c].pc = IF explicit THEN "get" ELSE "mint", ![c].retried = TRUE]

\* The GET; the first 401 refreshes and repeats, the second is the caller's.
ContentOverStdio(c) ==
    /\ call[c].pc = "get"
    /\ IF call[c].key = key THEN Goto(c, "data")
       ELSE IF call[c].retried THEN Goto(c, "unauthorized")
       ELSE Refresh(c)
    /\ UNCHANGED <<config, http, stdio>>

\* Any other failure of the GET.
ContentFails(c) ==
    /\ call[c].pc \in {"get", "accepted"}
    /\ Goto(c, "failed")
    /\ UNCHANGED <<config, http, stdio>>

\* The tool's result or error is delivered; the process is ready for another call.
Deliver(c) ==
    /\ call[c].pc \in {"data", "unauthorized", "failed"}
    /\ Ends(c)
    /\ UNCHANGED <<config, http, stdio>>

\* The process dies, perhaps between truncating its file and writing it.
Crash(c) ==
    /\ transport = "stdio"
    /\ call[c] # NoCall
    /\ Ends(c)
    /\ UNCHANGED <<config, http, stdio>>

Next ==
    \/ Tick
    \/ \E t \in Tokens : RevokeBearer(t)
    \/ RevokeKey \/ LoginElsewhere
    \/ \E c \in Calls :
          \/ \E t \in Tokens : VerifyToken(c, t)
          \/ Active(c) \/ NotVerified(c) \/ Fill(c) \/ ContentOverHttp(c)
          \/ TakeToken(c) \/ Mint(c) \/ MintFails(c) \/ WriteFile(c)
          \/ ContentOverStdio(c) \/ ContentFails(c) \/ Deliver(c) \/ Crash(c)

Spec == Init /\ [][Next]_vars
-----------------------------------------------------------------------------
(* Properties. *)

Call == [pc : {"idle", "asked", "active", "accepted", "mint", "write", "get", "data",
               "unauthorized", "failed"},
         token : Tokens \union {None}, started : 0 .. MaxTime, key : Key,
         retried : BOOLEAN, since : Nat]

\* Every variable holds a value of its kind, the cache one entry per token, and no
\* call over stdio goes out without a token.
TypeOK ==
    /\ transport \in {"stdio", "http"}
    /\ explicit \in BOOLEAN
    /\ clock \in 0 .. MaxTime
    /\ revokedAt \in [Tokens -> 0 .. Never]
    /\ cache \subseteq [token : Tokens, until : Nat]
    /\ \A d, e \in cache : d.token = e.token => d = e
    /\ key \in Key
    /\ keys \in Nat
    /\ file \in Key
    /\ revocations \in Nat
    /\ call \in [Calls -> Call]
    /\ \A c \in Calls : call[c].pc \in {"write", "get"} => call[c].key # 0

\* The cache only delays a revocation, by at most CACHE_TTL_SECONDS: a token is
\* accepted only if it was still good less than that before the request came.
RevocationDelay ==
    \A c \in Calls :
        call[c].pc = "accepted" => revokedAt[call[c].token] + TTL > call[c].started

\* No interleaving of lookups and answers lets the cache outgrow its bound.
CacheBounded == Cardinality(cache) <= MaxEntries

\* Over stdio a call heals itself: it is refused for its token only if the token is an
\* explicit one, or was revoked while the call was under way.
CallHealsItself ==
    \A c \in Calls :
        transport = "stdio" /\ call[c].pc = "unauthorized"
            => explicit \/ revocations > call[c].since
-----------------------------------------------------------------------------
(* The inductive invariant behind the properties. *)

\* What Django answered counts from before the question, for a call as for an entry.
HttpOK ==
    /\ \A c \in Calls :
          /\ call[c].started <= clock
          /\ call[c].pc \in {"asked", "active", "accepted"} =>
                transport = "http" /\ call[c].token \in Tokens
          /\ call[c].pc = "active" => call[c].started <= revokedAt[call[c].token]
    /\ \A e \in cache :
          e.until <= clock + TTL /\ e.until <= revokedAt[e.token] + TTL

\* A call that has logged in afresh goes out with the account's token, unless that was
\* revoked since the call began.
StdioOK ==
    \A c \in Calls :
        LET q == call[c] IN
        /\ q.since <= revocations
        /\ q.pc = "write" \/ (q.pc = "get" /\ q.retried /\ ~explicit) =>
              q.key = key \/ q.since < revocations

IInv == TypeOK /\ IsFiniteSet(cache) /\ HttpOK /\ StdioOK
        /\ RevocationDelay /\ CacheBounded /\ CallHealsItself
=============================================================================
