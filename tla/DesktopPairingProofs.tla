------------------------- MODULE DesktopPairingProofs -------------------------
(***************************************************************************)
(* What DesktopPairing's run checks on one account, one device code and    *)
(* one revocation, for any number of each and of the requests around them. *)
(***************************************************************************)
EXTENDS DesktopPairing, FiniteSetTheorems, TLAPS

-----------------------------------------------------------------------------
(* What a step leaves alone. *)

\* An account's pairing is one it had, or was approved in its present era.
PairingsFresh ==
    \A u \in Users : \A d \in Devices :
        pairing'[d] # None /\ pairing'[d].user = u =>
            \/ d \in Bound(u) /\ pairing'[d].era = pairing[d].era
            \/ pairing'[d].era = era[u]

\* A token that came from a pairing was there, or comes from one that was.
TokensFresh ==
    \A u \in Users :
        token'[u] # None /\ token'[u].via = "pairing" =>
            \/ token'[u] = token[u]
            \/ \E d \in Bound(u) : token'[u].era = pairing[d].era

LEMMA FreshKeepsSwept ==
  ASSUME IInv, UNCHANGED <<era, swept>>, PairingsFresh, TokensFresh
  PROVE  SweptMeansGone'
  <1>1. \A u \in Users : swept[u] \in Nat /\ era[u] \in Nat /\ swept[u] <= era[u]
    BY DEF IInv, TypeOK, RevokersOK
  <1>2. \A u \in Users : \A d \in Bound(u)' : pairing'[d].era >= swept[u]
    BY <1>1 DEF IInv, SweptMeansGone, PairingsFresh, Bound, Exists
  <1>3. \A u \in Users : token'[u] # None /\ token'[u].via = "pairing"
                            => token'[u].era >= swept[u]
    BY DEF IInv, SweptMeansGone, TokensFresh
  <1> QED
    BY <1>2, <1>3 DEF SweptMeansGone

LEMMA FreshKeepsRevokers ==
  ASSUME IInv, UNCHANGED <<era, swept, advisory, revoker>>, PairingsFresh, TokensFresh
  PROVE  RevokersOK'
  <1>1. \A v \in Revokers :
           revoker[v].pc # "idle" => revoker[v].user \in Users
                                     /\ revoker[v].era <= era[revoker[v].user]
    BY DEF IInv, RevokersOK
  <1>2. ASSUME NEW v \in Revokers, revoker[v].commits = 1
        PROVE  \A d \in Bound(revoker[v].user)' : pairing'[d].era >= revoker[v].era
    <2>1. revoker[v].user \in Users /\ revoker[v].era <= era[revoker[v].user]
          /\ \A d \in Bound(revoker[v].user) : pairing[d].era >= revoker[v].era
      BY <1>1, <1>2 DEF IInv, RevokersOK
    <2>2. revoker[v].era \in Nat /\ era[revoker[v].user] \in Nat
      BY <2>1 DEF IInv, TypeOK
    <2> QED
      BY <2>1, <2>2 DEF PairingsFresh, Bound, Exists
  <1>3. ASSUME NEW v \in Revokers,
               revoker[v].commits = 1, revoker[v].pc = "pairings", ~revoker[v].doomed,
               token'[revoker[v].user] # None, token'[revoker[v].user].via = "pairing"
        PROVE  token'[revoker[v].user].era >= revoker[v].era
    <2>1. revoker[v].user \in Users
          /\ \A d \in Bound(revoker[v].user) : pairing[d].era >= revoker[v].era
      BY <1>1, <1>3 DEF IInv, RevokersOK
    <2> QED
      BY <1>3, <2>1 DEF IInv, RevokersOK, TokensFresh
  <1> QED
    BY <1>2, <1>3 DEF IInv, RevokersOK

\* A step that decides and answers nothing.
LEMMA HistoryKeeps ==
  ASSUME IInv, UNCHANGED <<decisions, answers>>
  PROVE  ResolvedOnce' /\ DecidedByOneTab'
  BY DEF IInv, ResolvedOnce, DecidedByOneTab

LEMMA RowsKeep ==
  ASSUME IInv, UNCHANGED <<rows, decisions, answers>>
  PROVE  RowsOK'
  BY DEF IInv, RowsOK, rows, Exists, Undecided

LEMMA SameRowsAreFresh ==
  ASSUME UNCHANGED pairing
  PROVE  PairingsFresh
  BY DEF PairingsFresh, Bound, Exists

LEMMA SameTokensAreFresh ==
  ASSUME UNCHANGED token
  PROVE  TokensFresh
  BY DEF TokensFresh

\* A request that leaves the rows, the tokens and the revocations alone.
LEMMA RequestKeeps ==
  ASSUME IInv, UNCHANGED <<rows, token, advisory, revoker, history>>, TypeOK', LocksOK'
  PROVE  IInv'
  <1>1. RowsOK' /\ ResolvedOnce' /\ DecidedByOneTab'
    BY RowsKeep, HistoryKeeps DEF history
  <1>2. PairingsFresh /\ TokensFresh
    BY SameRowsAreFresh, SameTokensAreFresh DEF rows
  <1>3. SweptMeansGone' /\ RevokersOK'
    BY <1>2, FreshKeepsSwept, FreshKeepsRevokers DEF history
  <1> QED
    BY <1>1, <1>3 DEF IInv
\* LocksOK, of one poll.
Holds(p) ==
    LET q == poll[p] IN
    /\ q.pc # "idle" => q.device \in Devices
    /\ q.pc = "resolve" =>
          /\ rowLock[q.device] = p
          /\ Exists(q.device)
          /\ q.row # None
          /\ q.row.status = pairing[q.device].status
          /\ q.row.user = pairing[q.device].user
          /\ q.row.era = pairing[q.device].era
          /\ q.row.status # "pending"

LEMMA HoldsOK ==
  /\ IInv => \A p \in Polls : Holds(p)
  /\ /\ \A d \in Devices, p \in Polls :
           rowLock'[d] = p => poll'[p].pc = "resolve" /\ poll'[p].device = d
     /\ \A p \in Polls : Holds(p)'
     /\ \A t \in Tabs :
           tab'[t].pc = "decide" => tab'[t].user \in Users /\ tab'[t].device \in Devices
     => LocksOK'
  BY DEF IInv, LocksOK, Holds
\* RevokersOK, of one revocation.
Revokes(v) ==
    LET q == revoker[v] IN
    /\ q.pc # "idle" => q.user \in Users /\ q.era <= era[q.user]
    /\ q.commits = 1 =>
          /\ q.pc # "idle"
          /\ \A d \in Bound(q.user) : pairing[d].era >= q.era
    /\ /\ q.commits = 1 /\ q.pc = "pairings" /\ ~q.doomed
       /\ token[q.user] # None /\ token[q.user].via = "pairing"
       => token[q.user].era >= q.era

LEMMA RevokesOK ==
  /\ IInv => \A v \in Revokers : Revokes(v)
  /\ /\ \A u \in Users : swept'[u] <= era'[u]
     /\ \A u \in Users, v \in Revokers :
           advisory'[u] = v <=> revoker'[v].pc = "pairings" /\ revoker'[v].user = u
     /\ \A v \in Revokers : Revokes(v)'
     => RevokersOK'
  BY DEF IInv, RevokersOK, Revokes
-----------------------------------------------------------------------------
(* The application. *)

LEMMA BeginKeeps ==
  ASSUME IInv, NEW d \in Devices, Begin(d)
  PROVE  IInv'
  <1> DEFINE expired == {e \in Devices : Exists(e) /\ ~pairing[e].live}
             new == [status |-> "pending", user |-> None, live |-> TRUE, era |-> 0]
  <1>1. /\ d \notin drawn /\ \A e \in expired : rowLock[e] = None
        /\ drawn' = drawn \union {d}
        /\ pairing' = [e \in Devices |-> IF e = d THEN new
                                         ELSE IF e \in expired THEN None ELSE pairing[e]]
        /\ UNCHANGED <<token, rowLock, advisory, tab, poll, revoker, history>>
    BY DEF Begin
  <1>2. new \in Pairing
    BY DEF Pairing, Statuses
  <1>3. TypeOK'
    BY <1>1, <1>2 DEF IInv, TypeOK, history
  <1>4. \A e \in Devices : \/ e = d /\ pairing'[e] = new
                           \/ e # d /\ pairing'[e] = None
                           \/ e # d /\ e \notin expired /\ pairing'[e] = pairing[e]
    BY <1>1
  <1>5. pairing[d] = None /\ decisions[d] = {} /\ answers[d] = <<>>
    BY <1>1 DEF IInv, RowsOK, Exists
  <1>6. RowsOK'
    BY <1>1, <1>4, <1>5 DEF IInv, RowsOK, Exists, Undecided, history
  <1>7. LocksOK'
    <2>1. \A p \in Polls : poll[p].pc = "resolve" =>
             /\ pairing[poll[p].device] # None /\ poll[p].device # d
             /\ pairing'[poll[p].device] = pairing[poll[p].device]
      <3> SUFFICES ASSUME NEW p \in Polls, poll[p].pc = "resolve"
                   PROVE  /\ pairing[poll[p].device] # None /\ poll[p].device # d
                          /\ pairing'[poll[p].device] = pairing[poll[p].device]
        OBVIOUS
      <3>1. poll[p].device \in Devices /\ pairing[poll[p].device] # None
            /\ rowLock[poll[p].device] = p
        BY DEF IInv, LocksOK, Exists
      <3>2. poll[p].device \notin expired
        BY <1>1, <3>1, NoneAssumption
      <3> QED
        BY <1>1, <1>5, <3>1, <3>2
    <2> QED
      BY <1>1, <2>1 DEF IInv, LocksOK, Exists
  <1>8. PairingsFresh
    BY <1>4, NoneAssumption DEF PairingsFresh, Bound, Exists
  <1>9. TokensFresh
    BY <1>1, SameTokensAreFresh
  <1>10. SweptMeansGone' /\ RevokersOK' /\ ResolvedOnce' /\ DecidedByOneTab'
    BY <1>1, <1>8, <1>9, FreshKeepsSwept, FreshKeepsRevokers, HistoryKeeps DEF history
  <1> QED
    BY <1>3, <1>6, <1>7, <1>10 DEF IInv

LEMMA ExpireKeeps ==
  ASSUME IInv, NEW d \in Devices, Expire(d)
  PROVE  IInv'
  <1> DEFINE row == [pairing[d] EXCEPT !.live = FALSE]
  <1>1. /\ Exists(d) /\ pairing[d] \in Pairing
        /\ pairing' = [pairing EXCEPT ![d] = row]
        /\ UNCHANGED <<drawn, token, rowLock, advisory, tab, poll, revoker, history>>
    BY DEF Expire, Live, Exists, IInv, TypeOK
  <1>2. /\ row \in Pairing /\ row.status = pairing[d].status
        /\ row.user = pairing[d].user /\ row.era = pairing[d].era
    BY <1>1 DEF Pairing
  <1> HIDE DEF row
  <1>3. row # None
    BY <1>2, RowAssumption
  <1>4. TypeOK'
    BY <1>1, <1>2 DEF IInv, TypeOK, history
  <1>5. \A e \in Devices : pairing'[e] = IF e = d THEN row ELSE pairing[e]
    BY <1>1 DEF IInv, TypeOK
  <1>6. RowsOK'
    BY <1>1, <1>2, <1>3, <1>5 DEF IInv, RowsOK, Exists, Undecided, history
  <1>7. LocksOK'
    BY <1>1, <1>2, <1>3, <1>5 DEF IInv, LocksOK, Exists
  <1>8. PairingsFresh
    BY <1>1, <1>2, <1>3, <1>5 DEF PairingsFresh, Bound, Exists
  <1>9. TokensFresh
    BY <1>1, SameTokensAreFresh
  <1>10. SweptMeansGone' /\ RevokersOK' /\ ResolvedOnce' /\ DecidedByOneTab'
    BY <1>1, <1>8, <1>9, FreshKeepsSwept, FreshKeepsRevokers, HistoryKeeps DEF history
  <1> QED
    BY <1>4, <1>6, <1>7, <1>10 DEF IInv

LEMMA PollStartKeeps ==
  ASSUME IInv, NEW p \in Polls, NEW d \in Devices, PollStart(p, d)
  PROVE  IInv'
  <1>1. /\ poll[p] = IdlePoll
        /\ poll' = [poll EXCEPT ![p] = [IdlePoll EXCEPT !.pc = "select", !.device = d]]
        /\ UNCHANGED <<rows, token, rowLock, advisory, tab, revoker, history>>
    BY DEF PollStart
  <1>2. TypeOK'
    BY <1>1 DEF IInv, TypeOK, IdlePoll, rows, history
  <1>3. LocksOK'
    <2>1. \A q \in Polls : poll'[q] = IF q = p THEN [IdlePoll EXCEPT !.pc = "select", !.device = d]
                                               ELSE poll[q]
      BY <1>1 DEF IInv, TypeOK
    <2> QED
      BY <1>1, <2>1 DEF IInv, LocksOK, IdlePoll, Exists, rows
  <1> QED
    BY <1>1, <1>2, <1>3, RequestKeeps

LEMMA PollNothingKeeps ==
  ASSUME IInv, NEW p \in Polls, PollNothing(p)
  PROVE  IInv'
  <1>1. /\ poll[p].pc = "select"
        /\ poll' = [poll EXCEPT ![p] = IdlePoll]
        /\ UNCHANGED <<rows, token, rowLock, advisory, tab, revoker, history>>
    BY DEF PollNothing
  <1>2. TypeOK'
    BY <1>1 DEF IInv, TypeOK, IdlePoll, rows, history
  <1>3. LocksOK'
    <2>1. \A q \in Polls : poll'[q] = IF q = p THEN IdlePoll ELSE poll[q]
      BY <1>1 DEF IInv, TypeOK
    <2> QED
      BY <1>1, <2>1 DEF IInv, LocksOK, IdlePoll, Exists, rows
  <1> QED
    BY <1>1, <1>2, <1>3, RequestKeeps

LEMMA PollSelectKeeps ==
  ASSUME IInv, NEW p \in Polls, PollSelect(p)
  PROVE  IInv'
  <1> DEFINE d == poll[p].device
             q == [poll[p] EXCEPT !.pc = "resolve", !.row = pairing[d]]
  <1>1. /\ poll[p].pc = "select" /\ rowLock[d] = None
        /\ Exists(d) /\ pairing[d].status # "pending"
        /\ rowLock' = [rowLock EXCEPT ![d] = p]
        /\ poll' = [poll EXCEPT ![p].pc = "resolve", ![p].row = pairing[d]]
        /\ UNCHANGED <<rows, token, advisory, tab, revoker, history>>
    BY DEF PollSelect, Decided, Live
  <1>2. d \in Devices /\ pairing[d] # None /\ pairing[d] \in Pairing
    BY <1>1 DEF IInv, LocksOK, TypeOK, Exists
  <1>3. poll' = [poll EXCEPT ![p] = q]
    BY <1>1 DEF IInv, TypeOK
  <1>4. q.pc = "resolve" /\ q.device = d /\ q.row = pairing[d]
    BY DEF IInv, TypeOK
  <1>5. q \in [pc : {"idle", "select", "resolve"}, device : Devices \union {None},
               row : Pairing \union {None}]
    <2>1. poll[p] \in [pc : {"idle", "select", "resolve"}, device : Devices \union {None},
                       row : Pairing \union {None}]
      BY DEF IInv, TypeOK
    <2> QED
      BY <1>2, <2>1
  <1> HIDE DEF q
  <1>6. TypeOK'
    <2>1. poll' \in [Polls -> [pc : {"idle", "select", "resolve"},
                               device : Devices \union {None}, row : Pairing \union {None}]]
      BY <1>3, <1>5 DEF IInv, TypeOK
    <2>2. rowLock' \in [Devices -> Polls \union {None}]
      BY <1>1, <1>2 DEF IInv, TypeOK
    <2> QED
      BY <1>1, <2>1, <2>2 DEF IInv, TypeOK, rows, history
  <1>7. /\ \A o \in Polls : poll'[o] = IF o = p THEN q ELSE poll[o]
        /\ \A e \in Devices : rowLock'[e] = IF e = d THEN p ELSE rowLock[e]
    BY <1>1, <1>2, <1>3 DEF IInv, TypeOK
  <1>8. LocksOK'
    <2>1. \A e \in Devices : rowLock[e] # p
      BY <1>1 DEF IInv, LocksOK
    <2>2. \A e \in Devices, o \in Polls :
             rowLock'[e] = o => poll'[o].pc = "resolve" /\ poll'[o].device = e
      BY <1>4, <1>7, <2>1 DEF IInv, LocksOK
    <2>3. pairing' = pairing
      BY <1>1 DEF rows
    <2>4. ASSUME NEW o \in Polls
          PROVE  Holds(o)'
      <3>1. CASE o = p
        <4>1. poll'[p] = q /\ rowLock'[d] = p
          BY <1>2, <1>7
        <4> QED
          BY <1>1, <1>2, <1>4, <2>3, <3>1, <4>1 DEF Holds, Exists
      <3>2. CASE o # p
        <4>1. poll'[o] = poll[o] /\ Holds(o)
          BY <1>7, <3>2, HoldsOK
        <4>2. poll[o].pc = "resolve" => rowLock'[poll[o].device] = rowLock[poll[o].device]
          BY <1>1, <1>7, <4>1, NoneAssumption DEF Holds
        <4> QED
          BY <2>3, <4>1, <4>2 DEF Holds, Exists
      <3> QED
        BY <3>1, <3>2
    <2>5. \A t \in Tabs :
             tab'[t].pc = "decide" => tab'[t].user \in Users /\ tab'[t].device \in Devices
      BY <1>1 DEF IInv, LocksOK
    <2> QED
      BY <2>2, <2>4, <2>5, HoldsOK
  <1> QED
    BY <1>1, <1>6, <1>8, RequestKeeps

\* A poll's transaction ends: it holds no row, and the other polls hold what they held.
LEMMA Releases ==
  ASSUME IInv, NEW p \in Polls, Release(p), poll' = [poll EXCEPT ![p] = IdlePoll]
  PROVE  /\ rowLock' \in [Devices -> Polls \union {None}]
         /\ poll' \in [Polls -> [pc : {"idle", "select", "resolve"},
                                 device : Devices \union {None}, row : Pairing \union {None}]]
         /\ \A o \in Polls : o # p => poll'[o] = poll[o]
         /\ poll'[p].pc = "idle"
         /\ \A d \in Devices, o \in Polls :
               rowLock'[d] = o => o # p /\ poll'[o].pc = "resolve" /\ poll'[o].device = d
         /\ \A o \in Polls : poll'[o].pc # "idle" => o # p /\ poll'[o].device \in Devices
         /\ \A o \in Polls : poll'[o].pc = "resolve" => rowLock'[poll[o].device] = o
  <1>1. /\ \A d \in Devices : rowLock'[d] = IF rowLock[d] = p THEN None ELSE rowLock[d]
        /\ rowLock' \in [Devices -> Polls \union {None}]
    BY DEF Release, IInv, TypeOK
  <1>2. \A o \in Polls : poll'[o] = IF o = p THEN IdlePoll ELSE poll[o]
    BY DEF IInv, TypeOK
  <1>3. poll' \in [Polls -> [pc : {"idle", "select", "resolve"},
                             device : Devices \union {None}, row : Pairing \union {None}]]
    BY DEF IInv, TypeOK, IdlePoll
  <1>4. IdlePoll.pc = "idle"
    BY DEF IdlePoll
  <1>5. \A d \in Devices, o \in Polls :
           rowLock'[d] = o => o # p /\ poll'[o].pc = "resolve" /\ poll'[o].device = d
    BY <1>1, <1>2, NoneAssumption DEF IInv, LocksOK
  <1>6. \A o \in Polls : poll'[o].pc # "idle" => o # p /\ poll'[o].device \in Devices
    BY <1>2, <1>4 DEF IInv, LocksOK
  <1>7. \A o \in Polls : poll'[o].pc = "resolve" => rowLock'[poll[o].device] = o
    BY <1>1, <1>2, <1>6 DEF IInv, LocksOK
  <1> QED
    BY <1>1, <1>2, <1>3, <1>4, <1>5, <1>6, <1>7

\* The others' rows are as they were, if only this poll's row changes.
LEMMA OthersHold ==
  ASSUME IInv, NEW p \in Polls, Release(p), poll' = [poll EXCEPT ![p] = IdlePoll],
         UNCHANGED tab,
         \A d \in Devices : pairing'[d] # pairing[d] => rowLock[d] = p
  PROVE  LocksOK'
  <1>1. ASSUME NEW o \in Polls
        PROVE  Holds(o)'
    <2>1. CASE o = p
      BY <2>1, Releases DEF Holds
    <2>2. CASE o # p
      <3>1. poll'[o] = poll[o] /\ Holds(o)
            /\ (poll'[o].pc = "resolve" => rowLock'[poll[o].device] = o)
        BY <2>2, Releases, HoldsOK
      <3>2. poll[o].pc = "resolve" => pairing'[poll[o].device] = pairing[poll[o].device]
        BY <2>2, <3>1 DEF Holds
      <3> QED
        BY <3>1, <3>2 DEF Holds, Exists
    <2> QED
      BY <2>1, <2>2
  <1>2. \A t \in Tabs :
           tab'[t].pc = "decide" => tab'[t].user \in Users /\ tab'[t].device \in Devices
    BY DEF IInv, LocksOK
  <1> QED
    BY <1>1, <1>2, Releases, HoldsOK

LEMMA PollCrashKeeps ==
  ASSUME IInv, NEW p \in Polls, PollCrash(p)
  PROVE  IInv'
  <1>1. /\ poll' = [poll EXCEPT ![p] = IdlePoll] /\ Release(p)
        /\ UNCHANGED <<rows, token, advisory, tab, revoker, history>>
    BY DEF PollCrash
  <1>2. TypeOK'
    <2>1. /\ rowLock' \in [Devices -> Polls \union {None}]
          /\ poll' \in [Polls -> [pc : {"idle", "select", "resolve"},
                                  device : Devices \union {None}, row : Pairing \union {None}]]
      BY <1>1, Releases
    <2> QED
      BY <1>1, <2>1 DEF IInv, TypeOK, rows, history
  <1>3. LocksOK'
    BY <1>1, OthersHold DEF rows
  <1> QED
    BY <1>1, <1>2, <1>3, RequestKeeps

LEMMA PollResolveKeeps ==
  ASSUME IInv, NEW p \in Polls, PollResolve(p)
  PROVE  IInv'
  <1> DEFINE d == poll[p].device
             row == poll[p].row
             said == [verdict |-> row.status, user |-> row.user]
  <1>1. /\ poll[p].pc = "resolve" /\ Release(p)
        /\ pairing' = [pairing EXCEPT ![d] = None]
        /\ token' = IF row.status = "approved" /\ token[row.user] = None
                    THEN [token EXCEPT ![row.user] = [via |-> "pairing", era |-> row.era]]
                    ELSE token
        /\ answers' = [answers EXCEPT ![d] = Append(@, said)]
        /\ poll' = [poll EXCEPT ![p] = IdlePoll]
        /\ UNCHANGED <<drawn, advisory, tab, revoker, decisions, era, swept>>
    BY DEF PollResolve
  <1>2. /\ d \in Devices /\ Exists(d) /\ pairing[d] \in Pairing /\ row \in Pairing
        /\ row.status = pairing[d].status /\ row.user = pairing[d].user
        /\ row.era = pairing[d].era /\ row.status # "pending" /\ rowLock[d] = p
    BY <1>1 DEF IInv, LocksOK, TypeOK, Exists
  <1>3. /\ row.status \in {"approved", "denied"} /\ row.user \in Users \union {None}
        /\ row.era \in Nat
    BY <1>2 DEF Pairing, Statuses
  <1>4. d \in drawn /\ answers[d] = <<>>
        /\ \E c \in decisions[d] :
              c.verdict = row.status /\ (c.verdict = "approved" => c.user = row.user)
    BY <1>2, <1>3 DEF IInv, RowsOK
  <1>5. row.status = "approved" => row.user \in Users
    BY <1>2, <1>4 DEF IInv, TypeOK, Decision
  <1> HIDE DEF row
  <1>6. answers'[d] = <<said>> /\ said \in [verdict : {"approved", "denied"},
                                            user : Users \union {None}]
        /\ said.verdict = row.status /\ said.user = row.user
    BY <1>1, <1>2, <1>3, <1>4 DEF IInv, TypeOK
  <1> HIDE DEF said
  <1>7. /\ \A e \in Devices : e # d => answers'[e] = answers[e] /\ pairing'[e] = pairing[e]
        /\ pairing'[d] = None
        /\ pairing' \in [Devices -> Pairing \union {None}]
    BY <1>1, <1>2 DEF IInv, TypeOK
  <1>8. answers' \in [Devices -> Seq([verdict : {"approved", "denied"},
                                      user : Users \union {None}])]
    <2>1. Append(answers[d], said) \in Seq([verdict : {"approved", "denied"},
                                            user : Users \union {None}])
      BY <1>4, <1>6
    <2> QED
      BY <1>1, <1>2, <2>1 DEF IInv, TypeOK
  <1>9. token' \in [Users -> Token \union {None}]
    BY <1>1, <1>3, <1>5 DEF IInv, TypeOK, Token
  <1>10. TypeOK'
    BY <1>1, <1>7, <1>8, <1>9, Releases DEF IInv, TypeOK
  <1>11. RowsOK'
    BY <1>1, <1>4, <1>7 DEF IInv, RowsOK, Exists, Undecided
  <1>12. LocksOK'
    <2>1. \A e \in Devices : pairing'[e] # pairing[e] => rowLock[e] = p
      BY <1>2, <1>7
    <2>2. UNCHANGED tab /\ Release(p) /\ poll' = [poll EXCEPT ![p] = IdlePoll]
      BY <1>1
    <2> QED
      BY <2>1, <2>2, OthersHold
  <1>13. ResolvedOnce'
    <2>1. Len(<<said>>) <= 1
      OBVIOUS
    <2>2. ASSUME NEW e \in Devices
          PROVE  Len(answers'[e]) <= 1
      <3>1. CASE e = d
        <4>1. answers'[e] = <<said>>
          BY <1>6, <3>1
        <4> QED
          BY <2>1, <4>1
      <3>2. CASE e # d
        BY <1>7, <3>2 DEF IInv, ResolvedOnce
      <3> QED
        BY <3>1, <3>2
    <2> QED
      BY <2>2 DEF ResolvedOnce
  <1>14. DecidedByOneTab'
    <2>1. \A i \in DOMAIN answers'[d] :
             \E c \in decisions'[d] :
                /\ c.verdict = answers'[d][i].verdict
                /\ c.verdict = "approved" => c.user = answers'[d][i].user
      BY <1>1, <1>4, <1>6
    <2> QED
      BY <1>1, <1>7, <2>1 DEF IInv, DecidedByOneTab
  <1>15. PairingsFresh
    BY <1>7 DEF PairingsFresh, Bound, Exists
  <1>16. TokensFresh
    <2> SUFFICES ASSUME NEW u \in Users, token'[u] # token[u]
                 PROVE  \E e \in Bound(u) : token'[u].era = pairing[e].era
      BY DEF TokensFresh
    <2>1. /\ row.status = "approved" /\ u = row.user
          /\ token'[u] = [via |-> "pairing", era |-> row.era]
      BY <1>1, <1>5 DEF IInv, TypeOK
    <2> QED
      BY <1>2, <2>1 DEF Bound
  <1>17. SweptMeansGone' /\ RevokersOK'
    BY <1>1, <1>15, <1>16, FreshKeepsSwept, FreshKeepsRevokers
  <1> QED
    BY <1>10, <1>11, <1>12, <1>13, <1>14, <1>17 DEF IInv
-----------------------------------------------------------------------------
(* The person. *)

LEMMA TabFindKeeps ==
  ASSUME IInv, NEW t \in Tabs, NEW u \in Users, NEW d \in Devices,
         NEW verdict \in {"approved", "denied"}, TabFind(t, u, d, verdict)
  PROVE  IInv'
  <1> DEFINE r == [pc |-> "decide", user |-> u, device |-> d, verdict |-> verdict]
  <1>1. /\ tab' = [tab EXCEPT ![t] = r]
        /\ UNCHANGED <<rows, token, rowLock, advisory, poll, revoker, history>>
    BY DEF TabFind
  <1>2. TypeOK'
    BY <1>1 DEF IInv, TypeOK, rows, history
  <1>3. LocksOK'
    <2>1. \A x \in Tabs : tab'[x] = IF x = t THEN r ELSE tab[x]
      BY <1>1 DEF IInv, TypeOK
    <2> QED
      BY <1>1, <2>1 DEF IInv, LocksOK, Exists, rows
  <1> QED
    BY <1>1, <1>2, <1>3, RequestKeeps

LEMMA TabStaleKeeps ==
  ASSUME IInv, NEW t \in Tabs, TabStale(t)
  PROVE  IInv'
  <1>1. /\ tab' = [tab EXCEPT ![t] = IdleTab]
        /\ UNCHANGED <<rows, token, rowLock, advisory, poll, revoker, history>>
    BY DEF TabStale
  <1>2. TypeOK'
    BY <1>1 DEF IInv, TypeOK, rows, history, IdleTab
  <1>3. LocksOK'
    <2>1. \A x \in Tabs : tab'[x] = IF x = t THEN IdleTab ELSE tab[x]
      BY <1>1 DEF IInv, TypeOK
    <2> QED
      BY <1>1, <2>1 DEF IInv, LocksOK, Exists, rows, IdleTab
  <1> QED
    BY <1>1, <1>2, <1>3, RequestKeeps

LEMMA TabDecideKeeps ==
  ASSUME IInv, NEW t \in Tabs, TabDecide(t)
  PROVE  IInv'
  <1> DEFINE d == tab[t].device
             u == tab[t].user
             verdict == tab[t].verdict
             row == IF verdict = "approved"
                    THEN [pairing[d] EXCEPT !.status = verdict, !.user = u, !.era = era[u]]
                    ELSE [pairing[d] EXCEPT !.status = verdict]
             made == [tab |-> t, user |-> u, verdict |-> verdict]
  <1>1. /\ tab[t].pc = "decide" /\ rowLock[d] = None /\ Undecided(d)
        /\ pairing' = [pairing EXCEPT ![d] = row]
        /\ decisions' = [decisions EXCEPT ![d] = @ \union {made}]
        /\ tab' = [tab EXCEPT ![t] = IdleTab]
        /\ UNCHANGED <<drawn, token, rowLock, advisory, poll, revoker, answers, era, swept>>
    BY DEF TabDecide
  <1>2. /\ d \in Devices /\ u \in Users /\ verdict \in {"approved", "denied"}
        /\ pairing[d] \in Pairing /\ pairing[d] # None /\ era[u] \in Nat
        /\ decisions[d] = {} /\ pairing[d].user = None /\ answers[d] = <<>> /\ d \in drawn
    BY <1>1 DEF IInv, TypeOK, LocksOK, RowsOK, Undecided, Exists
  <1>3. /\ row \in Pairing /\ row.status = verdict
        /\ verdict = "approved" => row.user = u /\ row.era = era[u]
        /\ verdict = "denied" => row.user = None
    BY <1>2 DEF Pairing, Statuses
  <1>4. made \in Decision /\ made.verdict = verdict /\ made.user = u
    BY <1>2 DEF Decision
  <1> HIDE DEF row, made
  <1>5. row # None
    BY <1>3, RowAssumption
  <1>6. /\ \A e \in Devices : pairing'[e] = IF e = d THEN row ELSE pairing[e]
        /\ \A e \in Devices : decisions'[e] = IF e = d THEN {made} ELSE decisions[e]
        /\ \A x \in Tabs : tab'[x] = IF x = t THEN IdleTab ELSE tab[x]
    BY <1>1, <1>2 DEF IInv, TypeOK
  <1>7. TypeOK'
    <2>1. pairing' \in [Devices -> Pairing \union {None}]
      BY <1>1, <1>2, <1>3 DEF IInv, TypeOK
    <2>2. decisions' \in [Devices -> SUBSET Decision]
      BY <1>1, <1>2, <1>4 DEF IInv, TypeOK
    <2>3. tab' \in [Tabs -> [pc : {"idle", "decide"}, user : Users \union {None},
                             device : Devices \union {None}, verdict : {"approved", "denied"}]]
      BY <1>1 DEF IInv, TypeOK, IdleTab
    <2> QED
      BY <1>1, <2>1, <2>2, <2>3 DEF IInv, TypeOK
  <1>8. RowsOK'
    BY <1>1, <1>2, <1>3, <1>4, <1>6 DEF IInv, RowsOK, Exists, Undecided
  <1>9. LocksOK'
    <2>1. ASSUME NEW p \in Polls
          PROVE  Holds(p)'
      <3>1. Holds(p)
        BY HoldsOK
      <3>2. poll[p].pc = "resolve" => poll[p].device # d
        BY <1>1, <3>1, NoneAssumption DEF Holds
      <3>3. poll[p].pc = "resolve" => pairing'[poll[p].device] = pairing[poll[p].device]
        BY <1>6, <3>1, <3>2 DEF Holds
      <3> QED
        BY <1>1, <3>1, <3>3 DEF Holds, Exists
    <2>2. \A x \in Tabs :
             tab'[x].pc = "decide" => tab'[x].user \in Users /\ tab'[x].device \in Devices
      BY <1>6 DEF IInv, LocksOK, IdleTab
    <2>3. \A e \in Devices, p \in Polls :
             rowLock'[e] = p => poll'[p].pc = "resolve" /\ poll'[p].device = e
      BY <1>1 DEF IInv, LocksOK
    <2> QED
      BY <2>1, <2>2, <2>3, HoldsOK
  <1>10. ResolvedOnce'
    BY <1>1 DEF IInv, ResolvedOnce
  <1>11. DecidedByOneTab'
    <2>1. decisions'[d] = {made} /\ Cardinality({made}) = 1
      BY <1>2, <1>6, FS_Singleton
    <2>2. answers' = answers /\ DOMAIN answers[d] = {}
      BY <1>1, <1>2
    <2>3. ASSUME NEW e \in Devices
          PROVE  /\ Cardinality(decisions'[e]) <= 1
                 /\ \A i \in DOMAIN answers'[e] :
                       \E c \in decisions'[e] :
                          /\ c.verdict = answers'[e][i].verdict
                          /\ c.verdict = "approved" => c.user = answers'[e][i].user
      <3>1. CASE e = d
        BY <2>1, <2>2, <3>1
      <3>2. CASE e # d
        BY <1>6, <2>2, <3>2 DEF IInv, DecidedByOneTab
      <3> QED
        BY <3>1, <3>2
    <2> QED
      BY <2>3 DEF DecidedByOneTab
  <1>12. PairingsFresh
    BY <1>2, <1>3, <1>6, NoneAssumption DEF PairingsFresh, Bound, Exists
  <1>13. TokensFresh
    BY <1>1, SameTokensAreFresh
  <1>14. SweptMeansGone' /\ RevokersOK'
    BY <1>1, <1>12, <1>13, FreshKeepsSwept, FreshKeepsRevokers
  <1> QED
    BY <1>7, <1>8, <1>9, <1>10, <1>11, <1>14 DEF IInv

\* A step of the token table alone.
LEMMA TokenKeeps ==
  ASSUME IInv, UNCHANGED <<rows, rowLock, advisory, tab, poll, revoker, history>>,
         token' \in [Users -> Token \union {None}], TokensFresh
  PROVE  IInv'
  <1>1. TypeOK'
    BY DEF IInv, TypeOK, rows, history
  <1>2. RowsOK' /\ ResolvedOnce' /\ DecidedByOneTab'
    BY RowsKeep, HistoryKeeps DEF history
  <1>3. LocksOK'
    BY DEF IInv, LocksOK, Exists, rows
  <1>4. PairingsFresh
    BY SameRowsAreFresh DEF rows
  <1>5. SweptMeansGone' /\ RevokersOK'
    BY <1>4, FreshKeepsSwept, FreshKeepsRevokers DEF history
  <1> QED
    BY <1>1, <1>2, <1>3, <1>5 DEF IInv

LEMMA LoginKeeps ==
  ASSUME IInv, NEW u \in Users, Login(u) \/ Logout(u)
  PROVE  IInv'
  <1>1. UNCHANGED <<rows, rowLock, advisory, tab, poll, revoker, history>>
    BY DEF Login, Logout
  <1>2. token' = [token EXCEPT ![u] = [via |-> "login", era |-> era[u]]]
        \/ token' = [token EXCEPT ![u] = None]
    BY DEF Login, Logout
  <1>3. token' \in [Users -> Token \union {None}]
    <2>1. token \in [Users -> Token \union {None}]
          /\ [via |-> "login", era |-> era[u]] \in Token
      BY DEF IInv, TypeOK, Token
    <2> QED
      BY <1>2, <2>1
  <1>4. TokensFresh
    BY <1>2 DEF IInv, TypeOK, TokensFresh
  <1> QED
    BY <1>1, <1>3, <1>4, TokenKeeps
-----------------------------------------------------------------------------
(* The revocations. *)

Revocation == [pc : {"idle", "tokens", "pairings"}, kind : {"reset", "recover"},
               user : Users \union {None}, pass : {1, 2}, doomed : BOOLEAN, era : Nat,
               commits : {0, 1}]

LEMMA RevocationTypes ==
  IInv => /\ era \in [Users -> Nat] /\ swept \in [Users -> Nat]
          /\ advisory \in [Users -> Revokers \union {None}]
          /\ revoker \in [Revokers -> Revocation]
          /\ token \in [Users -> Token \union {None}]
  BY DEF IInv, TypeOK, Revocation

LEMMA IdleRevocation ==
  /\ IdleRevoker \in Revocation
  /\ IdleRevoker.pc = "idle" /\ IdleRevoker.commits = 0
  BY DEF IdleRevoker, Revocation

\* The rest of TypeOK, for a step of the revocations.
LEMMA TypesKeep ==
  ASSUME IInv, UNCHANGED <<drawn, rowLock, tab, poll, decisions, answers>>,
         pairing' \in [Devices -> Pairing \union {None}],
         token' \in [Users -> Token \union {None}],
         advisory' \in [Users -> Revokers \union {None}],
         revoker' \in [Revokers -> Revocation],
         era' \in [Users -> Nat], swept' \in [Users -> Nat]
  PROVE  TypeOK'
  BY DEF IInv, TypeOK, Revocation

LEMMA RevokeKeeps ==
  ASSUME IInv, NEW v \in Revokers, NEW u \in Users, NEW kind \in {"reset", "recover"},
         Revoke(v, u, kind)
  PROVE  IInv'
  <1> DEFINE q == [IdleRevoker EXCEPT !.pc = "tokens", !.user = u, !.kind = kind,
                                      !.era = era[u] + 1]
  <1>1. /\ revoker[v].pc = "idle"
        /\ era' = [era EXCEPT ![u] = @ + 1]
        /\ revoker' = [revoker EXCEPT ![v] = q]
        /\ UNCHANGED <<rows, token, rowLock, advisory, tab, poll, decisions, answers, swept>>
    BY DEF Revoke, IdleRevoker
  <1>2. era[u] \in Nat
    BY DEF IInv, TypeOK
  <1>3. /\ q \in Revocation
        /\ q.pc = "tokens" /\ q.user = u /\ q.era = era[u] + 1 /\ q.commits = 0
    <2>1. era[u] + 1 \in Nat
      BY <1>2
    <2> DEFINE x == era[u] + 1
    <2> HIDE DEF x
    <2>2. [IdleRevoker EXCEPT !.pc = "tokens", !.user = u, !.kind = kind, !.era = x] \in Revocation
      BY <2>1, IdleRevocation DEF Revocation, x
    <2>3. /\ q.pc = "tokens" /\ q.user = u /\ q.era = era[u] + 1 /\ q.commits = 0
      BY IdleRevocation DEF Revocation
    <2> QED
      BY <2>2, <2>3 DEF x
  <1> HIDE DEF q
  <1>4. /\ revoker' \in [Revokers -> Revocation]
        /\ \A w \in Revokers : revoker'[w] = IF w = v THEN q ELSE revoker[w]
    BY <1>1, <1>3, RevocationTypes
  <1>5. /\ era' \in [Users -> Nat]
        /\ \A x \in Users : era'[x] = IF x = u THEN era[u] + 1 ELSE era[x]
    BY <1>1, <1>2, RevocationTypes
  <1>6. TypeOK'
    <2>1. /\ pairing' \in [Devices -> Pairing \union {None}]
          /\ token' \in [Users -> Token \union {None}]
          /\ advisory' \in [Users -> Revokers \union {None}]
          /\ swept' \in [Users -> Nat]
      BY <1>1 DEF IInv, TypeOK, rows
    <2> QED
      BY <1>1, <1>4, <1>5, <2>1, TypesKeep DEF rows
  <1>7. RowsOK' /\ ResolvedOnce' /\ DecidedByOneTab'
    BY <1>1, RowsKeep, HistoryKeeps
  <1>8. LocksOK'
    BY <1>1 DEF IInv, LocksOK, Exists, rows
  <1>9. \A x \in Users : era[x] \in Nat /\ era[x] <= era'[x]
    BY <1>5, RevocationTypes
  <1>10. RevokersOK'
    <2>1. \A x \in Users : swept'[x] <= era'[x]
      BY <1>1, <1>9 DEF IInv, TypeOK, RevokersOK
    <2>2. \A x \in Users, w \in Revokers :
             advisory'[x] = w <=> revoker'[w].pc = "pairings" /\ revoker'[w].user = x
      BY <1>1, <1>3, <1>4 DEF IInv, RevokersOK
    <2>3. ASSUME NEW w \in Revokers
          PROVE  Revokes(w)'
      <3>1. CASE w = v
        BY <1>2, <1>3, <1>4, <1>5, <3>1 DEF Revokes
      <3>2. CASE w # v
        <4>1. revoker'[w] = revoker[w] /\ Revokes(w) /\ revoker[w].era \in Nat
          BY <1>4, <3>2, RevokesOK DEF IInv, TypeOK
        <4> QED
          BY <1>1, <1>9, <4>1 DEF Revokes, Bound, Exists, rows
      <3> QED
        BY <3>1, <3>2
    <2> QED
      BY <2>1, <2>2, <2>3, RevokesOK
  <1>11. SweptMeansGone'
    BY <1>1 DEF IInv, SweptMeansGone, Bound, Exists, rows
  <1> QED
    BY <1>6, <1>7, <1>8, <1>10, <1>11 DEF IInv

LEMMA RevokeTokenKeeps ==
  ASSUME IInv, NEW v \in Revokers, RevokeToken(v)
  PROVE  IInv'
  <1> DEFINE u == revoker[v].user
             q == [revoker[v] EXCEPT !.pc = "pairings", !.doomed = token[u] # None]
  <1>1. /\ revoker[v].pc = "tokens" /\ advisory[u] = None
        /\ advisory' = [advisory EXCEPT ![u] = v]
        /\ revoker' = [revoker EXCEPT ![v].pc = "pairings", ![v].doomed = token[u] # None]
        /\ UNCHANGED <<rows, token, rowLock, tab, poll, history>>
    BY DEF RevokeToken
  <1>2. u \in Users /\ Revokes(v)
    BY <1>1, RevokesOK DEF Revokes
  <1>3. revoker' = [revoker EXCEPT ![v] = q]
    BY <1>1 DEF IInv, TypeOK
  <1>4. revoker[v] \in Revocation /\ (token[u] # None) \in BOOLEAN
    BY RevocationTypes
  <1>5. /\ q \in Revocation
        /\ q.pc = "pairings" /\ q.user = u /\ q.era = revoker[v].era
        /\ q.commits = revoker[v].commits /\ (~q.doomed => token[u] = None)
    BY <1>4 DEF Revocation
  <1> HIDE DEF q
  <1>6. /\ revoker' \in [Revokers -> Revocation]
        /\ \A w \in Revokers : revoker'[w] = IF w = v THEN q ELSE revoker[w]
    BY <1>3, <1>5, RevocationTypes
  <1>7. /\ advisory' \in [Users -> Revokers \union {None}]
        /\ \A x \in Users : advisory'[x] = IF x = u THEN v ELSE advisory[x]
    BY <1>1, <1>2, RevocationTypes
  <1>8. TypeOK'
    <2>1. /\ pairing' \in [Devices -> Pairing \union {None}]
          /\ token' \in [Users -> Token \union {None}]
          /\ era' \in [Users -> Nat] /\ swept' \in [Users -> Nat]
      BY <1>1 DEF IInv, TypeOK, rows, history
    <2> QED
      BY <1>1, <1>6, <1>7, <2>1, TypesKeep DEF rows, history
  <1>9. RowsOK' /\ ResolvedOnce' /\ DecidedByOneTab'
    BY <1>1, RowsKeep, HistoryKeeps DEF history
  <1>10. LocksOK'
    BY <1>1 DEF IInv, LocksOK, Exists, rows
  <1>11. RevokersOK'
    <2>1. ASSUME NEW x \in Users, NEW w \in Revokers
          PROVE  advisory'[x] = w <=> revoker'[w].pc = "pairings" /\ revoker'[w].user = x
      <3>1. advisory[x] = w <=> revoker[w].pc = "pairings" /\ revoker[w].user = x
        BY DEF IInv, RevokersOK
      <3>2. CASE w = v
        BY <1>1, <1>2, <1>5, <1>6, <1>7, <3>1, <3>2
      <3>3. CASE w # v
        BY <1>1, <1>2, <1>6, <1>7, <3>1, <3>3, NoneAssumption
      <3> QED
        BY <3>2, <3>3
    <2>2. ASSUME NEW w \in Revokers
          PROVE  Revokes(w)'
      <3>1. CASE w = v
        <4>1. revoker'[v] = q
          BY <1>6
        <4>2. pairing' = pairing /\ token' = token /\ era' = era
          BY <1>1 DEF rows, history
        <4> QED
          BY <1>1, <1>2, <1>5, <3>1, <4>1, <4>2 DEF Revokes, Bound, Exists
      <3>2. CASE w # v
        BY <1>1, <1>6, <3>2, RevokesOK DEF Revokes, Bound, Exists, rows, history
      <3> QED
        BY <3>1, <3>2
    <2>3. \A x \in Users : swept'[x] <= era'[x]
      BY <1>1 DEF IInv, RevokersOK, history
    <2> QED
      BY <2>1, <2>2, <2>3, RevokesOK
  <1>12. SweptMeansGone'
    BY <1>1 DEF IInv, SweptMeansGone, Bound, Exists, rows, history
  <1> QED
    BY <1>8, <1>9, <1>10, <1>11, <1>12 DEF IInv

\* What follows a pass: nothing, or the second one, which knows whether the first committed.
LEMMA AfterPasses ==
  ASSUME IInv, NEW v \in Revokers, NEW done \in BOOLEAN
  PROVE  LET q == AfterPass(revoker[v], done) IN
         /\ q \in Revocation
         /\ q.pc \in {"idle", "tokens"}
         /\ q.pc # "idle" => q.user = revoker[v].user /\ q.era = revoker[v].era
         /\ q.commits = 1 => done /\ q.pc # "idle"
  <1> DEFINE count == IF done THEN 1 ELSE 0
             second == [revoker[v] EXCEPT !.pc = "tokens", !.pass = 2, !.doomed = FALSE,
                                          !.commits = count]
  <1>1. revoker[v] \in Revocation
    BY RevocationTypes
  <1>2. count \in {0, 1} /\ (count = 1 => done)
    OBVIOUS
  <1>3. AfterPass(revoker[v], done) = IdleRevoker \/ AfterPass(revoker[v], done) = second
    BY DEF AfterPass
  <1> HIDE DEF count
  <1>4. /\ second \in Revocation /\ second.pc = "tokens"
        /\ second.user = revoker[v].user /\ second.era = revoker[v].era
        /\ second.commits = 1 => done
    BY <1>1, <1>2 DEF Revocation
  <1> HIDE DEF second
  <1> QED
    BY <1>3, <1>4, IdleRevocation

LEMMA RevokePairingsKeeps ==
  ASSUME IInv, NEW v \in Revokers, RevokePairings(v)
  PROVE  IInv'
  <1> DEFINE q == revoker[v]
             u == q.user
             next == AfterPass(q, TRUE)
  <1>1. /\ q.pc = "pairings" /\ \A d \in Bound(u) : rowLock[d] = None
        /\ pairing' = [d \in Devices |-> IF d \in Bound(u) THEN None ELSE pairing[d]]
        /\ token' = IF q.doomed THEN [token EXCEPT ![u] = None] ELSE token
        /\ advisory' = [advisory EXCEPT ![u] = None]
        /\ revoker' = [revoker EXCEPT ![v] = next]
        /\ swept' = IF q.commits = 1 /\ swept[u] < q.era THEN [swept EXCEPT ![u] = q.era]
                                                         ELSE swept
        /\ UNCHANGED <<drawn, rowLock, tab, poll, decisions, answers, era>>
    BY DEF RevokePairings
  <1>2. u \in Users /\ q.era <= era[u] /\ q.era \in Nat /\ Revokes(v)
    BY <1>1, RevokesOK, RevocationTypes DEF Revokes, Revocation
  <1>3. /\ next \in Revocation /\ next.pc \in {"idle", "tokens"}
        /\ next.pc # "idle" => next.user = u /\ next.era = q.era
        /\ next.commits = 1 => next.pc # "idle"
    BY AfterPasses
  <1> HIDE DEF next
  <1>4. /\ revoker' \in [Revokers -> Revocation]
        /\ \A w \in Revokers : revoker'[w] = IF w = v THEN next ELSE revoker[w]
    BY <1>1, <1>3, RevocationTypes
  <1>5. /\ advisory' \in [Users -> Revokers \union {None}]
        /\ \A x \in Users : advisory'[x] = IF x = u THEN None ELSE advisory[x]
    BY <1>1, <1>2, RevocationTypes
  <1>6. /\ swept' \in [Users -> Nat]
        /\ \A x \in Users : \/ swept'[x] = swept[x]
                            \/ x = u /\ q.commits = 1 /\ swept'[x] = q.era
    BY <1>1, <1>2, RevocationTypes
  <1>7. /\ token' \in [Users -> Token \union {None}]
        /\ \A x \in Users : token'[x] = IF x = u /\ q.doomed THEN None ELSE token[x]
    BY <1>1, <1>2, RevocationTypes
  <1>8. /\ pairing' \in [Devices -> Pairing \union {None}]
        /\ \A d \in Devices : pairing'[d] = IF d \in Bound(u) THEN None ELSE pairing[d]
    BY <1>1 DEF IInv, TypeOK
  <1>9. TypeOK'
    BY <1>1, <1>4, <1>5, <1>6, <1>7, <1>8, RevocationTypes, TypesKeep
  <1>10. RowsOK'
    BY <1>1, <1>8 DEF IInv, RowsOK, Exists, Undecided
  <1>11. LocksOK'
    <2>1. ASSUME NEW p \in Polls
          PROVE  Holds(p)'
      <3>1. Holds(p)
        BY HoldsOK
      <3>2. poll[p].pc = "resolve" => pairing'[poll[p].device] = pairing[poll[p].device]
        BY <1>1, <1>8, <3>1, NoneAssumption DEF Holds
      <3> QED
        BY <1>1, <3>1, <3>2 DEF Holds, Exists
    <2>2. /\ \A d \in Devices, p \in Polls :
                rowLock'[d] = p => poll'[p].pc = "resolve" /\ poll'[p].device = d
          /\ \A t \in Tabs :
                tab'[t].pc = "decide" => tab'[t].user \in Users /\ tab'[t].device \in Devices
      BY <1>1 DEF IInv, LocksOK
    <2> QED
      BY <2>1, <2>2, HoldsOK
  <1>12. /\ \A x \in Users : \A d \in Bound(x)' :
               d \in Bound(x) /\ x # u /\ pairing'[d] = pairing[d]
         /\ \A x \in Users : token'[x] # None => token'[x] = token[x]
    BY <1>7, <1>8 DEF Bound, Exists
  <1>13. RevokersOK'
    <2>1. \A x \in Users : swept'[x] <= era'[x]
      BY <1>1, <1>2, <1>6 DEF IInv, RevokersOK
    <2>2. ASSUME NEW x \in Users, NEW w \in Revokers
          PROVE  advisory'[x] = w <=> revoker'[w].pc = "pairings" /\ revoker'[w].user = x
      <3>1. /\ advisory[x] = w <=> revoker[w].pc = "pairings" /\ revoker[w].user = x
            /\ advisory[u] = v
        BY <1>1, <1>2 DEF IInv, RevokersOK
      <3>2. CASE w = v
        BY <1>3, <1>4, <1>5, <3>1, <3>2, NoneAssumption
      <3>3. CASE w # v
        BY <1>4, <1>5, <3>1, <3>3, NoneAssumption
      <3> QED
        BY <3>2, <3>3
    <2>3. ASSUME NEW w \in Revokers
          PROVE  Revokes(w)'
      <3>1. CASE w = v
        <4>1. revoker'[v] = next /\ era' = era
          BY <1>1, <1>4
        <4>2. \A d \in Devices : pairing'[d] # None => pairing'[d].user # u
          BY <1>2, <1>8 DEF Bound, Exists
        <4> QED
          BY <1>2, <1>3, <3>1, <4>1, <4>2 DEF Revokes, Bound, Exists
      <3>2. CASE w # v
        <4>1. revoker'[w] = revoker[w] /\ era' = era /\ Revokes(w)
          BY <1>1, <1>4, <3>2, RevokesOK
        <4> QED
          BY <1>12, <4>1 DEF Revokes
      <3> QED
        BY <3>1, <3>2
    <2> QED
      BY <2>1, <2>2, <2>3, RevokesOK
  <1>14. SweptMeansGone'
    <2> SUFFICES ASSUME NEW x \in Users
                 PROVE  /\ token'[x] # None /\ token'[x].via = "pairing"
                              => token'[x].era >= swept'[x]
                        /\ \A d \in Bound(x)' : pairing'[d].era >= swept'[x]
      BY DEF SweptMeansGone
    <2>1. CASE x # u
      BY <1>6, <1>12, <2>1 DEF IInv, SweptMeansGone
    <2>2. CASE x = u
      <3>1. \A d \in Bound(x)' : FALSE
        BY <1>12, <2>2
      <3>2. ASSUME token'[x] # None, token'[x].via = "pairing"
            PROVE  token'[x].era >= swept'[x]
        <4>1. token'[x] = token[x] /\ ~q.doomed
          BY <1>7, <2>2, <3>2
        <4>2. CASE swept'[x] = swept[x]
          BY <3>2, <4>1, <4>2 DEF IInv, SweptMeansGone
        <4>3. CASE q.commits = 1 /\ swept'[x] = q.era
          BY <1>1, <1>2, <2>2, <3>2, <4>1, <4>3 DEF Revokes
        <4> QED
          BY <1>6, <4>2, <4>3
      <3> QED
        BY <3>1, <3>2
    <2> QED
      BY <2>1, <2>2
  <1>15. ResolvedOnce' /\ DecidedByOneTab'
    BY <1>1, HistoryKeeps
  <1> QED
    BY <1>9, <1>10, <1>11, <1>13, <1>14, <1>15 DEF IInv

LEMMA RevokeFailsKeeps ==
  ASSUME IInv, NEW v \in Revokers, RevokeFails(v)
  PROVE  IInv'
  <1> DEFINE next == AfterPass(revoker[v], FALSE)
  <1>1. /\ revoker[v].pc # "idle"
        /\ revoker' = [revoker EXCEPT ![v] = next]
        /\ advisory' = [x \in Users |-> IF advisory[x] = v THEN None ELSE advisory[x]]
        /\ UNCHANGED <<rows, token, rowLock, tab, poll, history>>
    BY DEF RevokeFails
  <1>2. /\ next \in Revocation /\ next.pc \in {"idle", "tokens"} /\ next.commits # 1
        /\ next.pc # "idle" => next.user = revoker[v].user /\ next.era = revoker[v].era
    BY AfterPasses
  <1> HIDE DEF next
  <1>3. /\ revoker' \in [Revokers -> Revocation]
        /\ \A w \in Revokers : revoker'[w] = IF w = v THEN next ELSE revoker[w]
    BY <1>1, <1>2, RevocationTypes
  <1>4. /\ advisory' \in [Users -> Revokers \union {None}]
        /\ \A x \in Users : advisory'[x] = IF advisory[x] = v THEN None ELSE advisory[x]
    BY <1>1, RevocationTypes
  <1>5. pairing' = pairing /\ token' = token /\ era' = era /\ swept' = swept
    BY <1>1 DEF rows, history
  <1>6. TypeOK'
    <2>1. pairing' \in [Devices -> Pairing \union {None}]
      BY <1>5 DEF IInv, TypeOK
    <2> QED
      BY <1>1, <1>3, <1>4, <1>5, <2>1, RevocationTypes, TypesKeep DEF rows, history
  <1>7. RowsOK' /\ ResolvedOnce' /\ DecidedByOneTab'
    BY <1>1, RowsKeep, HistoryKeeps DEF history
  <1>8. LocksOK'
    BY <1>1 DEF IInv, LocksOK, Exists, rows
  <1>9. RevokersOK'
    <2>1. ASSUME NEW x \in Users, NEW w \in Revokers
          PROVE  advisory'[x] = w <=> revoker'[w].pc = "pairings" /\ revoker'[w].user = x
      <3>1. advisory[x] = w <=> revoker[w].pc = "pairings" /\ revoker[w].user = x
        BY DEF IInv, RevokersOK
      <3> QED
        BY <1>2, <1>3, <1>4, <3>1, NoneAssumption
    <2>2. ASSUME NEW w \in Revokers
          PROVE  Revokes(w)'
      <3>1. Revokes(w) /\ Revokes(v)
        BY RevokesOK
      <3>2. CASE w = v
        <4>1. revoker'[v] = next
          BY <1>3
        <4> QED
          BY <1>1, <1>2, <1>5, <3>1, <3>2, <4>1 DEF Revokes
      <3>3. CASE w # v
        <4>1. revoker'[w] = revoker[w]
          BY <1>3, <3>3
        <4> QED
          BY <1>5, <3>1, <4>1 DEF Revokes, Bound, Exists
      <3> QED
        BY <3>2, <3>3
    <2>3. \A x \in Users : swept'[x] <= era'[x]
      BY <1>5 DEF IInv, RevokersOK
    <2> QED
      BY <2>1, <2>2, <2>3, RevokesOK
  <1>10. SweptMeansGone'
    BY <1>5 DEF IInv, SweptMeansGone, Bound, Exists
  <1> QED
    BY <1>6, <1>7, <1>8, <1>9, <1>10 DEF IInv
-----------------------------------------------------------------------------
(* The invariant and the theorems. *)

LEMMA InvariantInit == Init => IInv
  <1> SUFFICES ASSUME Init PROVE IInv
    OBVIOUS
  <1>1. TypeOK
    BY DEF Init, TypeOK, IdleTab, IdlePoll, IdleRevoker
  <1>2. RowsOK /\ LocksOK
    BY NoneAssumption DEF Init, RowsOK, LocksOK, Exists, Undecided, IdleTab, IdlePoll
  <1>3. RevokersOK /\ SweptMeansGone
    BY NoneAssumption DEF Init, RevokersOK, SweptMeansGone, Bound, Exists, IdleRevoker
  <1>4. ResolvedOnce /\ DecidedByOneTab
    BY FS_EmptySet DEF Init, ResolvedOnce, DecidedByOneTab
  <1> QED
    BY <1>1, <1>2, <1>3, <1>4 DEF IInv

LEMMA InvariantStep == IInv /\ [Next]_vars => IInv'
  <1> SUFFICES ASSUME IInv, [Next]_vars PROVE IInv'
    OBVIOUS
  <1>1. ASSUME NEW d \in Devices, Begin(d) \/ Expire(d)
        PROVE  IInv'
    BY <1>1, BeginKeeps, ExpireKeeps
  <1>2. ASSUME NEW p \in Polls, NEW d \in Devices, PollStart(p, d)
        PROVE  IInv'
    BY <1>2, PollStartKeeps
  <1>3. ASSUME NEW p \in Polls,
               PollNothing(p) \/ PollSelect(p) \/ PollResolve(p) \/ PollCrash(p)
        PROVE  IInv'
    BY <1>3, PollNothingKeeps, PollSelectKeeps, PollResolveKeeps, PollCrashKeeps
  <1>4. ASSUME NEW t \in Tabs, NEW u \in Users, NEW d \in Devices,
               NEW verdict \in {"approved", "denied"}, TabFind(t, u, d, verdict)
        PROVE  IInv'
    BY <1>4, TabFindKeeps
  <1>5. ASSUME NEW t \in Tabs, TabDecide(t) \/ TabStale(t)
        PROVE  IInv'
    BY <1>5, TabDecideKeeps, TabStaleKeeps
  <1>6. ASSUME NEW u \in Users, Login(u) \/ Logout(u)
        PROVE  IInv'
    BY <1>6, LoginKeeps
  <1>7. ASSUME NEW v \in Revokers, NEW u \in Users, NEW kind \in {"reset", "recover"},
               Revoke(v, u, kind)
        PROVE  IInv'
    BY <1>7, RevokeKeeps
  <1>8. ASSUME NEW v \in Revokers, RevokeToken(v) \/ RevokePairings(v) \/ RevokeFails(v)
        PROVE  IInv'
    BY <1>8, RevokeTokenKeeps, RevokePairingsKeeps, RevokeFailsKeeps
  <1>9. CASE UNCHANGED vars
    <2>1. UNCHANGED <<rows, token, rowLock, advisory, tab, poll, revoker, history>>
      BY <1>9 DEF vars, rows, history
    <2>2. token' \in [Users -> Token \union {None}] /\ TokensFresh
      BY <2>1, RevocationTypes, SameTokensAreFresh
    <2> QED
      BY <2>1, <2>2, TokenKeeps
  <1> QED
    BY <1>1, <1>2, <1>3, <1>4, <1>5, <1>6, <1>7, <1>8, <1>9 DEF Next, RequestStep

LEMMA Invariant == Spec => []IInv
  BY InvariantInit, InvariantStep, PTL DEF Spec

\* Every variable keeps its kind of value.
THEOREM PairingTyped == Spec => []TypeOK
  BY Invariant, PTL DEF IInv

\* Any number of polls resolves one device code at most once.
THEOREM OneResolution == Spec => []ResolvedOnce
  BY Invariant, PTL DEF IInv

\* Whatever an application is told, one tab decided it, and it signs in as the account
\* of that tab.
THEOREM OneDecision == Spec => []DecidedByOneTab
  BY Invariant, PTL DEF IInv

\* Two passes are enough: whatever else happens around them, no token of a pairing that
\* was approved before a revocation outlives it.
THEOREM TwoPassesSuffice == Spec => []SweptMeansGone
  BY Invariant, PTL DEF IInv
-----------------------------------------------------------------------------
(* DesktopPairing implements DeviceSignIn, step by step. *)

WithToken == {u \in Users : token[u] # None}

\* A step that changes no code's worth, no answer and no account's having a token.
LEMMA Stutters ==
  ASSUME \A d \in Devices : Code(d)' = Code(d), answers' = answers, WithToken' = WithToken
  PROVE  UNCHANGED SignIn!vars
  BY DEF SignIn!vars, WithToken

LEMMA SameTables ==
  ASSUME UNCHANGED <<rows, rowLock, token, answers>>
  PROVE  UNCHANGED SignIn!vars
<1>1. /\ pairing' = pairing /\ drawn' = drawn /\ rowLock' = rowLock
      /\ token' = token /\ answers' = answers
  BY DEF rows
<1>2. \A d \in Devices : Code(d)' = Code(d)
  BY <1>1 DEF Code, Redeemable, Exists
<1>3. WithToken' = WithToken
  BY <1>1 DEF WithToken
<1> QED
  BY <1>1, <1>2, <1>3, Stutters

\* One code changes.
LEMMA CodeBecomes ==
  ASSUME NEW d \in Devices, NEW c, Code(d)' = c, \A e \in Devices \ {d} : Code(e)' = Code(e)
  PROVE  SignIn!Becomes(d, c)
  BY DEF SignIn!Becomes

LEMMA SameTokens ==
  ASSUME UNCHANGED <<answers, token>>
  PROVE  answers' = answers /\ WithToken' = WithToken
  BY DEF WithToken

\* A code whose row and lock stay is worth what it was.
LEMMA SameCode ==
  ASSUME NEW d \in Devices, pairing'[d] = pairing[d], rowLock'[d] = rowLock[d],
         d \in drawn' <=> d \in drawn
  PROVE  Code(d)' = Code(d)
  BY DEF Code, Redeemable, Exists

\* A device that has a row was drawn, and an approved row has an account.
LEMMA RowFacts ==
  ASSUME IInv, NEW d \in Devices, Exists(d)
  PROVE  /\ d \in drawn /\ pairing[d] \in Pairing
         /\ pairing[d].status \in {"pending", "approved", "denied"}
         /\ pairing[d].status = "approved" => pairing[d].user \in Users
         /\ pairing[d].status # "approved" => pairing[d].user = None
<1>1. d \in drawn /\ pairing[d] \in Pairing
  BY DEF IInv, RowsOK, TypeOK, Exists
<1>2. pairing[d].status \in {"pending", "approved", "denied"}
  BY <1>1 DEF Pairing, Statuses
<1>3. pairing[d].status = "approved" => pairing[d].user \in Users
  BY DEF IInv, RowsOK, TypeOK, Decision
<1>4. pairing[d].status = "pending" => pairing[d].user = None
  BY DEF IInv, RowsOK, Undecided
<1>5. pairing[d].status = "denied" => pairing[d].user = None
  BY DEF IInv, RowsOK
<1> QED
  BY <1>1, <1>2, <1>3, <1>4, <1>5

LEMMA BeginIssues ==
  ASSUME IInv, NEW d \in Devices, Begin(d)
  PROVE  SignIn!Issue(d)
<1> DEFINE expired == {e \in Devices : Exists(e) /\ ~pairing[e].live}
<1>1. /\ d \notin drawn /\ \A e \in expired : rowLock[e] = None
      /\ drawn' = drawn \union {d}
      /\ pairing' = [e \in Devices |->
                        IF e = d
                        THEN [status |-> "pending", user |-> None, live |-> TRUE, era |-> 0]
                        ELSE IF e \in expired THEN None ELSE pairing[e]]
      /\ rowLock' = rowLock /\ UNCHANGED <<answers, token>>
  BY DEF Begin, history
<1>2. Code(d) = [phase |-> "unissued", user |-> None]
  BY <1>1 DEF Code
<1>3. Code(d)' = [phase |-> "pending", user |-> None]
  <2>1. pairing'[d] = [status |-> "pending", user |-> None, live |-> TRUE, era |-> 0]
    BY <1>1
  <2>2. pairing'[d] \in Pairing /\ pairing'[d].live /\ pairing'[d].status = "pending"
        /\ pairing'[d].user = None
    BY <2>1 DEF Pairing, Statuses
  <2>3. pairing'[d] # None /\ d \in drawn'
    BY <1>1, <2>2, RowAssumption
  <2> QED
    BY <2>2, <2>3 DEF Code, Redeemable, Exists
<1>4. ASSUME NEW e \in Devices \ {d} PROVE Code(e)' = Code(e)
  <2>1. CASE e \in expired
    <3>1. pairing'[e] = None /\ e \in drawn /\ e \in drawn'
      BY <1>1, <2>1, RowFacts
    <3>2. Code(e) = [phase |-> "gone", user |-> None]
      BY <1>1, <2>1, <3>1 DEF Code, Redeemable
    <3> QED
      BY <3>1, <3>2 DEF Code, Redeemable, Exists
  <2>2. CASE e \notin expired
    BY <1>1, <2>2, SameCode
  <2> QED
    BY <2>1, <2>2
<1>5. SignIn!Becomes(d, [phase |-> "pending", user |-> None])
  BY <1>3, <1>4, CodeBecomes
<1>6. answers' = answers /\ WithToken' = WithToken
  BY <1>1, SameTokens
<1> QED
  BY <1>2, <1>5, <1>6 DEF SignIn!Issue, SignIn!At, WithToken

\* A code whose row can no longer be redeemed.
LEMMA CodeLapses ==
  ASSUME IInv, NEW d \in Devices, Redeemable(d), Code(d)' = [phase |-> "gone", user |-> None],
         \A e \in Devices \ {d} : Code(e)' = Code(e), UNCHANGED <<answers, token>>
  PROVE  SignIn!Lapse(d)
<1>1. Exists(d)
  BY DEF Redeemable
<1>2. d \in drawn /\ pairing[d].status \in {"pending", "approved", "denied"}
  BY <1>1, RowFacts
<1>3. Code(d) = [phase |-> pairing[d].status, user |-> pairing[d].user]
  BY <1>2 DEF Code
<1>4. SignIn!Becomes(d, [phase |-> "gone", user |-> None])
  BY CodeBecomes
<1>5. answers' = answers /\ WithToken' = WithToken
  BY SameTokens
<1> QED
  BY <1>2, <1>3, <1>4, <1>5 DEF SignIn!Lapse, SignIn!At, WithToken

LEMMA ExpireLapses ==
  ASSUME IInv, NEW d \in Devices, Expire(d)
  PROVE  SignIn!Lapse(d) \/ UNCHANGED SignIn!vars
<1> DEFINE row == [pairing[d] EXCEPT !.live = FALSE]
<1>1. /\ Exists(d) /\ pairing[d].live /\ pairing' = [pairing EXCEPT ![d] = row]
      /\ drawn' = drawn /\ rowLock' = rowLock /\ UNCHANGED <<answers, token>>
  BY DEF Expire, Live, Exists, IInv, TypeOK, history
<1>2. d \in drawn /\ pairing[d] \in Pairing
  BY <1>1, RowFacts
<1>3. /\ row \in Pairing /\ row.status = pairing[d].status /\ row.user = pairing[d].user
      /\ row.live = FALSE
  BY <1>2 DEF Pairing
<1> HIDE DEF row
<1>4. /\ row # None /\ pairing'[d] = row
      /\ \A e \in Devices : e # d => pairing'[e] = pairing[e]
  BY <1>1, <1>3, RowAssumption DEF IInv, TypeOK
<1>5. \A e \in Devices \ {d} : Code(e)' = Code(e)
  BY <1>1, <1>4, SameCode
<1>6. Redeemable(d)
  BY <1>1 DEF Redeemable
<1>7. CASE rowLock[d] = None
  <2>1. Code(d)' = [phase |-> "gone", user |-> None]
    BY <1>1, <1>2, <1>3, <1>4, <1>7 DEF Code, Redeemable
  <2> QED
    BY <1>1, <1>5, <1>6, <2>1, CodeLapses
<1>8. CASE rowLock[d] # None
  <2>1. Code(d)' = [phase |-> pairing[d].status, user |-> pairing[d].user]
    BY <1>1, <1>2, <1>3, <1>4, <1>8 DEF Code, Redeemable, Exists
  <2>2. Code(d) = [phase |-> pairing[d].status, user |-> pairing[d].user]
    BY <1>2, <1>6 DEF Code
  <2> QED
    BY <1>1, <1>5, <2>1, <2>2, SameTokens, Stutters
<1> QED
  BY <1>7, <1>8

LEMMA PollSelectStutters ==
  ASSUME IInv, NEW p \in Polls, PollSelect(p)
  PROVE  UNCHANGED SignIn!vars
<1> DEFINE d == poll[p].device
<1>1. /\ rowLock[d] = None /\ Exists(d) /\ pairing[d].live
      /\ rowLock' = [rowLock EXCEPT ![d] = p]
      /\ pairing' = pairing /\ drawn' = drawn /\ UNCHANGED <<answers, token>>
  BY DEF PollSelect, Decided, Live, rows, history
<1>2. \A e \in Devices : e # d => rowLock'[e] = rowLock[e]
  BY <1>1 DEF IInv, TypeOK
<1>3. ASSUME NEW e \in Devices PROVE Code(e)' = Code(e)
  <2>1. CASE e = d
    BY <1>1, <2>1 DEF Code, Redeemable, Exists
  <2>2. CASE e # d
    BY <1>1, <1>2, <2>2, SameCode
  <2> QED
    BY <2>1, <2>2
<1> QED
  BY <1>1, <1>3, SameTokens, Stutters

LEMMA PollResolveTells ==
  ASSUME IInv, NEW p \in Polls, PollResolve(p)
  PROVE  \E d \in Devices : SignIn!Tell(d)
<1> DEFINE row == poll[p].row
<1>1. PICK d \in Devices : d = poll[p].device
  BY DEF PollResolve, IInv, LocksOK
<1>2. /\ poll[p].pc = "resolve"
      /\ pairing' = [pairing EXCEPT ![d] = None] /\ drawn' = drawn
      /\ token' = IF row.status = "approved" /\ token[row.user] = None
                  THEN [token EXCEPT ![row.user] = [via |-> "pairing", era |-> row.era]]
                  ELSE token
      /\ answers' = [answers EXCEPT ![d] = Append(@, [verdict |-> row.status,
                                                      user |-> row.user])]
      /\ Release(p)
  BY <1>1 DEF PollResolve
<1>3. /\ rowLock[d] = p /\ Exists(d)
      /\ row.status = pairing[d].status /\ row.user = pairing[d].user /\ row.status # "pending"
      /\ row \in Pairing
  BY <1>1, <1>2 DEF IInv, LocksOK, TypeOK
<1>4. /\ d \in drawn /\ pairing[d].status \in {"approved", "denied"}
      /\ pairing[d].status = "approved" => pairing[d].user \in Users
  BY <1>3, RowFacts
<1> HIDE DEF row
<1>5. Code(d) = [phase |-> row.status, user |-> row.user]
  BY <1>3, <1>4, NoneAssumption DEF Code, Redeemable
<1>6. Code(d)' = [phase |-> "gone", user |-> None]
  BY <1>2, <1>4 DEF Code, Redeemable, Exists, IInv, TypeOK
<1>7. ASSUME NEW e \in Devices \ {d} PROVE Code(e)' = Code(e)
  <2>1. rowLock[e] # p
    BY <1>1, <1>7 DEF IInv, LocksOK
  <2>2. rowLock'[e] = rowLock[e] /\ pairing'[e] = pairing[e]
    BY <1>2, <2>1 DEF Release, IInv, TypeOK
  <2> QED
    BY <1>2, <2>2, SameCode
<1>8. SignIn!Becomes(d, [phase |-> "gone", user |-> None])
  BY <1>6, <1>7, CodeBecomes
<1>9. WithToken' = IF row.status = "approved" THEN WithToken \union {row.user} ELSE WithToken
  <2>1. CASE row.status = "approved"
    <3>1. row.user \in Users /\ token \in [Users -> Token \union {None}]
      BY <1>3, <1>4, <2>1 DEF IInv, TypeOK
    <3>2. CASE token[row.user] = None
      <4> DEFINE minted == [via |-> "pairing", era |-> row.era]
      <4>1. minted \in Token
        BY <1>3 DEF Token, Pairing
      <4>2. minted # None
        BY <4>1, RowAssumption
      <4>3. token' = [token EXCEPT ![row.user] = minted]
        BY <1>2, <2>1, <3>2
      <4> HIDE DEF minted
      <4> QED
        BY <2>1, <3>1, <4>2, <4>3 DEF WithToken
    <3>3. CASE token[row.user] # None
      BY <1>2, <2>1, <3>1, <3>3 DEF WithToken
    <3> QED
      BY <3>2, <3>3
  <2>2. CASE row.status # "approved"
    BY <1>2, <2>2 DEF WithToken
  <2> QED
    BY <2>1, <2>2
<1>10. /\ Code(d).phase = row.status /\ Code(d).user = row.user
       /\ row.status \in {"approved", "denied"}
  BY <1>3, <1>4, <1>5
<1> QED
  BY <1>2, <1>8, <1>9, <1>10 DEF SignIn!Tell, SignIn!Verdict, SignIn!At, WithToken

LEMMA PollCrashLapses ==
  ASSUME IInv, NEW p \in Polls, PollCrash(p)
  PROVE  (\E d \in Devices : SignIn!Lapse(d)) \/ UNCHANGED SignIn!vars
<1>1. /\ poll[p] # IdlePoll /\ Release(p)
      /\ pairing' = pairing /\ drawn' = drawn /\ UNCHANGED <<answers, token>>
  BY DEF PollCrash, rows, history
<1>2. \A e \in Devices : rowLock[e] # p => Code(e)' = Code(e)
  BY <1>1, SameCode DEF Release
<1>3. CASE \A e \in Devices : rowLock[e] # p
  BY <1>1, <1>2, <1>3, SameTokens, Stutters
<1>4. ASSUME NEW d \in Devices, rowLock[d] = p
      PROVE  SignIn!Lapse(d) \/ UNCHANGED SignIn!vars
  <2>1. poll[p].pc = "resolve" /\ poll[p].device = d
    BY <1>4 DEF IInv, LocksOK
  <2>2. Exists(d) /\ rowLock[d] # None /\ rowLock'[d] = None
    BY <1>1, <1>4, <2>1, NoneAssumption DEF IInv, LocksOK, Release
  <2>3. \A e \in Devices \ {d} : rowLock[e] # p
    BY <2>1 DEF IInv, LocksOK
  <2>4. \A e \in Devices \ {d} : Code(e)' = Code(e)
    BY <1>2, <2>3
  <2>5. Redeemable(d) /\ d \in drawn
    BY <2>2, RowFacts DEF Redeemable
  <2>6. CASE pairing[d].live
    <3>1. Code(d)' = Code(d)
      BY <1>1, <2>2, <2>5, <2>6 DEF Code, Redeemable, Exists
    <3> QED
      BY <1>1, <2>4, <3>1, SameTokens, Stutters
  <2>7. CASE ~pairing[d].live
    <3>1. Code(d)' = [phase |-> "gone", user |-> None]
      BY <1>1, <2>2, <2>5, <2>7 DEF Code, Redeemable, Exists
    <3> QED
      BY <1>1, <2>4, <2>5, <3>1, CodeLapses
  <2> QED
    BY <2>6, <2>7
<1> QED
  BY <1>3, <1>4

LEMMA TabDecides ==
  ASSUME IInv, NEW t \in Tabs, TabDecide(t)
  PROVE  \/ \E d \in Devices : SignIn!Deny(d)
         \/ \E d \in Devices, u \in Users : SignIn!Approve(d, u)
         \/ UNCHANGED SignIn!vars
<1> DEFINE u == tab[t].user
           verdict == tab[t].verdict
<1>1. PICK d \in Devices : d = tab[t].device
  BY DEF TabDecide, IInv, LocksOK
<1> DEFINE row == IF verdict = "approved"
                  THEN [pairing[d] EXCEPT !.status = verdict, !.user = u, !.era = era[u]]
                  ELSE [pairing[d] EXCEPT !.status = verdict]
<1>2. /\ rowLock[d] = None /\ Exists(d) /\ pairing[d].status = "pending"
      /\ pairing' = [pairing EXCEPT ![d] = row]
      /\ drawn' = drawn /\ rowLock' = rowLock /\ token' = token /\ answers' = answers
  BY <1>1 DEF TabDecide, Undecided
<1>3. u \in Users /\ verdict \in {"approved", "denied"}
  BY DEF TabDecide, IInv, LocksOK, TypeOK
<1>4. /\ d \in drawn /\ pairing[d] \in Pairing /\ pairing[d].user = None
  BY <1>2, RowFacts
<1>5. /\ row \in Pairing /\ row.status = verdict /\ row.live = pairing[d].live
      /\ row.user = IF verdict = "approved" THEN u ELSE None
  <2>1. era[u] \in Nat
    BY <1>3 DEF IInv, TypeOK
  <2> QED
    BY <1>3, <1>4, <2>1 DEF Pairing, Statuses
<1> HIDE DEF row, u, verdict
<1>6. /\ row # None /\ pairing'[d] = row
      /\ \A e \in Devices : e # d => pairing'[e] = pairing[e]
  BY <1>2, <1>5, RowAssumption DEF IInv, TypeOK
<1>7. \A e \in Devices \ {d} : Code(e)' = Code(e)
  BY <1>2, <1>6, SameCode
<1>8. answers' = answers /\ WithToken' = WithToken
  BY <1>2, SameTokens
<1>9. CASE pairing[d].live
  <2>1. Code(d) = [phase |-> "pending", user |-> None]
    BY <1>2, <1>4, <1>9 DEF Code, Redeemable
  <2>2. Code(d)' = [phase |-> verdict, user |-> IF verdict = "approved" THEN u ELSE None]
    BY <1>2, <1>4, <1>5, <1>6, <1>9 DEF Code, Redeemable, Exists
  <2>3. CASE verdict = "approved"
    <3>1. SignIn!Becomes(d, [phase |-> "approved", user |-> u])
      BY <1>7, <2>2, <2>3, CodeBecomes
    <3>2. SignIn!Approve(d, u)
      BY <1>8, <2>1, <3>1 DEF SignIn!Approve, SignIn!At, WithToken
    <3> QED
      BY <1>3, <3>2
  <2>4. CASE verdict = "denied"
    <3>1. SignIn!Becomes(d, [phase |-> "denied", user |-> None])
      BY <1>7, <2>2, <2>4, CodeBecomes
    <3> QED
      BY <1>8, <2>1, <3>1 DEF SignIn!Deny, SignIn!At, WithToken
  <2> QED
    BY <1>3, <2>3, <2>4
<1>10. CASE ~pairing[d].live
  <2>1. Code(d)' = Code(d)
    BY <1>2, <1>4, <1>5, <1>6, <1>10 DEF Code, Redeemable, Exists
  <2> QED
    BY <1>7, <1>8, <2>1, Stutters
<1> QED
  BY <1>9, <1>10

LEMMA LoginSignsIn ==
  ASSUME IInv, NEW u \in Users, Login(u)
  PROVE  SignIn!SignsIn(u)
<1> DEFINE issued == [via |-> "login", era |-> era[u]]
<1>1. /\ token' = [token EXCEPT ![u] = issued] /\ pairing' = pairing /\ drawn' = drawn
      /\ rowLock' = rowLock /\ answers' = answers
  BY DEF Login, rows, history
<1>2. issued \in Token
  BY DEF IInv, TypeOK, Token
<1>3. issued # None
  BY <1>2, RowAssumption
<1> HIDE DEF issued
<1>4. WithToken' = WithToken \union {u}
  BY <1>1, <1>3 DEF WithToken, IInv, TypeOK
<1>5. \A d \in Devices : Code(d)' = Code(d)
  BY <1>1, SameCode
<1> QED
  BY <1>1, <1>4, <1>5 DEF SignIn!SignsIn, WithToken

LEMMA LogoutSignsOut ==
  ASSUME IInv, NEW u \in Users, Logout(u)
  PROVE  SignIn!SignsOut(u)
<1>1. /\ token' = [token EXCEPT ![u] = None] /\ pairing' = pairing /\ drawn' = drawn
      /\ rowLock' = rowLock /\ answers' = answers
  BY DEF Logout, rows, history
<1>2. WithToken' = WithToken \ {u}
  BY <1>1 DEF WithToken, IInv, TypeOK
<1>3. \A d \in Devices : Code(d)' = Code(d)
  BY <1>1, SameCode
<1> QED
  BY <1>1, <1>2, <1>3 DEF SignIn!SignsOut, WithToken

LEMMA RevocationWithdraws ==
  ASSUME IInv, NEW v \in Revokers, RevokePairings(v)
  PROVE  \E u \in Users : SignIn!Withdraw(u)
<1>1. PICK u \in Users : u = revoker[v].user
  BY DEF RevokePairings, IInv, RevokersOK
<1>2. /\ \A d \in Bound(u) : rowLock[d] = None
      /\ pairing' = [d \in Devices |-> IF d \in Bound(u) THEN None ELSE pairing[d]]
      /\ token' = IF revoker[v].doomed THEN [token EXCEPT ![u] = None] ELSE token
      /\ drawn' = drawn /\ rowLock' = rowLock /\ answers' = answers
  BY <1>1 DEF RevokePairings
<1>3. WithToken' \in {WithToken, WithToken \ {u}}
  BY <1>2 DEF WithToken, IInv, TypeOK
<1>4. ASSUME NEW d \in Devices
      PROVE  Code(d)' = IF Code(d).user = u THEN [phase |-> "gone", user |-> None] ELSE Code(d)
  <2>1. CASE d \in Bound(u)
    <3>1. Exists(d) /\ pairing[d].user = u /\ d \in drawn
      BY <2>1, RowFacts DEF Bound
    <3>2. Code(d)' = [phase |-> "gone", user |-> None]
      BY <1>2, <2>1, <3>1 DEF Code, Redeemable, Exists
    <3>3. CASE Redeemable(d)
      BY <3>1, <3>2, <3>3 DEF Code
    <3>4. CASE ~Redeemable(d)
      BY <3>1, <3>2, <3>4 DEF Code
    <3> QED
      BY <3>3, <3>4
  <2>2. CASE d \notin Bound(u)
    <3>1. Code(d)' = Code(d)
      BY <1>2, <2>2, SameCode
    <3>2. Code(d).user # u
      BY <2>2, NoneAssumption DEF Code, Redeemable, Bound
    <3> QED
      BY <3>1, <3>2
  <2> QED
    BY <2>1, <2>2
<1>5. SignIn!Withdraw(u)
  BY <1>2, <1>3, <1>4 DEF SignIn!Withdraw, SignIn!At, WithToken
<1> QED
  BY <1>5

LEMMA SignInStep == IInv /\ [Next]_vars => [SignIn!Next]_(SignIn!vars)
<1> SUFFICES ASSUME IInv, [Next]_vars PROVE [SignIn!Next]_(SignIn!vars)
  OBVIOUS
<1>1. CASE UNCHANGED vars
  <2>1. UNCHANGED <<rows, rowLock, token, answers>>
    BY <1>1 DEF vars, rows, history
  <2> QED
    BY <2>1, SameTables
<1>2. ASSUME NEW p \in Polls, PollNothing(p) PROVE UNCHANGED SignIn!vars
  BY <1>2, SameTables DEF PollNothing, history
<1>3. ASSUME NEW p \in Polls, NEW d \in Devices, PollStart(p, d) PROVE UNCHANGED SignIn!vars
  BY <1>3, SameTables DEF PollStart, history
<1>4. ASSUME NEW t \in Tabs, TabStale(t) PROVE UNCHANGED SignIn!vars
  BY <1>4, SameTables DEF TabStale, history
<1>5. ASSUME NEW t \in Tabs, NEW u \in Users, NEW d \in Devices,
             NEW verdict \in {"approved", "denied"}, TabFind(t, u, d, verdict)
      PROVE  UNCHANGED SignIn!vars
  BY <1>5, SameTables DEF TabFind, history
<1>6. ASSUME NEW v \in Revokers, RevokeToken(v) \/ RevokeFails(v) PROVE UNCHANGED SignIn!vars
  BY <1>6, SameTables DEF RevokeToken, RevokeFails, history
<1>7. ASSUME NEW v \in Revokers, NEW u \in Users, NEW kind \in {"reset", "recover"},
             Revoke(v, u, kind)
      PROVE  UNCHANGED SignIn!vars
  BY <1>7, SameTables DEF Revoke
<1>8. CASE RequestStep
  BY <1>2, <1>4, <1>6, <1>8, PollSelectStutters, PollResolveTells, TabDecides,
     RevocationWithdraws DEF RequestStep, SignIn!Next
<1>9. CASE \E d \in Devices : Begin(d) \/ Expire(d)
  BY <1>9, BeginIssues, ExpireLapses DEF SignIn!Next
<1>10. CASE \E u \in Users : Login(u) \/ Logout(u)
  BY <1>10, LoginSignsIn, LogoutSignsOut DEF SignIn!Next
<1>11. CASE \E p \in Polls : PollCrash(p) \/ \E d \in Devices : PollStart(p, d)
  BY <1>3, <1>11, PollCrashLapses DEF SignIn!Next
<1>12. CASE \E t \in Tabs, u \in Users, d \in Devices, verdict \in {"approved", "denied"} :
               TabFind(t, u, d, verdict)
  BY <1>5, <1>12
<1>13. CASE \E v \in Revokers : \/ RevokeFails(v)
                               \/ \E u \in Users, kind \in {"reset", "recover"} :
                                     Revoke(v, u, kind)
  BY <1>6, <1>7, <1>13
<1> QED
  BY <1>1, <1>8, <1>9, <1>10, <1>11, <1>12, <1>13 DEF Next

\* However polls, tabs, expiry, crashes, logins and revocations interleave, the rows and
\* locks do what DeviceSignIn promises: a code is decided once, told at most once and to
\* the account that approved it, and what was withdrawn or has lapsed is never told.
THEOREM PairingRefinesSignIn == Spec => ImplementsDeviceSignIn
<1>1. Init => SignIn!Init
  BY DEF Init, SignIn!Init, SignIn!At, Code
<1> QED
  BY <1>1, Invariant, SignInStep, PTL DEF Spec, ImplementsDeviceSignIn, SignIn!Spec
=============================================================================
