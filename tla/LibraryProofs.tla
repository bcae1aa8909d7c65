---------------------------- MODULE LibraryProofs ----------------------------
(***************************************************************************)
(* The properties of Library's run, proved for any number of requests,     *)
(* platforms and uploads, along Library's IInv: each kind of step keeps    *)
(* each part of it.                                                        *)
(***************************************************************************)
EXTENDS Library, TLAPS

USE LibraryAssumption

\* What one request's step to q says of the requests.
Moves(r, q) ==
    /\ req' \in [Requests -> Request]
    /\ \A s \in Requests : req'[s] = IF s = r THEN q ELSE req[s]

LEMMA IdleFacts ==
    /\ Idle \in Request /\ ~Sends(Idle) /\ UploadOK(Idle) /\ DeleteOK(Idle)
    /\ Idle.pc = "idle" /\ Idle.kind = "share" /\ ~Idle.alone
    /\ Idle.platform = PagePlatform /\ [Idle EXCEPT !.alone = FALSE] = Idle
<1>1. Plain \in Paths /\ 0 \in 0 .. MaxUploads
  BY DEF Plain, Paths
<1>2. /\ Idle \in Request /\ Idle.pc = "idle" /\ Idle.kind = "share" /\ ~Idle.alone
      /\ Idle.platform = PagePlatform
  BY <1>1 DEF Idle, Request
<1>3. [Idle EXCEPT !.alone = FALSE] = Idle
  BY <1>2 DEF Request
<1> QED
  BY <1>2, <1>3 DEF Sends, UploadOK, DeleteOK

\* A request under way is the only one that a step of it leaves alone.
LEMMA AloneMoves ==
  ASSUME IInv, NEW r \in Requests, NEW q \in Request, Moves(r, q), req[r] # Idle,
         q.alone => AloneOK(r)'
  PROVE  \A s \in Requests : AloneOK(s)'
<1> TAKE s \in Requests
<1>1. CASE s # r
  <2>1. req'[s] = req[s] /\ AloneOK(s)
    BY <1>1 DEF IInv, Moves
  <2>2. ~req[s].alone
    BY <1>1, <2>1 DEF AloneOK
  <2> QED
    BY <2>1, <2>2 DEF AloneOK
<1>2. CASE s = r
  <2>1. req'[s] = q
    BY <1>2 DEF Moves
  <2> QED
    BY <1>2, <2>1 DEF AloneOK
<1> QED
  BY <1>1, <1>2

\* Whose upload is whose does not change while requests move on.
LEMMA SendersMove ==
  ASSUME IInv, NEW r \in Requests, NEW q \in Request, Moves(r, q),
         nextUpload' = nextUpload, Sends(q) => Sends(req[r]) /\ q.id = req[r].id
  PROVE  SendersOK'
  BY DEF IInv, SendersOK, Moves

\* A request's step that leaves files and rows alone.
LEMMA MoveKeeps ==
  ASSUME IInv, NEW r \in Requests, NEW q \in Request, Moves(r, q), req[r] # Idle,
         UNCHANGED <<files, syncRows, userRows>>, UnshareIsComplete',
         shares' \in Nat, shared' \in BOOLEAN,
         Sends(q) => Sends(req[r]) /\ q.id = req[r].id,
         UploadOK(q), DeleteOK(q), q.alone => AloneOK(r)'
  PROVE  IInv'
<1>1. TypeOK' /\ DeletedContentGone'
  BY DEF IInv, TypeOK, DeletedContentGone, files, Moves
<1>2. SendersOK'
  BY SendersMove DEF files
<1>3. RowsOK'
  BY DEF IInv, RowsOK, files
<1>4. \A s \in Requests : UploadOK(req[s])' /\ DeleteOK(req[s])'
  <2> TAKE s \in Requests
  <2>1. UploadOK(req'[s]) /\ DeleteOK(req'[s])
    BY DEF IInv, Moves
  <2> QED
    BY <2>1 DEF UploadOK, DeleteOK, OffDisk, Rowless, files
<1> QED
  BY <1>1, <1>2, <1>3, <1>4, AloneMoves DEF IInv

-----------------------------------------------------------------------------
(* Steps that change neither files nor rows. *)

\* A request begins as q.
LEMMA BeginKeeps ==
  ASSUME IInv, NEW r \in Requests, NEW q \in Request, Begins(r, q),
         UNCHANGED <<disk, syncRows, userRows, sharing>>,
         \/ q.pc = "clear"
         \/ q.pc = "deleted" /\ q.kind = "upload"
         \/ q.pc = "share" /\ q.kind = "share",
         IF Sends(q) THEN q.id = nextUpload /\ nextUpload' = nextUpload + 1
                          /\ nextUpload \in Uploads
                          /\ (q.kind = "upload" => q.platform = PagePlatform)
                     ELSE UNCHANGED nextUpload,
         DeleteOK(q)
  PROVE  IInv'
<1> DEFINE b == \A t \in Requests : req[t] = Idle
           qb == [q EXCEPT !.alone = b]
<1>1. /\ qb \in Request /\ qb.pc = q.pc /\ qb.kind = q.kind /\ qb.id = q.id
      /\ qb.platform = q.platform /\ qb.todo = q.todo /\ qb.path = q.path /\ qb.alone = b
  BY DEF Request
<1>2. req[r] = Idle /\ req \in [Requests -> Request]
      /\ req' = [s \in Requests |-> IF s = r THEN qb ELSE [req[s] EXCEPT !.alone = FALSE]]
  BY DEF Begins, IInv, TypeOK
<1>3. \A s \in Requests \ {r} :
         /\ req'[s] \in Request /\ ~req'[s].alone
         /\ req'[s].pc = req[s].pc /\ req'[s].kind = req[s].kind /\ req'[s].id = req[s].id
         /\ req'[s].platform = req[s].platform /\ req'[s].todo = req[s].todo
         /\ req'[s].path = req[s].path
  BY <1>2 DEF Request
<1>4. req'[r] = qb
  BY <1>2
<1> HIDE DEF qb, b
<1>5. req' \in [Requests -> Request]
  BY <1>1, <1>2, <1>3, <1>4
<1>6. nextUpload \in Nat /\ nextUpload' \in {nextUpload, nextUpload + 1}
      /\ nextUpload' \in 1 .. MaxUploads + 1
  BY DEF IInv, TypeOK, Uploads
<1>7. TypeOK'
  BY <1>5, <1>6 DEF IInv, TypeOK, sharing
<1>8. DeletedContentGone' /\ UnshareIsComplete'
  BY DEF IInv, DeletedContentGone, UnshareIsComplete, sharing
<1>9. SendersOK'
  <2>1. \A s \in Requests \ {r} : Sends(req'[s]) <=> Sends(req[s])
    BY <1>3 DEF Sends
  <2>2. /\ \A s \in Requests \ {r} : Sends(req'[s]) => req'[s].id \in 1 .. nextUpload - 1
        /\ \A s, t \in Requests \ {r} :
              Sends(req'[s]) /\ Sends(req'[t]) /\ req'[s].id = req'[t].id => s = t
    BY <1>3, <2>1 DEF IInv, SendersOK
  <2>3. Sends(req'[r]) => req'[r].id = nextUpload /\ nextUpload' = nextUpload + 1
                           /\ nextUpload \in 1 .. MaxUploads
    BY <1>1, <1>4 DEF Sends, Uploads
  <2>4. \A s \in Requests : Sends(req'[s]) => req'[s].id \in 1 .. nextUpload' - 1
    BY <1>6, <2>2, <2>3
  <2> QED
    BY <1>6, <2>2, <2>3, <2>4 DEF SendersOK
<1>10. RowsOK'
  <2>1. /\ \A row \in syncRows \union userRows : row.id \in Nat
        /\ \A p \in Platforms, x \in Paths : disk[p][x] \in Nat
    BY DEF IInv, TypeOK, SyncRow, UserRow, Uploads
  <2> QED
    BY <1>6, <2>1 DEF IInv, RowsOK
<1>11. \A s \in Requests : UploadOK(req[s])' /\ DeleteOK(req[s])'
  <2>1. ASSUME NEW s \in Requests \ {r} PROVE UploadOK(req[s])' /\ DeleteOK(req[s])'
    BY <1>3 DEF IInv, UploadOK, DeleteOK, Sends, OffDisk, Rowless
  <2>2. UploadOK(req[r])'
    <3>1. Sends(q) => OffDisk(q.id) /\ Rowless(q.id)
      BY <1>6 DEF IInv, RowsOK, OffDisk, Rowless
    <3> QED
      BY <3>1, <1>1, <1>4 DEF UploadOK, OffDisk, Rowless, Sends
  <2>3. DeleteOK(req[r])'
    BY <1>1, <1>4 DEF DeleteOK, OffDisk
  <2> QED
    BY <2>1, <2>2, <2>3
<1>12. \A s \in Requests : AloneOK(s)'
  <2>1. ASSUME NEW s \in Requests \ {r} PROVE AloneOK(s)'
    BY <1>3 DEF AloneOK
  <2>2. ASSUME b PROVE \A s \in Requests \ {r} : req'[s] = Idle
    BY <1>2, <2>2, IdleFacts DEF b
  <2>3. AloneOK(r)'
    BY <1>1, <1>4, <2>2 DEF AloneOK
  <2> QED
    BY <2>1, <2>3
<1> QED
  BY <1>7, <1>8, <1>9, <1>10, <1>11, <1>12 DEF IInv

\* Every request that begins does so as BeginKeeps asks.
LEMMA BeginSteps ==
  ASSUME IInv, NEW r \in Requests,
         \/ \E p \in Platforms : SyncUpload(r, p)
         \/ PageUpload(r)
         \/ \E row \in userRows : PageDelete(r, row)
         \/ ShareCheck(r)
  PROVE  IInv'
<1>t. syncRows \subseteq SyncRow /\ userRows \subseteq UserRow /\ nextUpload \in Nat
  BY DEF IInv, TypeOK
<1>1. ASSUME NEW p \in Platforms, SyncUpload(r, p) PROVE IInv'
  <2> DEFINE q == [Idle EXCEPT !.pc = "clear", !.kind = "sync", !.id = nextUpload,
                              !.platform = p, !.todo = {row.path : row \in Rows(p)}]
  <2>1. /\ q \in Request /\ q.pc = "clear" /\ q.kind = "sync" /\ q.id = nextUpload
    <3>1. {row.path : row \in Rows(p)} \in SUBSET Paths
      <4>1. \A row \in Rows(p) : row.path \in Paths
        BY <1>t DEF Rows, SyncRow
      <4> QED
        BY <4>1
    <3>2. nextUpload \in Uploads
      BY <1>1 DEF SyncUpload
    <3>3. nextUpload \in 0 .. MaxUploads
      BY <3>2 DEF Uploads
    <3> QED
      BY <3>1, <3>3, IdleFacts DEF Request
  <2>2. /\ Begins(r, q) /\ nextUpload' = nextUpload + 1 /\ nextUpload \in Uploads
        /\ UNCHANGED <<disk, syncRows, userRows, sharing>>
    BY <1>1 DEF SyncUpload
  <2> HIDE DEF q
  <2> QED
    BY <2>1, <2>2, BeginKeeps DEF Sends, DeleteOK
<1>2. ASSUME PageUpload(r) PROVE IInv'
  <2> DEFINE q == [Idle EXCEPT !.pc = "deleted", !.kind = "upload", !.id = nextUpload]
  <2>1. /\ q \in Request /\ q.pc = "deleted" /\ q.kind = "upload" /\ q.id = nextUpload
        /\ q.platform = PagePlatform
    <3>1. nextUpload \in 0 .. MaxUploads
      BY <1>2 DEF PageUpload, Uploads
    <3> QED
      BY <3>1, IdleFacts DEF Request
  <2>2. /\ Begins(r, q) /\ nextUpload' = nextUpload + 1 /\ nextUpload \in Uploads
        /\ UNCHANGED <<disk, syncRows, userRows, sharing>>
    BY <1>2 DEF PageUpload
  <2> HIDE DEF q
  <2> QED
    BY <2>1, <2>2, BeginKeeps DEF Sends, DeleteOK
<1>3. ASSUME NEW row \in userRows, PageDelete(r, row) PROVE IInv'
  <2> DEFINE q == [Idle EXCEPT !.pc = "clear", !.kind = "delete", !.id = row.id,
                              !.path = row.path, !.todo = {row.path}]
  <2>1. /\ q \in Request /\ q.pc = "clear" /\ q.kind = "delete" /\ q.id = row.id
        /\ q.platform = PagePlatform /\ q.path = row.path /\ q.todo = {row.path}
    <3>1. row.id \in 0 .. MaxUploads /\ row.path \in Paths
      BY <1>t DEF UserRow, Uploads
    <3> QED
      BY <3>1, IdleFacts DEF Request
  <2>2. Begins(r, q) /\ UNCHANGED <<files, syncRows, userRows, sharing>>
    BY <1>3 DEF PageDelete
  <2> HIDE DEF q
  <2>3. DeleteOK(q)
    BY <2>1 DEF DeleteOK
  <2> QED
    BY <2>1, <2>2, <2>3, BeginKeeps DEF Sends, files
<1>4. ASSUME ShareCheck(r) PROVE IInv'
  <2> DEFINE q == [Idle EXCEPT !.pc = "share"]
  <2>1. q \in Request /\ q.pc = "share" /\ q.kind = "share"
    BY IdleFacts DEF Request
  <2>2. Begins(r, q) /\ UNCHANGED <<files, syncRows, userRows, sharing>>
    BY <1>4 DEF ShareCheck
  <2> HIDE DEF q
  <2> QED
    BY <2>1, <2>2, BeginKeeps DEF Sends, DeleteOK, files
<1> QED
  BY <1>1, <1>2, <1>3, <1>4

\* What a request's step makes of its record.
LEMMA Stepped ==
  ASSUME IInv, NEW r \in Requests, NEW q \in Request,
         req' = [req EXCEPT ![r] = q]
  PROVE  Moves(r, q)
  BY DEF IInv, TypeOK, Moves

LEMMA WentTo ==
  ASSUME IInv, NEW r \in Requests, NEW pc, Goto(r, pc),
         pc \in {"store", "checksum", "ok", "error"}
  PROVE  \E q \in Request :
            /\ Moves(r, q) /\ q.pc = pc /\ q.kind = req[r].kind /\ q.id = req[r].id
            /\ q.platform = req[r].platform /\ q.todo = req[r].todo
            /\ q.path = req[r].path /\ q.alone = req[r].alone
<1> DEFINE q == [req[r] EXCEPT !.pc = pc]
<1>1. req[r] \in Request /\ req \in [Requests -> Request]
  BY DEF IInv, TypeOK
<1>2. q \in Request /\ req' = [req EXCEPT ![r] = q]
  BY <1>1 DEF Request, Goto
<1>3. /\ q.pc = pc /\ q.kind = req[r].kind /\ q.id = req[r].id
      /\ q.platform = req[r].platform /\ q.todo = req[r].todo
      /\ q.path = req[r].path /\ q.alone = req[r].alone
  BY <1>1 DEF Request
<1> HIDE DEF q
<1> QED
  BY <1>2, <1>3, Stepped

\* A request is over, or dies.
LEMMA EndSteps ==
  ASSUME IInv, NEW r \in Requests, Answer(r) \/ Crash(r)
  PROVE  IInv'
<1>1. /\ Moves(r, Idle) /\ req[r] # Idle
      /\ UNCHANGED <<files, syncRows, userRows, sharing>>
  BY IdleFacts, Stepped DEF Answer, Crash, Done
<1> QED
  BY <1>1, IdleFacts, MoveKeeps DEF IInv, TypeOK, UnshareIsComplete, sharing

LEMMA PageDeletedKeeps ==
  ASSUME IInv, NEW r \in Requests, PageDeleted(r)
  PROVE  IInv'
<1> DEFINE q == [req[r] EXCEPT !.pc = "clear",
                               !.todo = {row.path : row \in At(Plain, TRUE)}]
<1>1. req[r] \in Request /\ userRows \subseteq UserRow /\ UploadOK(req[r])
      /\ DeleteOK(req[r]) /\ AloneOK(r)
  BY DEF IInv, TypeOK
<1>2. req[r].pc = "deleted" /\ req' = [req EXCEPT ![r] = q]
      /\ UNCHANGED <<files, syncRows, userRows, sharing>>
  BY DEF PageDeleted
<1>3. {row.path : row \in At(Plain, TRUE)} \in SUBSET Paths
  <2>1. \A row \in At(Plain, TRUE) : row.path \in Paths
    BY <1>1 DEF At, UserRow
  <2> QED
    BY <2>1
<1>4. /\ q \in Request /\ q.pc = "clear" /\ q.kind = req[r].kind /\ q.id = req[r].id
      /\ q.platform = req[r].platform /\ q.alone = req[r].alone
  BY <1>1, <1>3 DEF Request
<1> HIDE DEF q
<1>5. Moves(r, q) /\ req[r] # Idle
  BY <1>2, <1>4, Stepped, IdleFacts
<1>6. UploadOK(q)
  BY <1>1, <1>2, <1>4 DEF UploadOK, Sends
<1>7. DeleteOK(q)
  BY <1>1, <1>2, <1>4 DEF UploadOK, DeleteOK
<1>8. q.alone => AloneOK(r)'
  <2>1. req'[r] = q /\ disk' = disk /\ syncRows' = syncRows
    BY <1>2, <1>5 DEF Moves, files
  <2>2. \A s \in Requests \ {r} : req'[s] = req[s]
    BY <1>5 DEF Moves
  <2> QED
    BY <1>1, <1>4, <2>1, <2>2 DEF AloneOK
<1> QED
  BY <1>2, <1>4, <1>5, <1>6, <1>7, <1>8, MoveKeeps
     DEF IInv, TypeOK, UnshareIsComplete, sharing, Sends

LEMMA MissingKeeps ==
  ASSUME IInv, NEW r \in Requests, NEW path \in Paths, Missing(r, path)
  PROVE  IInv'
<1> DEFINE q == [req[r] EXCEPT !.todo = @ \ {path}]
<1>1. /\ req[r] \in Request /\ UploadOK(req[r]) /\ DeleteOK(req[r]) /\ AloneOK(r) /\ RowsOK
  BY DEF IInv, TypeOK
<1>2. /\ req[r].pc = "clear" /\ path \in req[r].todo /\ disk[req[r].platform][path] = 0
      /\ req' = [req EXCEPT ![r] = q]
      /\ UNCHANGED <<files, syncRows, userRows, sharing>>
  BY DEF Missing
<1>4. /\ q \in Request /\ q.pc = "clear" /\ q.kind = req[r].kind /\ q.id = req[r].id
      /\ q.platform = req[r].platform /\ q.alone = req[r].alone /\ q.path = req[r].path
      /\ q.todo = req[r].todo \ {path}
  BY <1>1, <1>2 DEF Request
<1> HIDE DEF q
<1>5. Moves(r, q) /\ req[r] # Idle
  BY <1>2, <1>4, Stepped, IdleFacts
<1>6. UploadOK(q)
  BY <1>1, <1>2, <1>4 DEF UploadOK, Sends
<1>7. DeleteOK(q)
  <2> SUFFICES ASSUME q.kind = "delete" PROVE DeleteOK(q)
    BY DEF DeleteOK
  <2>1. /\ q.platform = PagePlatform /\ req[r].todo \subseteq {q.path} /\ path = q.path
        /\ q.todo = {}
    BY <1>1, <1>2, <1>4 DEF DeleteOK
  <2>2. PICK row \in userRows : row.id = q.id /\ row.path = q.path
    BY <1>1, <1>2, <1>4 DEF DeleteOK
  <2>3. row.id # 0
    BY <2>2 DEF IInv, TypeOK, UserRow, Uploads
  <2>4. OffDisk(q.id)
    BY <1>1, <1>2, <1>4, <2>1, <2>2, <2>3 DEF RowsOK, OffDisk
  <2> QED
    BY <2>1, <2>2, <2>4 DEF DeleteOK
<1>8. q.alone => AloneOK(r)'
  <2>1. req'[r] = q /\ disk' = disk /\ syncRows' = syncRows
    BY <1>2, <1>5 DEF Moves, files
  <2>2. \A s \in Requests \ {r} : req'[s] = req[s]
    BY <1>5 DEF Moves
  <2> QED
    BY <1>1, <1>4, <2>1, <2>2 DEF AloneOK
<1> QED
  BY <1>2, <1>4, <1>5, <1>6, <1>7, <1>8, MoveKeeps
     DEF IInv, TypeOK, UnshareIsComplete, sharing, Sends

LEMMA ExistsKeeps ==
  ASSUME IInv, NEW r \in Requests, NEW path \in Paths, Exists(r, path)
  PROVE  IInv'
<1> DEFINE q == [req[r] EXCEPT !.pc = "unlink", !.path = path]
<1>1. /\ req[r] \in Request /\ UploadOK(req[r]) /\ DeleteOK(req[r]) /\ AloneOK(r)
  BY DEF IInv, TypeOK
<1>2. /\ req[r].pc = "clear" /\ path \in req[r].todo /\ disk[req[r].platform][path] # 0
      /\ req' = [req EXCEPT ![r] = q]
      /\ UNCHANGED <<files, syncRows, userRows, sharing>>
  BY DEF Exists
<1>4. /\ q \in Request /\ q.pc = "unlink" /\ q.kind = req[r].kind /\ q.id = req[r].id
      /\ q.platform = req[r].platform /\ q.alone = req[r].alone /\ q.path = path
      /\ q.todo = req[r].todo
  BY <1>1, <1>2 DEF Request
<1> HIDE DEF q
<1>5. Moves(r, q) /\ req[r] # Idle
  BY <1>2, <1>4, Stepped, IdleFacts
<1>6. UploadOK(q)
  BY <1>1, <1>2, <1>4 DEF UploadOK, Sends
<1>7. DeleteOK(q)
  BY <1>1, <1>2, <1>4 DEF DeleteOK
<1>8. q.alone => AloneOK(r)'
  <2>1. req'[r] = q /\ disk' = disk /\ syncRows' = syncRows
    BY <1>2, <1>5 DEF Moves, files
  <2>2. \A s \in Requests \ {r} : req'[s] = req[s]
    BY <1>5 DEF Moves
  <2> QED
    BY <1>1, <1>2, <1>4, <2>1, <2>2 DEF AloneOK
<1> QED
  BY <1>2, <1>4, <1>5, <1>6, <1>7, <1>8, MoveKeeps
     DEF IInv, TypeOK, UnshareIsComplete, sharing, Sends

LEMMA ShareSteps ==
  ASSUME IInv, NEW r \in Requests, ShareInsert(r) \/ Unshare
  PROVE  IInv'
<1>1. ASSUME ShareInsert(r) PROVE IInv'
  <2>1. /\ req[r] \in Request /\ UploadOK(req[r]) /\ AloneOK(r) /\ shares \in Nat
    BY DEF IInv, TypeOK
  <2>2. /\ req[r].pc = "share" /\ Goto(r, "ok") /\ shares' = shares + 1 /\ shared'
        /\ UNCHANGED <<files, syncRows, userRows>>
    BY <1>1 DEF ShareInsert
  <2>3. PICK q \in Request :
            /\ Moves(r, q) /\ q.pc = "ok" /\ q.kind = req[r].kind /\ q.id = req[r].id
            /\ q.platform = req[r].platform /\ q.todo = req[r].todo
            /\ q.path = req[r].path /\ q.alone = req[r].alone
    BY <2>2, WentTo
  <2>4. ~Sends(q) /\ req[r] # Idle /\ UploadOK(q) /\ DeleteOK(q)
    BY <2>1, <2>2, <2>3, IdleFacts DEF UploadOK, Sends, DeleteOK
  <2>5. q.alone => AloneOK(r)'
    <3>1. req'[r] = q /\ \A s \in Requests \ {r} : req'[s] = req[s]
      BY <2>3 DEF Moves
    <3> QED
      BY <2>1, <2>3, <2>4, <3>1 DEF AloneOK, Sends
  <2> QED
    BY <1>1, <2>1, <2>2, <2>3, <2>4, <2>5, MoveKeeps DEF UnshareIsComplete, ShareInsert
<1>2. ASSUME Unshare PROVE IInv'
  <2>1. shares' = 0 /\ shared' = FALSE /\ UNCHANGED <<files, syncRows, userRows, req>>
    BY <1>2 DEF Unshare
  <2>2. /\ TypeOK' /\ DeletedContentGone' /\ UnshareIsComplete' /\ SendersOK' /\ RowsOK'
    BY <2>1 DEF IInv, TypeOK, DeletedContentGone, UnshareIsComplete, SendersOK, RowsOK, files
  <2>3. \A s \in Requests : UploadOK(req[s])' /\ DeleteOK(req[s])' /\ AloneOK(s)'
    BY <2>1 DEF IInv, UploadOK, DeleteOK, AloneOK, OffDisk, Rowless, files, Rows
  <2> QED
    BY <2>2, <2>3 DEF IInv
<1> QED
  BY <1>1, <1>2
-----------------------------------------------------------------------------
(* Steps that change files. *)

LEMMA UnlinkKeeps ==
  ASSUME IInv, NEW r \in Requests, Unlink(r)
  PROVE  IInv'
<1>1. /\ req[r] \in Request /\ UploadOK(req[r]) /\ DeleteOK(req[r]) /\ AloneOK(r)
      /\ RowsOK /\ TypeOK /\ req[r].pc = "unlink"
  BY DEF IInv, TypeOK, Unlink
<1>2. CASE disk[req[r].platform][req[r].path] = 0
  <2>1. Goto(r, "error") /\ UNCHANGED <<files, syncRows, userRows, sharing>>
    BY <1>2 DEF Unlink, files
  <2>2. PICK q \in Request :
            /\ Moves(r, q) /\ q.pc = "error" /\ q.kind = req[r].kind /\ q.id = req[r].id
            /\ q.platform = req[r].platform /\ q.todo = req[r].todo
            /\ q.path = req[r].path /\ q.alone = req[r].alone
    BY <2>1, WentTo
  <2>3. req[r] # Idle /\ UploadOK(q) /\ DeleteOK(q) /\ ~q.alone
    BY <1>1, <1>2, <2>2, IdleFacts DEF UploadOK, Sends, DeleteOK, AloneOK
  <2> QED
    BY <1>1, <2>1, <2>2, <2>3, MoveKeeps DEF IInv, TypeOK, UnshareIsComplete, sharing, Sends
<1>3. CASE disk[req[r].platform][req[r].path] # 0
  <2> DEFINE P == req[r].platform
             X == req[r].path
             q == [req[r] EXCEPT !.pc = "clear", !.todo = @ \ {X}]
  <2>1. /\ disk' = [disk EXCEPT ![P][X] = 0] /\ req' = [req EXCEPT ![r] = q]
        /\ UNCHANGED <<nextUpload, syncRows, userRows, sharing>>
    BY <1>3 DEF Unlink
  <2>2. /\ q \in Request /\ q.pc = "clear" /\ q.kind = req[r].kind /\ q.id = req[r].id
        /\ q.platform = P /\ q.todo = req[r].todo \ {X}
        /\ q.path = X /\ q.alone = req[r].alone /\ P \in Platforms /\ X \in Paths
    BY <1>1 DEF Request
  <2> HIDE DEF q
  <2>3. Moves(r, q) /\ req[r] # Idle
    BY <1>1, <2>1, <2>2, Stepped, IdleFacts
  <2>4. /\ disk' \in [Platforms -> [Paths -> 0 .. MaxUploads]]
        /\ \A p \in Platforms, x \in Paths :
              disk'[p][x] = IF p = P /\ x = X THEN 0 ELSE disk[p][x]
    BY <1>1, <2>1, <2>2 DEF TypeOK
  <2>5. TypeOK'
    BY <1>1, <2>1, <2>3, <2>4 DEF TypeOK, Moves, sharing
  <2>6. \A row \in syncRows \union userRows : row.id \in Nat \ {0}
    BY <1>1 DEF TypeOK, SyncRow, UserRow, Uploads
  <2>7. DeletedContentGone' /\ UnshareIsComplete'
    BY <1>1, <2>1, <2>4, <2>6 DEF IInv, DeletedContentGone, UnshareIsComplete, sharing,
       TypeOK, LibraryAssumption
  <2>8. SendersOK' /\ \A s \in Requests : Sends(req[s]) => req[s].id # 0
    BY <2>1, <2>2, <2>3, SendersMove DEF Sends, IInv, SendersOK
  <2>9. RowsOK'
    BY <1>1, <2>1, <2>4, <2>6 DEF RowsOK, TypeOK
  <2>10. \A id : id # 0 /\ OffDisk(id) => OffDisk(id)'
    BY <2>4 DEF OffDisk
  <2>11. \A s \in Requests : UploadOK(req[s])' /\ DeleteOK(req[s])'
    <3> TAKE s \in Requests
    <3>1. CASE s # r
      <4>1. req'[s] = req[s] /\ UploadOK(req[s]) /\ DeleteOK(req[s])
        BY <2>3, <3>1 DEF IInv, Moves
      <4>2. UploadOK(req[s])'
        BY <2>1, <2>4, <2>8, <2>10, <4>1 DEF UploadOK, Rowless
      <4>3. DeleteOK(req[s])'
        BY <2>1, <2>6, <2>10, <4>1 DEF DeleteOK
      <4> QED
        BY <4>2, <4>3
    <3>2. CASE s = r
      <4>1. req'[r] = q
        BY <2>3 DEF Moves
      <4>2. UploadOK(req[r])'
        <5>1. Sends(q) => q.id # 0
          BY <2>2, <2>8 DEF Sends
        <5> QED
          BY <1>1, <2>1, <2>2, <2>10, <4>1, <5>1 DEF UploadOK, Rowless, Sends
      <4>3. DeleteOK(req[r])'
        <5> SUFFICES ASSUME q.kind = "delete" PROVE DeleteOK(req[r])'
          BY <4>1 DEF DeleteOK
        <5>1. /\ P = PagePlatform /\ req[r].todo \subseteq {X}
              /\ \E row \in userRows : row.id = q.id /\ row.path = X
          BY <1>1, <2>2 DEF DeleteOK
        <5>2. \A p \in Platforms, x \in Paths : disk'[p][x] # q.id
          BY <1>1, <2>4, <2>6, <5>1 DEF RowsOK
        <5> QED
          BY <2>1, <2>2, <4>1, <5>1, <5>2 DEF DeleteOK, OffDisk
      <4> QED
        BY <3>2, <4>1, <4>2, <4>3
    <3> QED
      BY <3>1, <3>2
  <2>12. q.alone => AloneOK(r)'
    <3>1. req'[r] = q /\ \A s \in Requests \ {r} : req'[s] = req[s]
      BY <2>3 DEF Moves
    <3> QED
      BY <1>1, <2>2, <3>1 DEF AloneOK
  <2> QED
    BY <2>2, <2>3, <2>5, <2>7, <2>8, <2>9, <2>11, <2>12, AloneMoves DEF IInv
<1> QED
  BY <1>2, <1>3

LEMMA StoreFileKeeps ==
  ASSUME IInv, NEW r \in Requests, StoreFile(r)
  PROVE  IInv'
<1> DEFINE P == req[r].platform
           X == FreePath(P, req[r].id)
           q == [req[r] EXCEPT !.pc = "insert", !.path = X]
<1>1. /\ req[r] \in Request /\ UploadOK(req[r]) /\ DeleteOK(req[r]) /\ AloneOK(r)
      /\ RowsOK /\ TypeOK
  BY DEF IInv, TypeOK
<1>2. Sends(req[r]) /\ req[r].pc \in {"clear", "store"} /\ req[r].id \in 1 .. nextUpload - 1
  BY <1>1 DEF StoreFile, Cleared, UploadOK, Sends, IInv, SendersOK
<1>3. X \in {Plain, req[r].id} /\ X \in Paths /\ P \in Platforms
  BY <1>1, <1>2 DEF FreePath, Paths, Plain, Uploads, Request
<1>4. /\ disk' = [disk EXCEPT ![P][X] = req[r].id] /\ req' = [req EXCEPT ![r] = q]
      /\ UNCHANGED <<nextUpload, syncRows, userRows, sharing>>
  BY DEF StoreFile, RowPath
<1> HIDE DEF X
<1>5. /\ q \in Request /\ q.pc = "insert" /\ q.kind = req[r].kind /\ q.id = req[r].id
      /\ q.platform = P /\ q.path = X /\ q.alone = req[r].alone
  BY <1>1, <1>3 DEF Request
<1> HIDE DEF q
<1>6. Moves(r, q) /\ req[r] # Idle
  BY <1>2, <1>4, <1>5, Stepped, IdleFacts
<1>7. /\ disk' \in [Platforms -> [Paths -> 0 .. MaxUploads]]
      /\ \A p \in Platforms, x \in Paths :
            disk'[p][x] = IF p = P /\ x = X THEN q.id ELSE disk[p][x]
  BY <1>1, <1>3, <1>4, <1>5 DEF TypeOK, Request
<1>8. OffDisk(q.id) /\ Rowless(q.id) /\ q.id \in Nat \ {0} /\ q.id < nextUpload
  BY <1>1, <1>2, <1>5 DEF UploadOK, Request, TypeOK
<1>9. TypeOK'
  BY <1>1, <1>4, <1>6, <1>7 DEF TypeOK, Moves, sharing
<1>10. DeletedContentGone' /\ UnshareIsComplete'
  BY <1>4, <1>7, <1>8 DEF IInv, DeletedContentGone, UnshareIsComplete, sharing, Rowless
<1>11. SendersOK'
  BY <1>2, <1>4, <1>5, <1>6, SendersMove
<1>12. RowsOK'
  BY <1>1, <1>4, <1>7, <1>8 DEF RowsOK, Rowless
<1>13. \A id : id # q.id /\ OffDisk(id) => OffDisk(id)'
  BY <1>7 DEF OffDisk
<1>14. \A s \in Requests : UploadOK(req[s])' /\ DeleteOK(req[s])'
  <2> TAKE s \in Requests
  <2>1. CASE s # r
    <3>1. req'[s] = req[s] /\ UploadOK(req[s]) /\ DeleteOK(req[s])
      BY <1>6, <2>1 DEF IInv, Moves
    <3>2. Sends(req[s]) => req[s].id # q.id
      BY <1>2, <1>5, <2>1 DEF IInv, SendersOK
    <3>3. UploadOK(req[s])'
      BY <1>4, <1>7, <1>13, <3>1, <3>2 DEF UploadOK, Rowless
    <3>4. DeleteOK(req[s])'
      BY <1>4, <1>8, <1>13, <3>1 DEF DeleteOK, Rowless
    <3> QED
      BY <3>3, <3>4
  <2>2. CASE s = r
    <3>1. req'[r] = q
      BY <1>6 DEF Moves
    <3>2. UploadOK(req[r])'
      BY <3>1, <1>1, <1>3, <1>4, <1>5, <1>7, <1>8 DEF UploadOK, Rowless, Sends, OffDisk
    <3> QED
      BY <1>5, <2>2, <3>1, <3>2 DEF DeleteOK
  <2> QED
    BY <2>1, <2>2
<1>15. q.alone => AloneOK(r)'
  <2>1. req'[r] = q /\ \A s \in Requests \ {r} : req'[s] = req[s]
    BY <1>6 DEF Moves
  <2>2. disk'[q.platform][q.path] = q.id
    BY <1>3, <1>5, <1>7
  <2>3. q.kind = "sync" => req[r].pc = "store"
    BY <1>5 DEF StoreFile
  <2> QED
    BY <1>1, <1>4, <1>5, <2>1, <2>2, <2>3 DEF AloneOK, Rows
<1> QED
  BY <1>5, <1>6, <1>9, <1>10, <1>11, <1>12, <1>14, <1>15, AloneMoves DEF IInv
-----------------------------------------------------------------------------
(* Steps that change rows. *)

\* A row of the request's own upload is inserted, or those of one platform go.
LEMMA SyncRowsKeep ==
  ASSUME IInv, NEW r \in Requests, NEW q \in Request, Moves(r, q), req[r] # Idle,
         UNCHANGED <<files, userRows, sharing>>, syncRows' \subseteq SyncRow,
         \A row \in syncRows' : \/ row \in syncRows
                                \/ row.id = req[r].id /\ row.path \in {Plain, row.id},
         Sends(req[r]), q.id = req[r].id, q.kind = req[r].kind,
         q.pc \in {"store", "checksum", "ok"}, q.pc \in {"store", "checksum"} => q.kind = "sync",
         q.pc = "checksum" => q.path \in {Plain, q.id},
         q.pc = "store" => syncRows' \subseteq syncRows /\ OffDisk(q.id) /\ Rowless(q.id),
         UploadOK(req[r]), q.platform = req[r].platform, q.alone => AloneOK(r)'
  PROVE  IInv'
<1>1. TypeOK'
  <2>1. \A row \in syncRows' \union userRows' : row.path \in {Plain, row.id}
    BY DEF IInv, TypeOK
  <2> QED
    BY <2>1 DEF IInv, TypeOK, files, sharing, Moves
<1>2. DeletedContentGone' /\ UnshareIsComplete'
  BY DEF IInv, DeletedContentGone, UnshareIsComplete, files, sharing
<1>3. SendersOK' /\ req[r].id < nextUpload
  <2>1. nextUpload' = nextUpload /\ nextUpload \in Nat
    BY DEF files, IInv, TypeOK
  <2> QED
    BY <2>1, SendersMove DEF IInv, SendersOK
<1>4. RowsOK'
  BY <1>3 DEF IInv, RowsOK, files
<1>5. \A s \in Requests : UploadOK(req[s])' /\ DeleteOK(req[s])'
  <2> TAKE s \in Requests
  <2>1. CASE s # r
    <3>1. req'[s] = req[s] /\ UploadOK(req[s]) /\ DeleteOK(req[s])
      BY <2>1 DEF IInv, Moves
    <3>2. Sends(req[s]) => req[s].id # req[r].id
      BY <2>1 DEF IInv, SendersOK
    <3>3. Sends(req[s]) /\ Rowless(req[s].id) => Rowless(req[s].id)'
      BY <3>1, <3>2 DEF Rowless
    <3>4. UploadOK(req[s])'
      BY <3>1, <3>3 DEF UploadOK, OffDisk, files
    <3>5. DeleteOK(req[s])'
      BY <3>1 DEF DeleteOK, OffDisk, files
    <3> QED
      BY <3>4, <3>5
  <2>2. CASE s = r
    <3>1. req'[r] = q
      BY DEF Moves
    <3>2. UploadOK(req[r])'
      BY <3>1 DEF UploadOK, Sends, OffDisk, Rowless, files
    <3>3. DeleteOK(req[r])'
      BY <3>1 DEF DeleteOK
    <3> QED
      BY <2>2, <3>2, <3>3
  <2> QED
    BY <2>1, <2>2
<1> QED
  BY <1>1, <1>2, <1>3, <1>4, <1>5, AloneMoves DEF IInv

LEMMA DeleteRowsKeeps ==
  ASSUME IInv, NEW r \in Requests, DeleteRows(r)
  PROVE  IInv'
<1>1. /\ req[r] \in Request /\ UploadOK(req[r]) /\ AloneOK(r) /\ syncRows \subseteq SyncRow
      /\ req[r].pc = "clear" /\ req[r].kind = "sync" /\ Goto(r, "store")
      /\ syncRows' = syncRows \ Rows(req[r].platform)
      /\ UNCHANGED <<files, userRows, sharing>>
  BY DEF IInv, TypeOK, DeleteRows, Cleared, Superseded
<1>2. PICK q \in Request :
          /\ Moves(r, q) /\ q.pc = "store" /\ q.kind = req[r].kind /\ q.id = req[r].id
          /\ q.platform = req[r].platform /\ q.todo = req[r].todo
          /\ q.path = req[r].path /\ q.alone = req[r].alone
  BY <1>1, WentTo
<1>3. q.alone => AloneOK(r)'
  <2>1. req'[r] = q /\ \A s \in Requests \ {r} : req'[s] = req[s]
    BY <1>2 DEF Moves
  <2>2. Rows(q.platform)' = {}
    BY <1>1, <1>2 DEF Rows
  <2> QED
    BY <1>1, <1>2, <2>1, <2>2 DEF AloneOK
<1> QED
  BY <1>1, <1>2, <1>3, IdleFacts, SyncRowsKeep DEF UploadOK, Sends

\* The row that a sync inserts is the one of its upload.
LEMMA InsertedRow ==
  ASSUME NEW q \in Request, Sends(q), q.path \in {Plain, q.id}, q.id # 0,
         syncRows \subseteq SyncRow
  PROVE  /\ Inserted(q) \subseteq SyncRow
         /\ \A row \in Inserted(q) : \/ row \in syncRows
                                     \/ row.id = q.id /\ row.path \in {Plain, row.id}
         /\ Rows(q.platform) \subseteq {[id |-> q.id, platform |-> q.platform, path |-> q.path]}
               => {row \in Inserted(q) : row.platform = q.platform}
                     = {[id |-> q.id, platform |-> q.platform, path |-> q.path]}
<1>1. q.id \in Uploads /\ q.platform \in Platforms /\ q.path \in Paths
  BY DEF Request, Uploads
<1>2. [id |-> q.id, platform |-> q.platform, path |-> q.path] \in SyncRow
  BY <1>1 DEF SyncRow
<1> QED
  BY <1>1, <1>2 DEF Inserted, Rows

LEMMA InsertRowKeeps ==
  ASSUME IInv, NEW r \in Requests, InsertRow(r)
  PROVE  IInv'
<1>1. /\ req[r] \in Request /\ UploadOK(req[r]) /\ DeleteOK(req[r]) /\ AloneOK(r)
      /\ RowsOK /\ TypeOK /\ req[r].pc = "insert"
  BY DEF IInv, TypeOK, InsertRow
<1>2. ASSUME Sends(req[r])
      PROVE  req[r].id \in 1 .. nextUpload - 1 /\ req[r].path \in {Plain, req[r].id}
  BY <1>1, <1>2 DEF IInv, SendersOK, UploadOK
<1>3. CASE req[r].kind = "sync" /\ syncRows' = Inserted(req[r]) /\ Goto(r, "checksum")
           /\ UNCHANGED <<files, userRows, sharing>>
  <2>1. PICK q \in Request :
            /\ Moves(r, q) /\ q.pc = "checksum" /\ q.kind = req[r].kind /\ q.id = req[r].id
            /\ q.platform = req[r].platform /\ q.todo = req[r].todo
            /\ q.path = req[r].path /\ q.alone = req[r].alone
    BY <1>3, WentTo
  <2>2. Sends(req[r]) /\ req[r].id # 0 /\ req[r].path \in {Plain, req[r].id}
    BY <1>2, <1>3 DEF Sends
  <2>3. q.alone => AloneOK(r)'
    <3> SUFFICES ASSUME q.alone PROVE AloneOK(r)'
      OBVIOUS
    <3>1. req'[r] = q /\ disk' = disk /\ \A s \in Requests \ {r} : req'[s] = req[s]
      BY <1>3, <2>1 DEF Moves, files
    <3>2. Rows(req[r].platform) = {}
      BY <1>1, <1>3, <2>1 DEF AloneOK
    <3>3. Rows(q.platform)' = {[id |-> q.id, platform |-> q.platform, path |-> q.path]}
      BY <1>1, <1>3, <2>1, <2>2, <3>2, InsertedRow DEF Rows, TypeOK
    <3> QED
      BY <1>1, <2>1, <2>2, <3>1, <3>3 DEF AloneOK
  <2> QED
    BY <1>1, <1>3, <2>1, <2>2, <2>3, IdleFacts, InsertedRow, SyncRowsKeep DEF TypeOK
<1>4. CASE /\ req[r].kind = "upload"
           /\ userRows' = userRows \union
                 {[id |-> req[r].id, path |-> req[r].path, deleted |-> FALSE]}
           /\ Goto(r, "ok")
           /\ UNCHANGED <<files, syncRows, sharing>>
  <2> DEFINE new == [id |-> req[r].id, path |-> req[r].path, deleted |-> FALSE]
  <2>1. PICK q \in Request :
            /\ Moves(r, q) /\ q.pc = "ok" /\ q.kind = req[r].kind /\ q.id = req[r].id
            /\ q.platform = req[r].platform /\ q.todo = req[r].todo
            /\ q.path = req[r].path /\ q.alone = req[r].alone
    BY <1>4, WentTo
  <2>2. /\ Sends(req[r]) /\ req[r].id \in 1 .. nextUpload - 1 /\ req[r].id \in Uploads
        /\ req[r].path \in {Plain, req[r].id} /\ req[r].path \in Paths
    BY <1>1, <1>2, <1>4 DEF Sends, Request, Uploads
  <2>3. /\ new \in UserRow /\ new.id = q.id /\ new.path = q.path /\ ~new.deleted
        /\ \A row \in userRows' : row \in userRows \/ row = new
        /\ \A row \in userRows : row \in userRows'
    BY <1>4, <2>1, <2>2 DEF UserRow
  <2> HIDE DEF new
  <2>4. Rowless(q.id) /\ q.platform = PagePlatform
        /\ \A p \in Platforms, x \in Paths : disk[p][x] = q.id => p = q.platform /\ x = q.path
    BY <1>1, <1>4, <2>1, <2>2 DEF UploadOK
  <2>5. TypeOK'
    BY <1>1, <1>4, <2>1, <2>2, <2>3 DEF TypeOK, files, sharing, Moves
  <2>6. DeletedContentGone' /\ UnshareIsComplete'
    BY <1>4, <2>3 DEF IInv, DeletedContentGone, UnshareIsComplete, files, sharing
  <2>7. SendersOK'
    BY <1>4, <2>1, <2>2, SendersMove DEF files
  <2>8. RowsOK'
    BY <1>1, <1>4, <2>1, <2>2, <2>3, <2>4 DEF RowsOK, files, Rowless, TypeOK
  <2>9. \A s \in Requests : UploadOK(req[s])' /\ DeleteOK(req[s])'
    <3> TAKE s \in Requests
    <3>1. CASE s # r
      <4>1. req'[s] = req[s] /\ UploadOK(req[s]) /\ DeleteOK(req[s])
        BY <2>1, <3>1 DEF IInv, Moves
      <4>2. Sends(req[s]) => req[s].id # q.id
        BY <2>1, <2>2, <3>1 DEF IInv, SendersOK
      <4>3. Sends(req[s]) /\ Rowless(req[s].id) => Rowless(req[s].id)'
        BY <1>4, <2>3, <4>1, <4>2 DEF Rowless
      <4>4. UploadOK(req[s])'
        BY <1>4, <4>1, <4>3 DEF UploadOK, OffDisk, files
      <4>5. DeleteOK(req[s])'
        BY <1>4, <2>3, <4>1 DEF DeleteOK, OffDisk, files
      <4> QED
        BY <4>4, <4>5
    <3>2. CASE s = r
      BY <2>1, <2>4, <3>2 DEF Moves, UploadOK, DeleteOK
    <3> QED
      BY <3>1, <3>2
  <2>10. q.alone => AloneOK(r)'
    <3>1. req'[r] = q /\ disk' = disk /\ \A s \in Requests \ {r} : req'[s] = req[s]
      BY <1>4, <2>1 DEF Moves, files
    <3> QED
      BY <1>1, <1>4, <2>1, <2>2, <3>1 DEF AloneOK
  <2> QED
    BY <1>1, <2>1, <2>5, <2>6, <2>7, <2>8, <2>9, <2>10, IdleFacts, AloneMoves DEF IInv
<1> QED
  BY <1>3, <1>4 DEF InsertRow, files, sharing

LEMMA SaveChecksumKeeps ==
  ASSUME IInv, NEW r \in Requests, SaveChecksum(r)
  PROVE  IInv'
<1>1. /\ req[r] \in Request /\ UploadOK(req[r]) /\ AloneOK(r) /\ TypeOK
      /\ req[r].pc = "checksum" /\ UNCHANGED <<files, userRows, sharing>>
  BY DEF IInv, TypeOK, SaveChecksum
<1>2. /\ req[r].kind = "sync" /\ Sends(req[r]) /\ req[r].id \in 1 .. nextUpload - 1
      /\ req[r].id # 0 /\ req[r].path \in {Plain, req[r].id} /\ req[r] # Idle
  BY <1>1, IdleFacts DEF UploadOK, Sends, IInv, SendersOK
<1>3. CASE disk[req[r].platform][req[r].path] = 0
  <2>1. Goto(r, "error") /\ UNCHANGED syncRows /\ ~req[r].alone
    BY <1>1, <1>2, <1>3 DEF SaveChecksum, AloneOK
  <2>2. PICK q \in Request :
            /\ Moves(r, q) /\ q.pc = "error" /\ q.kind = req[r].kind /\ q.id = req[r].id
            /\ q.platform = req[r].platform /\ q.todo = req[r].todo
            /\ q.path = req[r].path /\ q.alone = req[r].alone
    BY <2>1, WentTo
  <2>3. UploadOK(q) /\ DeleteOK(q) /\ ~q.alone
    BY <1>2, <2>1, <2>2 DEF UploadOK, Sends, DeleteOK
  <2> QED
    BY <1>1, <1>2, <2>1, <2>2, <2>3, MoveKeeps
       DEF IInv, TypeOK, UnshareIsComplete, sharing, Sends
<1>4. CASE disk[req[r].platform][req[r].path] # 0
  <2>1. Goto(r, "ok") /\ syncRows' = Inserted(req[r])
    BY <1>4 DEF SaveChecksum
  <2>2. PICK q \in Request :
            /\ Moves(r, q) /\ q.pc = "ok" /\ q.kind = req[r].kind /\ q.id = req[r].id
            /\ q.platform = req[r].platform /\ q.todo = req[r].todo
            /\ q.path = req[r].path /\ q.alone = req[r].alone
    BY <2>1, WentTo
  <2>3. q.alone => AloneOK(r)'
    <3> SUFFICES ASSUME q.alone PROVE AloneOK(r)'
      OBVIOUS
    <3>1. req'[r] = q /\ disk' = disk /\ \A s \in Requests \ {r} : req'[s] = req[s]
      BY <1>1, <2>2 DEF Moves, files
    <3>2. Rows(q.platform) = {[id |-> q.id, platform |-> q.platform, path |-> q.path]}
      BY <1>1, <1>2, <2>2 DEF AloneOK
    <3>3. Rows(q.platform)' = {[id |-> q.id, platform |-> q.platform, path |-> q.path]}
      BY <1>1, <1>2, <2>1, <2>2, <3>2, InsertedRow DEF Rows, TypeOK
    <3> QED
      BY <1>1, <1>2, <2>2, <3>1, <3>3 DEF AloneOK
  <2> QED
    BY <1>1, <1>2, <2>1, <2>2, <2>3, InsertedRow, SyncRowsKeep DEF TypeOK
<1> QED
  BY <1>3, <1>4

\* A DELETE marks its row when nothing of it is left on disk.
LEMMA SaveDeletedKeeps ==
  ASSUME IInv, NEW r \in Requests, SaveDeleted(r)
  PROVE  IInv'
<1> DEFINE marked(row) == IF row.id = req[r].id THEN [row EXCEPT !.deleted = TRUE] ELSE row
<1>1. /\ req[r] \in Request /\ DeleteOK(req[r]) /\ AloneOK(r) /\ TypeOK
      /\ req[r].pc = "clear" /\ req[r].kind = "delete" /\ req[r].todo = {}
      /\ Goto(r, "ok") /\ userRows' = {marked(row) : row \in userRows}
      /\ UNCHANGED <<files, syncRows, sharing>>
  BY DEF IInv, TypeOK, SaveDeleted, Cleared
<1>2. PICK q \in Request :
          /\ Moves(r, q) /\ q.pc = "ok" /\ q.kind = req[r].kind /\ q.id = req[r].id
          /\ q.platform = req[r].platform /\ q.todo = req[r].todo
          /\ q.path = req[r].path /\ q.alone = req[r].alone
  BY <1>1, WentTo
<1>3. \A row \in userRows : /\ marked(row) \in UserRow /\ marked(row).id = row.id
                            /\ marked(row).path = row.path
                            /\ marked(row).deleted => row.deleted \/ row.id = req[r].id
  BY <1>1 DEF TypeOK, UserRow
<1> HIDE DEF marked
<1>4. OffDisk(req[r].id)
  BY <1>1 DEF DeleteOK
<1>5. TypeOK'
  BY <1>1, <1>2, <1>3 DEF TypeOK, Moves, files, sharing
<1>6. DeletedContentGone' /\ UnshareIsComplete'
  <2>1. \A row \in userRows : row.deleted \/ row.id = req[r].id =>
           \A x \in Paths : disk[PagePlatform][x] # row.id
    BY <1>4 DEF IInv, DeletedContentGone, OffDisk
  <2> QED
    BY <1>1, <1>3, <2>1 DEF IInv, DeletedContentGone, UnshareIsComplete, files, sharing
<1>7. SendersOK'
  BY <1>1, <1>2, SendersMove DEF files, Sends
<1>8. RowsOK'
  BY <1>1, <1>3 DEF IInv, RowsOK, files
<1>9. \A s \in Requests : UploadOK(req[s])' /\ DeleteOK(req[s])'
  <2> TAKE s \in Requests
  <2>1. CASE s # r
    <3>1. req'[s] = req[s] /\ UploadOK(req[s]) /\ DeleteOK(req[s])
      BY <1>2, <2>1 DEF IInv, Moves
    <3>2. \A id : Rowless(id) => Rowless(id)'
      BY <1>1, <1>3 DEF Rowless
    <3>3. UploadOK(req[s])'
      BY <1>1, <3>1, <3>2 DEF UploadOK, OffDisk, files
    <3>4. DeleteOK(req[s])'
      BY <1>1, <1>3, <3>1 DEF DeleteOK, OffDisk, files
    <3> QED
      BY <3>3, <3>4
  <2>2. CASE s = r
    BY <1>1, <1>2, <2>2 DEF Moves, UploadOK, DeleteOK, Sends
  <2> QED
    BY <2>1, <2>2
<1>10. q.alone => AloneOK(r)'
  <2>1. req'[r] = q /\ disk' = disk /\ \A s \in Requests \ {r} : req'[s] = req[s]
    BY <1>1, <1>2 DEF Moves, files
  <2> QED
    BY <1>1, <1>2, <2>1 DEF AloneOK, Sends
<1> QED
  BY <1>1, <1>2, <1>5, <1>6, <1>7, <1>8, <1>9, <1>10, IdleFacts, AloneMoves DEF IInv

-----------------------------------------------------------------------------
(* The invariant, and what follows from it. *)

LEMMA InitIInv == Init => IInv
<1> SUFFICES ASSUME Init PROVE IInv
  OBVIOUS
<1>1. TypeOK
  <2>1. /\ disk \in [Platforms -> [Paths -> 0 .. MaxUploads]] /\ nextUpload \in 1 .. MaxUploads + 1
    BY DEF Init
  <2>2. req \in [Requests -> Request]
    BY IdleFacts DEF Init
  <2> QED
    BY <2>1, <2>2 DEF Init, TypeOK
<1>2. \A r \in Requests : req[r] = Idle
  BY DEF Init
<1>3. DeletedContentGone /\ UnshareIsComplete
  BY DEF Init, DeletedContentGone, UnshareIsComplete
<1>4. SendersOK /\ \A r \in Requests : UploadOK(req[r]) /\ DeleteOK(req[r]) /\ AloneOK(r)
  BY <1>2, IdleFacts DEF SendersOK, AloneOK
<1>5. RowsOK
  BY DEF Init, RowsOK
<1> QED
  BY <1>1, <1>3, <1>4, <1>5 DEF IInv

LEMMA NextIInv == IInv /\ [Next]_vars => IInv'
<1> SUFFICES ASSUME IInv, [Next]_vars PROVE IInv'
  OBVIOUS
<1>1. ASSUME NEW r \in Requests,
             \/ \E p \in Platforms : SyncUpload(r, p)
             \/ PageUpload(r) \/ PageDeleted(r)
             \/ \E row \in userRows : PageDelete(r, row)
             \/ \E path \in Paths : Missing(r, path) \/ Exists(r, path)
             \/ Unlink(r) \/ DeleteRows(r) \/ StoreFile(r) \/ InsertRow(r)
             \/ SaveChecksum(r) \/ SaveDeleted(r)
             \/ ShareCheck(r) \/ ShareInsert(r)
             \/ Answer(r) \/ Crash(r)
      PROVE  IInv'
  BY <1>1, BeginSteps, EndSteps, PageDeletedKeeps, MissingKeeps, ExistsKeeps, ShareSteps,
     UnlinkKeeps, StoreFileKeeps, DeleteRowsKeeps, InsertRowKeeps, SaveChecksumKeeps,
     SaveDeletedKeeps
<1>2. CASE Unshare
  <2>1. CASE Requests = {}
    BY <1>2, <2>1 DEF Unshare, IInv, TypeOK, DeletedContentGone, UnshareIsComplete, SendersOK,
       RowsOK, files
  <2>2. CASE Requests # {}
    BY <1>2, <2>2, ShareSteps
  <2> QED
    BY <2>1, <2>2
<1>3. CASE UNCHANGED vars
  <2>1. /\ UNCHANGED <<disk, nextUpload, syncRows, userRows, shares, shared, req>>
    BY <1>3 DEF vars, files, sharing
  <2>2. TypeOK' /\ DeletedContentGone' /\ UnshareIsComplete' /\ SendersOK' /\ RowsOK'
    BY <2>1 DEF IInv, TypeOK, DeletedContentGone, UnshareIsComplete, SendersOK, RowsOK
  <2>3. \A s \in Requests : UploadOK(req[s])' /\ DeleteOK(req[s])' /\ AloneOK(s)'
    BY <2>1 DEF IInv, UploadOK, DeleteOK, AloneOK, OffDisk, Rowless, Rows
  <2> QED
    BY <2>2, <2>3 DEF IInv
<1> QED
  BY <1>1, <1>2, <1>3 DEF Next

LEMMA SpecIInv == Spec => []IInv
  BY InitIInv, NextIInv, PTL DEF Spec

\* Every variable keeps its type, and a row never names another upload's path.
THEOREM LibraryTyped == Spec => []TypeOK
<1>1. IInv => TypeOK
  BY DEF IInv
<1> QED
  BY <1>1, SpecIInv, PTL

\* However uploads, syncs and deletions of one name race and crash, what a marked row's
\* upload sent is on no disk.
THEOREM DeletedIsGone == Spec => []DeletedContentGone
<1>1. IInv => DeletedContentGone
  BY DEF IInv
<1> QED
  BY <1>1, SpecIInv, PTL

\* An upload that nothing overlaps succeeds and is served, whatever was left behind
\* before it.
THEOREM LoneUploadsWork == Spec => []LoneUploadIsServed
<1>1. IInv => LoneUploadIsServed
  <2> SUFFICES ASSUME IInv, NEW r \in Requests, req[r].alone
               PROVE  /\ req[r].pc # "error"
                      /\ req[r].pc = "ok" /\ req[r].kind \in {"sync", "upload"} =>
                            disk[req[r].platform][req[r].path] = req[r].id
                      /\ req[r].pc = "ok" /\ req[r].kind = "sync" =>
                            {row.id : row \in Rows(req[r].platform)} = {req[r].id}
    BY DEF LoneUploadIsServed
  <2>1. AloneOK(r)
    BY DEF IInv
  <2>2. ASSUME req[r].pc = "ok", req[r].kind = "sync"
        PROVE  {row.id : row \in Rows(req[r].platform)} = {req[r].id}
    <3>1. Rows(req[r].platform) =
             {[id |-> req[r].id, platform |-> req[r].platform, path |-> req[r].path]}
      BY <2>1, <2>2 DEF AloneOK
    <3> QED
      BY <3>1
  <2> QED
    BY <2>1, <2>2 DEF AloneOK, Sends
<1> QED
  BY <1>1, SpecIInv, PTL

\* Unsharing ends every row that two sharings at once may have stored.
THEOREM UnsharingEndsAll == Spec => []UnshareIsComplete
<1>1. IInv => UnshareIsComplete
  BY DEF IInv
<1> QED
  BY <1>1, SpecIInv, PTL
=============================================================================
