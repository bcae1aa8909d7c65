------------------------------- MODULE Library -------------------------------
(***************************************************************************)
(* The legacy library of one account (views.py): the files its devices     *)
(* sync (upload_sync_data), the files it uploads and deletes on the        *)
(* library page (upload_view, user_data_action), and the row that shares   *)
(* the synced files with a follower (follower).  No handler runs in a      *)
(* transaction: a step is one statement or one call of the file system.    *)
(* All files here have one name; synced and uploaded files live in the     *)
(* same directory, one per platform.                                       *)
(***************************************************************************)
EXTENDS Naturals

CONSTANTS Requests,
          Platforms,
          PagePlatform, \* the platform that upload_view reads from the name's ending
          MaxUploads    \* bound: files ever sent

ASSUME LibraryAssumption ==
    /\ PagePlatform \in Platforms
    /\ MaxUploads \in Nat

Uploads == 1 .. MaxUploads
Plain == 0

VARIABLES
    disk,       \* what each platform's directory holds: upload by path, 0 for no file
    nextUpload,
    syncRows,   \* SyncData
    userRows,   \* UserData
    shares,     \* how many Sharing rows name the follower
    shared,     \* history: the follower was shared with since the last unsharing
    req

files == <<disk, nextUpload>>
sharing == <<shares, shared>>
vars == <<files, syncRows, userRows, sharing, req>>

\* A path is Plain, user_directory_path's, or named after the upload it was made for.
Paths == {Plain} \union Uploads
SyncRow == [id : Uploads, platform : Platforms, path : Paths]
UserRow == [id : Uploads, path : Paths, deleted : BOOLEAN]

\* id: the upload sent, or the row to delete; todo: paths of the rows read; alone:
\* history, no other request was under way meanwhile.
Idle == [pc |-> "idle", kind |-> "share", id |-> 0, platform |-> PagePlatform, todo |-> {},
         path |-> Plain, alone |-> FALSE]

Init ==
    /\ disk = [p \in Platforms |-> [x \in Paths |-> 0]]
    /\ nextUpload = 1
    /\ syncRows = {}
    /\ userRows = {}
    /\ shares = 0
    /\ shared = FALSE
    /\ req = [r \in Requests |-> Idle]

Goto(r, pc) == req' = [req EXCEPT ![r].pc = pc]
Done(r) == req' = [req EXCEPT ![r] = Idle]

\* r begins as q; from now on it and every other request under way overlap.
Begins(r, q) ==
    /\ req[r] = Idle
    /\ req' = [s \in Requests |->
                  IF s = r THEN [q EXCEPT !.alone = \A t \in Requests : req[t] = Idle]
                  ELSE [req[s] EXCEPT !.alone = FALSE]]
-----------------------------------------------------------------------------
(* Requests begin with what they read. *)

Rows(p) == {row \in syncRows : row.platform = p}
At(path, deleted) == {row \in userRows : row.path = path /\ row.deleted = deleted}

\* upload_sync_data, one file: the rows of this name and platform.
SyncUpload(r, p) ==
    /\ nextUpload \in Uploads
    /\ nextUpload' = nextUpload + 1
    /\ Begins(r, [Idle EXCEPT !.pc = "clear", !.kind = "sync", !.id = nextUpload,
                              !.platform = p, !.todo = {row.path : row \in Rows(p)}])
    /\ UNCHANGED <<disk, syncRows, userRows, sharing>>

\* upload_view: a live row at the plain path is in the way.  A name whose ending gives
\* no platform is not modelled: its row is refused, as if by a Crash before the insert.
PageUpload(r) ==
    /\ nextUpload \in Uploads
    /\ At(Plain, FALSE) = {}
    /\ nextUpload' = nextUpload + 1
    /\ Begins(r, [Idle EXCEPT !.pc = "deleted", !.kind = "upload", !.id = nextUpload])
    /\ UNCHANGED <<disk, syncRows, userRows, sharing>>

\* Then the deleted rows at the plain path.
PageDeleted(r) ==
    /\ req[r].pc = "deleted"
    /\ req' = [req EXCEPT ![r].pc = "clear",
                          ![r].todo = {row.path : row \in At(Plain, TRUE)}]
    /\ UNCHANGED <<files, syncRows, userRows, sharing>>

\* user_data_action: any row of the account, a deleted one too.
PageDelete(r, row) ==
    /\ Begins(r, [Idle EXCEPT !.pc = "clear", !.kind = "delete", !.id = row.id,
                              !.path = row.path, !.todo = {row.path}])
    /\ UNCHANGED <<files, syncRows, userRows, sharing>>
-----------------------------------------------------------------------------
(* The old files go. *)

\* os.path.exists.
Missing(r, path) ==
    /\ req[r].pc = "clear"
    /\ path \in req[r].todo
    /\ disk[req[r].platform][path] = 0
    /\ req' = [req EXCEPT ![r].todo = @ \ {path}]
    /\ UNCHANGED <<files, syncRows, userRows, sharing>>

Exists(r, path) ==
    /\ req[r].pc = "clear"
    /\ path \in req[r].todo
    /\ disk[req[r].platform][path] # 0
    /\ req' = [req EXCEPT ![r].pc = "unlink", ![r].path = path]
    /\ UNCHANGED <<files, syncRows, userRows, sharing>>

\* os.remove: whatever is at the path now; FileNotFoundError ends the request.
Unlink(r) ==
    LET q == req[r] IN
    /\ q.pc = "unlink"
    /\ IF disk[q.platform][q.path] = 0
       THEN /\ Goto(r, "error")
            /\ UNCHANGED disk
       ELSE /\ disk' = [disk EXCEPT ![q.platform][q.path] = 0]
            /\ req' = [req EXCEPT ![r].pc = "clear", ![r].todo = @ \ {q.path}]
    /\ UNCHANGED <<nextUpload, syncRows, userRows, sharing>>

Cleared(r) == req[r].pc = "clear" /\ req[r].todo = {}
-----------------------------------------------------------------------------
(* The new file. *)

Superseded_First(p) == IF Rows(p) = {} THEN {} ELSE {CHOOSE row \in Rows(p) : TRUE}
\* QuerySet.delete() asks the database again.  The timestamp is parsed after it; one
\* that does not parse ends the request here, which is a Crash to all the others.
Superseded(p) == Rows(p)

DeleteRows(r) ==
    /\ Cleared(r)
    /\ req[r].kind = "sync"
    /\ syncRows' = syncRows \ Superseded(req[r].platform)
    /\ Goto(r, "store")
    /\ UNCHANGED <<files, userRows, sharing>>

FreePath_Numbered(p, id) ==
    CHOOSE x \in Paths : disk[p][x] = 0 /\ \A y \in Paths : disk[p][y] = 0 => x <= y
\* FileSystemStorage.save never overwrites: it draws another name.
FreePath(p, id) == IF disk[p][Plain] = 0 THEN Plain ELSE id

RowPath_AsAsked(p, id) == Plain
\* The row remembers the name that was drawn.
RowPath(p, id) == FreePath(p, id)

StoreFile(r) ==
    LET q == req[r] IN
    /\ q.pc = "store" \/ (Cleared(r) /\ q.kind = "upload")
    /\ disk' = [disk EXCEPT ![q.platform][FreePath(q.platform, q.id)] = q.id]
    /\ req' = [req EXCEPT ![r].pc = "insert", ![r].path = RowPath(q.platform, q.id)]
    /\ UNCHANGED <<nextUpload, syncRows, userRows, sharing>>

Inserted(q) == syncRows \union {[id |-> q.id, platform |-> q.platform, path |-> q.path]}

InsertRow(r) ==
    LET q == req[r] IN
    /\ q.pc = "insert"
    /\ \/ /\ q.kind = "sync"
          /\ syncRows' = Inserted(q)
          /\ Goto(r, "checksum")
          /\ UNCHANGED userRows
       \/ /\ q.kind = "upload"
          /\ userRows' = userRows \union {[id |-> q.id, path |-> q.path, deleted |-> FALSE]}
          /\ Goto(r, "ok")
          /\ UNCHANGED syncRows
    /\ UNCHANGED <<files, sharing>>

\* The file is read back and the row saved, which inserts it again if it is gone.
SaveChecksum(r) ==
    LET q == req[r] IN
    /\ q.pc = "checksum"
    /\ IF disk[q.platform][q.path] = 0
       THEN /\ Goto(r, "error")
            /\ UNCHANGED syncRows
       ELSE /\ syncRows' = Inserted(q)
            /\ Goto(r, "ok")
    /\ UNCHANGED <<files, userRows, sharing>>

\* The end of a DELETE.
SaveDeleted(r) ==
    /\ Cleared(r)
    /\ req[r].kind = "delete"
    /\ userRows' = {IF row.id = req[r].id THEN [row EXCEPT !.deleted = TRUE] ELSE row :
                       row \in userRows}
    /\ Goto(r, "ok")
    /\ UNCHANGED <<files, syncRows, sharing>>
-----------------------------------------------------------------------------
(* Sharing. *)

ShareCheck(r) ==
    /\ shares = 0
    /\ Begins(r, [Idle EXCEPT !.pc = "share"])
    /\ UNCHANGED <<files, syncRows, userRows, sharing>>

ShareInsert(r) ==
    /\ req[r].pc = "share"
    /\ shares' = shares + 1
    /\ shared' = TRUE
    /\ Goto(r, "ok")
    /\ UNCHANGED <<files, syncRows, userRows>>

Unshare ==
    /\ shares' = 0
    /\ shared' = FALSE
    /\ UNCHANGED <<files, syncRows, userRows, req>>

\* The answer is sent.
Answer(r) ==
    /\ req[r].pc \in {"ok", "error"}
    /\ Done(r)
    /\ UNCHANGED <<files, syncRows, userRows, sharing>>

\* The worker dies: what it has done stays done.
Crash(r) ==
    /\ req[r] # Idle
    /\ Done(r)
    /\ UNCHANGED <<files, syncRows, userRows, sharing>>

Next ==
    \/ Unshare
    \/ \E r \in Requests :
          \/ \E p \in Platforms : SyncUpload(r, p)
          \/ PageUpload(r) \/ PageDeleted(r)
          \/ \E row \in userRows : PageDelete(r, row)
          \/ \E path \in Paths : Missing(r, path) \/ Exists(r, path)
          \/ Unlink(r) \/ DeleteRows(r) \/ StoreFile(r) \/ InsertRow(r)
          \/ SaveChecksum(r) \/ SaveDeleted(r)
          \/ ShareCheck(r) \/ ShareInsert(r)
          \/ Answer(r) \/ Crash(r)

Spec == Init /\ [][Next]_vars
-----------------------------------------------------------------------------
(* Properties. *)

Request == [pc : {"idle", "deleted", "clear", "unlink", "store", "insert", "checksum",
                  "share", "ok", "error"},
            kind : {"sync", "upload", "delete", "share"}, id : 0 .. MaxUploads,
            platform : Platforms, todo : SUBSET Paths, path : Paths, alone : BOOLEAN]

\* Every variable holds a value of its kind, and a row's path is the plain one or was
\* made for the row's own upload.
TypeOK ==
    /\ disk \in [Platforms -> [Paths -> 0 .. MaxUploads]]
    /\ nextUpload \in 1 .. MaxUploads + 1
    /\ syncRows \subseteq SyncRow
    /\ userRows \subseteq UserRow
    /\ \A row \in syncRows \union userRows : row.path \in {Plain, row.id}
    /\ shares \in Nat
    /\ shared \in BOOLEAN
    /\ req \in [Requests -> Request]

\* Whatever races and crashes have left behind, an upload that no other request
\* overlaps, of a timestamp that parses and a name with a platform, succeeds: its row names a file with what was sent, and a synced file's row
\* is the only one of its name and platform, as downloads require.
LoneUploadIsServed ==
    \A r \in Requests :
        LET q == req[r] IN
        q.alone =>
            /\ q.pc # "error"
            /\ q.pc = "ok" /\ q.kind \in {"sync", "upload"} =>
                  disk[q.platform][q.path] = q.id
            /\ q.pc = "ok" /\ q.kind = "sync" => {row.id : row \in Rows(q.platform)} = {q.id}

\* What was sent as a page upload is on no disk any more once a DELETE has marked its
\* row, whatever else took the same path before or after.
DeletedContentGone ==
    \A row \in userRows : row.deleted =>
        \A path \in Paths : disk[PagePlatform][path] # row.id

\* Two sharings at once store two rows; unsharing ends both, and the follower is denied
\* until shared with again.
UnshareIsComplete == ~shared => shares = 0
-----------------------------------------------------------------------------
(* Why the properties hold: IInv is inductive. *)

Sends(q) == q.kind \in {"sync", "upload"}
Rowless(id) == \A row \in syncRows \union userRows : row.id # id
OffDisk(id) == \A p \in Platforms, x \in Paths : disk[p][x] # id

\* Each upload is sent by one request.
SendersOK ==
    /\ \A r \in Requests : Sends(req[r]) => req[r].id \in 1 .. nextUpload - 1
    /\ \A r, s \in Requests :
          Sends(req[r]) /\ Sends(req[s]) /\ req[r].id = req[s].id => r = s

\* What a request has not stored is nowhere; what it has is where its row will say.
UploadOK(q) ==
    /\ q.pc = "deleted" => q.kind = "upload"
    /\ q.pc \in {"store", "checksum"} => q.kind = "sync"
    /\ q.pc = "share" => q.kind = "share"
    /\ q.kind = "upload" => q.platform = PagePlatform
    /\ Sends(q) /\ q.pc \in {"deleted", "clear", "unlink", "store"} =>
          OffDisk(q.id) /\ Rowless(q.id)
    /\ Sends(q) /\ q.pc = "insert" =>
          /\ Rowless(q.id)
          /\ \A p \in Platforms, x \in Paths :
                disk[p][x] = q.id => p = q.platform /\ x = q.path
    /\ Sends(q) /\ q.pc \in {"insert", "checksum"} => q.path \in {Plain, q.id}

\* A DELETE knows the path of its row, and what it has gone past is gone.
DeleteOK(q) ==
    q.kind = "delete" /\ q.pc \in {"clear", "unlink"} =>
        /\ q.platform = PagePlatform
        /\ q.todo \subseteq {q.path}
        /\ \E row \in userRows : row.id = q.id /\ row.path = q.path
        /\ q.path \in q.todo \/ OffDisk(q.id)

\* A page upload is at its row's path or gone.
RowsOK ==
    /\ \A row \in syncRows \union userRows : row.id < nextUpload
    /\ \A p \in Platforms, x \in Paths : disk[p][x] < nextUpload
    /\ \A a, b \in userRows : a.id = b.id => a = b
    /\ \A row \in userRows, p \in Platforms, x \in Paths :
          disk[p][x] = row.id => p = PagePlatform /\ x = row.path

\* Nobody changes what a lone request has found.
AloneOK(r) ==
    LET q == req[r] IN
    q.alone =>
        /\ \A s \in Requests \ {r} : req[s] = Idle
        /\ q.pc # "error"
        /\ q.pc = "unlink" => disk[q.platform][q.path] # 0
        /\ Sends(q) /\ q.pc \in {"insert", "checksum", "ok"} =>
              disk[q.platform][q.path] = q.id
        /\ q.kind = "sync" /\ q.pc \in {"store", "insert"} => Rows(q.platform) = {}
        /\ q.kind = "sync" /\ q.pc \in {"checksum", "ok"} =>
              Rows(q.platform) = {[id |-> q.id, platform |-> q.platform, path |-> q.path]}

IInv ==
    /\ TypeOK /\ DeletedContentGone /\ UnshareIsComplete
    /\ SendersOK /\ RowsOK
    /\ \A r \in Requests : UploadOK(req[r]) /\ DeleteOK(req[r]) /\ AloneOK(r)
=============================================================================
