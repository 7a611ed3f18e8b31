------------------------------- MODULE SmbConn -------------------------------
(***************************************************************************)
(* One authenticated connection in the command loop of                     *)
(* server.HandleConnection (smb/server.go): Recv a frame, ActionFunc       *)
(* (smb/session_ser.go) splits it into a compound chain, parses every      *)
(* sub-message first (ActionParserFunc) and then runs the handlers in      *)
(* order over one DataCtx made fresh by NewDataCtx for the frame; a non-OK *)
(* status from ActionFunc, a Go error from a handler, or a recovered panic *)
(* ends the connection.  The session's resource table (SessionS:           *)
(* activeAnchorKey, fileNum, openedFiles, srvsvc, pdb, notify) and the     *)
(* backing store it acts on (webdav.Dir("/") and the xattrs of its files)  *)
(* are the state.                                                          *)
(*                                                                         *)
(* Data abstraction.  A GUID is its per-session file counter: makeGUID     *)
(* puts the tree id in the first 8 bytes and fid in the last 8, fid is     *)
(* unique in the session and at least 2 (SessionSetup-2 already took 1),   *)
(* so no minted GUID equals NilGUID (0) or LastGUID (all 0xFF).  A path is *)
(* <<root, name>>.  The store maps a path to the inode it names (0: no     *)
(* file); an os.File keeps its inode and the name it was opened with       *)
(* (file.Name()).  File contents, times, sizes and reply encodings are    *)
(* left out: no handler's control depends on them.                        *)
(***************************************************************************)
EXTENDS Naturals, Sequences, FiniteSetsExt, Functions, TLC

CONSTANTS
    Shares,         \* anchor keys getTree attached at login (upper-cased names)
    RootOf,         \* RootPath of each anchor
    BadShare,       \* a share name the session has no anchor for
    MalformedPath,  \* a TreeConnect path not of the form \\server\share
    NoShare,        \* activeAnchorKey before any TreeConnect: ""
    FileNames,      \* plain file names a client opens
    SrvSvc,         \* the name "srvsvc" (k_srvsvc)
    LastGUID,       \* the all-0xFF sentinel file id
    InitFs,         \* the store when the connection starts
    InitXattrs,     \* inodes carrying the com.apple.* attribute at start
    MaxFileNum,     \* bound on session.fileNum
    MaxIno,         \* inode numbers of the store (reused once free)
    MaxChain,       \* bound on the sub-messages of one compound frame
    Alphabet        \* the sub-messages a client sends (a subset of Commands)

Roots == {RootOf[s] : s \in Shares}
Names == FileNames \cup {SrvSvc}
Paths == Roots \X Names
NilGUID == 0
Inodes == 1..MaxIno
ASSUME /\ RootOf \in [Shares -> Roots]
       /\ InitFs \in [Paths -> 0..MaxIno]
       /\ InitXattrs \subseteq Inodes
       /\ MaxFileNum \in Nat /\ MaxChain \in Nat \ {0}
       \* enough inode numbers that one is free whenever a file is created
       /\ MaxIno > Cardinality(Paths) + MaxFileNum - 1

\* GUIDs createHandle can mint in one session, and the file ids a client may send.
GUIDs == 2..MaxFileNum
FidChoices == GUIDs \cup {LastGUID}

\* The closure DataCtx.closeAction holds: none, the no-op of FileBasicInformation,
\* RemoveAll(file.Name()) or XAttrDelete() of a webdavFile.  owner is the handle
\* the SetInfo named (history, used by properties only).
NoAction == [kind |-> "None", path |-> <<>>, owner |-> NilGUID]
CloseActions ==
    {NoAction} \cup [kind : {"Noop", "RemoveAll", "XAttrDelete"}, path : Paths, owner : GUIDs]

\* An openedFiles entry: an *os.File ("file") or a *webdavFile ("xattr").
Entries == [kind : {"file", "xattr"}, path : Paths, ino : 0..MaxIno]

\* Sub-messages that parse; each field is a value the handler's control tells apart.
Commands ==
       [op : {"TreeConnect"}, share : Shares \cup {BadShare, MalformedPath}]
  \cup [op : {"Create"}, name : Names, xattr : {FALSE}, create : BOOLEAN]
  \cup [op : {"Create"}, name : FileNames, xattr : {TRUE}, create : {FALSE}]
  \cup [op : {"Close", "SetBasic", "Read", "QueryStream", "ChangeNotify"}, fid : FidChoices]
  \cup [op : {"SetDisposition"}, fid : FidChoices, deletePending : 0..1]
  \cup [op : {"SetRename"}, fid : FidChoices, target : FileNames, replace : 0..1]
  \cup [op : {"Write"}, fid : FidChoices, pdu : {"Bind", "Request", "Other"}]
  \cup [op : {"NoOp", "Reject"}]

ASSUME Alphabet \subseteq Commands

VARIABLES
    conn,          \* "serving" while HandleConnection loops, "closed" after it returns
    active,        \* session.activeAnchorKey
    fileNum,       \* session.fileNum
    openedFiles,   \* session.openedFiles
    srvsvc,        \* session.srvsvc
    pdb,           \* session.pdb.PacketType: the zero value is PDURequest
    notify,        \* keys of session.notify
    fs,            \* the store: path -> inode
    xattrs,        \* inodes with the attribute
    pending,       \* sub-messages of the current frame not yet handled
    latest,        \* DataCtx.latestFileId
    closeAction,   \* DataCtx.closeAction
    chainCreated   \* GUIDs minted in the current frame (history)

vars == <<conn, active, fileNum, openedFiles, srvsvc, pdb, notify, fs, xattrs,
          pending, latest, closeAction, chainCreated>>
session == <<active, fileNum, openedFiles, srvsvc, pdb, notify>>
store == <<fs, xattrs>>
ghosts == <<chainCreated>>

\* GUIDs minted so far in the session: each Create takes the next fid.
issued == 2..fileNum

TypeOK ==
    /\ conn \in {"serving", "closed"}
    /\ active \in Shares \cup {NoShare}
    /\ fileNum \in 1..MaxFileNum
    /\ DOMAIN openedFiles \subseteq GUIDs /\ \A g \in DOMAIN openedFiles : openedFiles[g] \in Entries
    /\ srvsvc \in GUIDs \cup {NilGUID}
    /\ pdb \in {"Request", "Bind"}
    /\ notify \subseteq FidChoices
    /\ fs \in [Paths -> 0..MaxIno] /\ xattrs \subseteq Inodes
    /\ pending \in Seq(Commands) /\ Len(pending) <= MaxChain
    /\ latest \in GUIDs \cup {NilGUID}
    /\ closeAction \in CloseActions
    /\ chainCreated \subseteq issued

\* The session right after SessionSetup-2 (fileNum already 1) and the start store.
InitSession ==
    /\ active = NoShare
    /\ fileNum = 1
    /\ openedFiles = << >>
    /\ srvsvc = NilGUID
    /\ pdb = "Request"
    /\ notify = {}

Init ==
    /\ conn = "serving"
    /\ InitSession
    /\ fs = InitFs /\ xattrs = InitXattrs
    /\ pending = << >> /\ latest = NilGUID /\ closeAction = NoAction
    /\ chainCreated = {}

\* DataCtx.FileID: the sentinel names the file created last in this frame.
FileID(fid) == IF fid = LastGUID THEN latest ELSE fid

\* SessionS.GetAbsPath under the active anchor (callers guard active # NoShare:
\* with no anchor the nil dereference panics).
AbsPath(name) == <<RootOf[active], name>>

IsOpen(g) == g \in DOMAIN openedFiles
Cmd == Head(pending)

\* The handler of the head sub-message returns normally: the chain goes on.
Done == pending' = Tail(pending)

(***************************************************************************)
(* A handler returns a Go error or panics: ActionFunc returns a non-OK     *)
(* status (or the recover in HandleConnection runs), the rest of the chain *)
(* is not run, nothing is sent and the connection is closed.  What the     *)
(* earlier sub-messages did to the session and the store stays done.       *)
(***************************************************************************)
Fail ==
    /\ conn' = "closed"
    /\ pending' = << >>
    /\ UNCHANGED <<session, store, latest, closeAction, ghosts>>


(***************************************************************************)
(* HandleConnection reads a frame and ActionFunc parses all of its         *)
(* sub-messages before running any; the DataCtx is new: no latest file,    *)
(* no close action.                                                        *)
(***************************************************************************)
\* Creates in a chain; a frame is received only while its Creates fit under
\* the bound MaxFileNum.
NumCreates(chain) == Cardinality({i \in DOMAIN chain : chain[i].op = "Create"})

\* Mutant of NewDataCtx: the context of the previous frame is reused.
NewDataCtxKeepsLatest ==
    /\ latest' = latest
    /\ closeAction' = NoAction
    /\ chainCreated' = {}

\* NewDataCtx: latestFileId = NilGUID and no closeAction.
NewDataCtx ==
    /\ latest' = NilGUID
    /\ closeAction' = NoAction
    /\ chainCreated' = {}

Recv(chain) ==
    /\ conn = "serving" /\ pending = << >>
    /\ fileNum + NumCreates(chain) <= MaxFileNum
    /\ pending' = chain
    /\ NewDataCtx
    /\ UNCHANGED <<conn, session, store>>

(***************************************************************************)
(* Recv fails (EOF, a length above 0x00FFFFFF, an unknown protocol id) or  *)
(* a sub-message does not parse (session id mismatch, a command missing    *)
(* from commandRequestMap such as IOCtl, an Unmarshal2 error): no handler  *)
(* of the frame runs and the connection is closed.                         *)
(***************************************************************************)
RecvFails ==
    /\ conn = "serving" /\ pending = << >>
    /\ Fail

\* The client connects again: a new SessionS after a successful handshake.
\* The store outlives the connection.
Reconnect ==
    /\ conn = "closed"
    /\ conn' = "serving"
    /\ active' = NoShare /\ fileNum' = 1 /\ openedFiles' = << >>
    /\ srvsvc' = NilGUID /\ pdb' = "Request" /\ notify' = {}
    /\ pending' = << >> /\ latest' = NilGUID /\ closeAction' = NoAction
    /\ chainCreated' = {}
    /\ UNCHANGED store

Handling(op) == conn = "serving" /\ pending # << >> /\ Cmd.op = op

\* Mutant of SetActiveAnchorKey: the key is stored without the anchor lookup.
SetActiveAnchorKeyUnchecked(share) == share

\* GetAnchor then SetActiveAnchorKey: only a share the session has an anchor
\* for becomes active.
SetActiveAnchorKey(share) == IF share \in Shares THEN share ELSE active

\* TreeConnectRequest.ServerAction: a path without two separators panics; an
\* unknown share gets NETWORK_NAME_DELETED; a known one becomes active.
TreeConnect ==
    /\ Handling("TreeConnect")
    /\ IF Cmd.share = MalformedPath
         THEN Fail
         ELSE /\ active' = SetActiveAnchorKey(Cmd.share)
              /\ Done
              /\ UNCHANGED <<conn, fileNum, openedFiles, srvsvc, pdb, notify, store,
                             latest, closeAction, ghosts>>

\* Mutant of NewFid: the smallest fid above the open handles.
NewFidBySize == Cardinality(DOMAIN openedFiles) + 2

\* Mutant of NewFid: the counter is added to twice.
NewFidTwice == fileNum + 2

\* atomic.AddUint64(&session.fileNum, 1): the fid of a new handle.
NewFid == fileNum + 1

\* Mutant of PipeGUID: every Create takes over the pipe redirect.
PipeGUIDAnyName(name, g) == g

\* session.srvsvc after a Create of name minting g.
PipeGUID(name, g) == IF name = SrvSvc THEN g ELSE srvsvc

\* An inode no path names and no open handle holds: the one a new file gets.
FreeIno == CHOOSE i \in Inodes :
               /\ \A q \in Paths : fs[q] # i
               /\ \A g \in DOMAIN openedFiles : openedFiles[g].ino # i

\* The store after os.Create / OpenFile(O_CREATE) of path p, when that creates.
Created(p) == [fs EXCEPT ![p] = FreeIno]

(***************************************************************************)
(* CreateRequest.ServerAction for a plain name.  GetAbsPath panics with no *)
(* active anchor.  fileNum is incremented before the open.  The name       *)
(* "srvsvc" makes the new GUID the pipe GUID and creates the file if it is *)
(* missing; then OpenFile opens the path, creating it when the disposition *)
(* has O_CREATE; a missing file gets OBJECT_NAME_NOT_FOUND after the GUID  *)
(* was spent.  On success the handle is stored and becomes the sentinel.   *)
(***************************************************************************)
CreateFile ==
    /\ Handling("Create") /\ ~Cmd.xattr
    /\ IF active = NoShare
         THEN Fail
         ELSE LET g == NewFid
                  p == AbsPath(Cmd.name)
                  creates == fs[p] = 0 /\ (Cmd.name = SrvSvc \/ Cmd.create)
                  fs2 == IF creates THEN Created(p) ELSE fs
              IN /\ fileNum' = g
                 /\ srvsvc' = PipeGUID(Cmd.name, g)
                 /\ fs' = fs2
                 /\ xattrs' = IF creates THEN xattrs \ {FreeIno} ELSE xattrs
                 /\ IF fs2[p] # 0
                      THEN /\ openedFiles' = openedFiles @@ (g :> [kind |-> "file", path |-> p, ino |-> fs2[p]])
                           /\ latest' = g
                           /\ chainCreated' = chainCreated \cup {g}
                      ELSE UNCHANGED <<openedFiles, latest, chainCreated>>
                 /\ Done
                 /\ UNCHANGED <<conn, active, pdb, notify, closeAction>>

\* CreateRequest.ServerAction for "name:com.apple.*" (IsXAttr): a webdavFile
\* on the base path, whose Stat never fails, whether the path exists or not.
CreateXAttr ==
    /\ Handling("Create") /\ Cmd.xattr
    /\ IF active = NoShare
         THEN Fail
         ELSE LET g == NewFid
              IN /\ fileNum' = g
                 /\ openedFiles' = openedFiles @@ (g :> [kind |-> "xattr", path |-> AbsPath(Cmd.name), ino |-> 0])
                 /\ latest' = g
                 /\ chainCreated' = chainCreated \cup {g}
                 /\ Done
                 /\ UNCHANGED <<conn, active, srvsvc, pdb, notify, store, closeAction>>

\* What running the captured closure does to the store.
RunFs(ca) == IF ca.kind = "RemoveAll" THEN [fs EXCEPT ![ca.path] = 0] ELSE fs
RunXattrs(ca) ==
    IF ca.kind = "XAttrDelete" /\ fs[ca.path] # 0 THEN xattrs \ {fs[ca.path]} ELSE xattrs

(***************************************************************************)
(* CloseRequest.ServerAction: an unknown or closed handle gets FILE_CLOSED *)
(* and nothing changes.  Otherwise the entry is deleted, the file closed,  *)
(* ctx.closeAction run and cleared, and latestFileId reset to NilGUID.     *)
(***************************************************************************)
\* Mutant of CloseMissing: the close action runs before the lookup fails.
CloseMissingRunsAction(g) ==
    /\ fs' = RunFs(closeAction)
    /\ xattrs' = RunXattrs(closeAction)
    /\ closeAction' = NoAction
    /\ UNCHANGED <<openedFiles, latest>>

\* No entry for g: STATUS_FILE_CLOSED.
CloseMissing(g) == UNCHANGED <<openedFiles, fs, xattrs, closeAction, latest>>

CloseFound(g) ==
    /\ openedFiles' = Restrict(openedFiles, DOMAIN openedFiles \ {g})
    /\ fs' = RunFs(closeAction)
    /\ xattrs' = RunXattrs(closeAction)
    /\ closeAction' = NoAction
    /\ latest' = NilGUID

Close ==
    /\ Handling("Close")
    /\ LET g == FileID(Cmd.fid)
       IN IF IsOpen(g) THEN CloseFound(g) ELSE CloseMissing(g)
    /\ Done
    /\ UNCHANGED <<conn, active, fileNum, srvsvc, pdb, notify, ghosts>>

(***************************************************************************)
(* SetInfoRequest.ServerAction, FileBasicInformation: a handle that is not *)
(* open gets FILE_CLOSED; otherwise ctx.closeAction becomes a no-op,       *)
(* replacing whatever an earlier sub-message of the chain registered.      *)
(***************************************************************************)
SetBasic ==
    /\ Handling("SetBasic")
    /\ LET g == FileID(Cmd.fid)
       IN closeAction' = IF IsOpen(g)
                           THEN [kind |-> "Noop", path |-> openedFiles[g].path, owner |-> g]
                           ELSE closeAction
    /\ Done
    /\ UNCHANGED <<conn, session, store, latest, ghosts>>

(***************************************************************************)
(* FileDispositionInformation: on an *os.File with DeletePending = 1 the   *)
(* close action becomes RemoveAll(file.Name()); on a *webdavFile it       *)
(* becomes XAttrDelete() whatever DeletePending says.                      *)
(***************************************************************************)
SetDisposition ==
    /\ Handling("SetDisposition")
    /\ LET g == FileID(Cmd.fid)
           e == openedFiles[g]
       IN /\ closeAction' =
               CASE ~IsOpen(g) -> closeAction
                 [] e.kind = "file" /\ Cmd.deletePending = 1 ->
                      [kind |-> "RemoveAll", path |-> e.path, owner |-> g]
                 [] e.kind = "xattr" -> [kind |-> "XAttrDelete", path |-> e.path, owner |-> g]
                 [] OTHER -> closeAction
    /\ Done
    /\ UNCHANGED <<conn, session, store, latest, chainCreated>>

\* The store after RemoveAll(new) when ReplaceIfExists is 1.
Cleared(new, replace) == IF replace = 1 THEN [fs EXCEPT ![new] = 0] ELSE fs

\* os.Rename(old, new) on store f: the inode moves; a file at new is replaced.
Moved(f, old, new) == IF old = new THEN f ELSE [f EXCEPT ![new] = f[old], ![old] = 0]

(***************************************************************************)
(* FileRenameInformation on an *os.File runs at once: the new name is      *)
(* resolved under the active anchor, RemoveAll(new) runs when              *)
(* ReplaceIfExists is 1, then Rename(file.Name(), new); each error is      *)
(* answered with STATUS_UNSUCCESSFUL.  The entry keeps its old name.  On a *)
(* *webdavFile nothing is done.                                            *)
(***************************************************************************)
SetRename ==
    /\ Handling("SetRename")
    /\ LET g == FileID(Cmd.fid)
       IN IF IsOpen(g) /\ openedFiles[g].kind = "file"
            THEN LET old == openedFiles[g].path
                     new == AbsPath(Cmd.target)
                     fs1 == Cleared(new, Cmd.replace)
                 IN fs' = IF fs1[old] # 0 THEN Moved(fs1, old, new) ELSE fs1
            ELSE UNCHANGED fs
    /\ Done
    /\ UNCHANGED <<conn, session, xattrs, latest, closeAction, ghosts>>

(***************************************************************************)
(* ReadRequest.ServerAction: FILE_CLOSED, a storage read (no state), or    *)
(* for the pipe GUID DcerpcRead, which answers from session.pdb: a Request *)
(* (also the zero value) with the share enumeration; a Bind with a         *)
(* BindAck after the type assertion pdb.Buffer.(PDUBindStruct), which      *)
(* panics if the encoder kept the *PDUBindStruct DcerpcWrite stored (the   *)
(* encoder is outside this repository, so both outcomes are possible).     *)
(***************************************************************************)
\* Mutant of DcerpcRead: a read with no Bind stored waits, retrying, for one.
DcerpcReadRetries ==
    IF pdb = "Bind"
      THEN \/ /\ Done
              /\ UNCHANGED <<conn, session, store, latest, closeAction, chainCreated>>
           \/ Fail
      ELSE UNCHANGED vars

DcerpcRead ==
    \/ /\ Done
       /\ UNCHANGED <<conn, session, store, latest, closeAction, chainCreated>>
    \/ /\ pdb = "Bind"
       /\ Fail

Read ==
    /\ Handling("Read")
    /\ LET g == FileID(Cmd.fid)
       IN IF IsOpen(g) /\ g = srvsvc
            THEN DcerpcRead
            ELSE /\ Done
                 /\ UNCHANGED <<conn, session, store, latest, closeAction, ghosts>>

(***************************************************************************)
(* WriteRequest.ServerAction: FILE_CLOSED; for the pipe GUID DcerpcWrite   *)
(* stores a Bind or Request PDU in session.pdb and returns an error for    *)
(* any other type; on a *webdavFile XAttrSet on the base path, which fails *)
(* with UNSUCCESSFUL when the path does not exist; on an *os.File a write  *)
(* of content.                                                             *)
(***************************************************************************)
\* Mutant of DcerpcWrite: no default case, any PDU type is stored.
DcerpcWriteAnyType(pdu) ==
    /\ pdb' = pdu
    /\ Done
    /\ UNCHANGED <<conn, active, fileNum, openedFiles, srvsvc, notify, store,
                   latest, closeAction, chainCreated>>

DcerpcWrite(pdu) ==
    IF pdu = "Other"
      THEN Fail
      ELSE /\ pdb' = pdu
           /\ Done
           /\ UNCHANGED <<conn, active, fileNum, openedFiles, srvsvc, notify, store,
                          latest, closeAction, chainCreated>>

Write ==
    /\ Handling("Write")
    /\ LET g == FileID(Cmd.fid)
           e == openedFiles[g]
       IN CASE IsOpen(g) /\ g = srvsvc -> DcerpcWrite(Cmd.pdu)
            [] IsOpen(g) /\ e.kind = "xattr" /\ fs[e.path] # 0 ->
                 /\ xattrs' = xattrs \cup {fs[e.path]}
                 /\ Done
                 /\ UNCHANGED <<conn, session, fs, latest, closeAction, ghosts>>
            [] OTHER ->
                 /\ Done
                 /\ UNCHANGED <<conn, session, store, latest, closeAction, ghosts>>

(***************************************************************************)
(* QueryInfoRequest.ServerAction, FileStreamInformation: FILE_CLOSED; on a *)
(* *webdavFile the assertion of webfile to *os.File panics; on an *os.File     *)
(* XAttrGetKeys(file.Name()) fails, a Go error, when that name no longer   *)
(* exists.  The other information classes change nothing (NoOp).          *)
(***************************************************************************)
QueryStream ==
    /\ Handling("QueryStream")
    /\ LET g == FileID(Cmd.fid)
       IN IF IsOpen(g) /\ (openedFiles[g].kind = "xattr" \/ fs[openedFiles[g].path] = 0)
            THEN Fail
            ELSE /\ Done
                 /\ UNCHANGED <<conn, session, store, latest, closeAction, ghosts>>

\* ChangeNotifyRequest.ServerAction: stores the request under the raw FileId
\* (the sentinel is not resolved) and answers STATUS_PENDING.
ChangeNotify ==
    /\ Handling("ChangeNotify")
    /\ notify' = notify \cup {Cmd.fid}
    /\ Done
    /\ UNCHANGED <<conn, active, fileNum, openedFiles, srvsvc, pdb, store, latest,
                   closeAction, ghosts>>

(***************************************************************************)
(* Handlers that change no state: TreeDisconnect, Logoff, Flush, Lock,     *)
(* Cancel, Echo, QueryInfo of the other classes, SetInfo with an empty     *)
(* buffer (NoOp); and the early returns on a malformed request: Close with *)
(* StructureSize # 24, SetInfo of another InfoType or class, Write with a  *)
(* bad length, Create with an unknown disposition or name (Reject).        *)
(***************************************************************************)
NoEffect ==
    /\ (Handling("NoOp") \/ Handling("Reject"))
    /\ Done
    /\ UNCHANGED <<conn, session, store, latest, closeAction, ghosts>>

Chains == UNION {[1..n -> Alphabet] : n \in 1..MaxChain}

Next ==
    \/ \E chain \in Chains : Recv(chain)
    \/ RecvFails
    \/ Reconnect
    \/ TreeConnect
    \/ CreateFile
    \/ CreateXAttr
    \/ Close
    \/ SetBasic
    \/ SetDisposition
    \/ SetRename
    \/ Read
    \/ Write
    \/ QueryStream
    \/ ChangeNotify
    \/ NoEffect

Spec == Init /\ [][Next]_vars

\* The open-file table seen as HandleTable: a handle names the path it was
\* opened on; the GUIDs minted in the session are the spent identifiers.
HT == INSTANCE HandleTable
        WITH Handles <- GUIDs, Targets <- Paths,
             table <- [g \in DOMAIN openedFiles |-> openedFiles[g].path],
             spent <- issued

-----------------------------------------------------------------------------
(***************************************************************************)
(* Properties.  In a state with sub-messages pending the only step is the  *)
(* handler of the head one, so a predicate on Cmd speaks of that handler.  *)
(***************************************************************************)

ClosingOpen(g) == Handling("Close") /\ FileID(Cmd.fid) = g /\ IsOpen(g)

(* The sentinel GUID resolves only to a handle a Create of the same frame  *)
(* minted and that is still open (DataCtx.latestFileId set by Create,      *)
(* reset by Close and by NewDataCtx for each frame; spec 8, Sentinel       *)
(* resolution).                                                            *)
SentinelNamesChainCreate ==
    latest # NilGUID => latest \in chainCreated /\ IsOpen(latest)

(* The session's handle table implements HandleTable: every Create hands  *)
(* out a GUID never handed out before in the session (fileNum incremented *)
(* per Create, also when the open then fails), an open GUID keeps naming   *)
(* the file it was opened on until Close, and a new connection starts an   *)
(* empty table (spec 3 and 8).                                             *)
HandleTableRefined == HT!HTSpec

(* A Close runs only a deferred action registered on the handle it closes  *)
(* (spec 4.4 and 9: the action is stored on the open-file entry; the code  *)
(* keeps it in the DataCtx).                                               *)
DeferredActionOnItsHandle ==
    \A g \in GUIDs :
        ClosingOpen(g) /\ closeAction.kind \in {"RemoveAll", "XAttrDelete"}
            => closeAction.owner = g

(* The deferred delete of a handle removes the file that handle has open   *)
(* (RemoveAll(file.Name()) run at Close).                                  *)
DeferredDeleteRemovesOwnFile ==
    \A g \in GUIDs :
        ClosingOpen(g) /\ closeAction.kind = "RemoveAll" /\ closeAction.owner = g
            => fs[closeAction.path] = openedFiles[g].ino

(* Read and Write are redirected to DCE/RPC only for a handle opened on    *)
(* the srvsvc pseudo-file, never for a handle on a real file               *)
(* (GUID.IsSvrSvc against session.srvsvc, set by CreateRequest for the     *)
(* name "srvsvc").                                                         *)
PipeRedirectOnlyForPipeFile ==
    IsOpen(srvsvc) => openedFiles[srvsvc].path[2] = SrvSvc

(* A rename either moves the file as a whole or leaves the store as it     *)
(* was (FileRenameInformation: RemoveAll(new) then Rename(old, new), each  *)
(* failure answered STATUS_UNSUCCESSFUL).                                  *)
RenameAllOrNothing ==
    [][Handling("SetRename") /\ IsOpen(FileID(Cmd.fid)) =>
         LET e == openedFiles[FileID(Cmd.fid)]
             new == AbsPath(Cmd.target)
         IN \/ fs' = fs
            \/ /\ fs[e.path] # 0 /\ fs'[new] = fs[e.path]
               /\ \A q \in Paths \ {e.path, new} : fs'[q] = fs[q]]_vars

=============================================================================
