-------------------------------- MODULE SmbDir --------------------------------
(***************************************************************************)
(* Directory listing (QueryDirectoryRequest.ServerAction,                  *)
(* smb/msg_file_query_directory_find.go) for several connections, each    *)
(* with its own SessionS, over one share root they all see.  A handle on  *)
(* the root is the *os.File webdav.Dir.OpenFile returns; Readdir(0) reads  *)
(* the entries from the file's directory offset to the end, so a second   *)
(* Readdir on the same handle returns nothing.  Every listed entry gets    *)
(* its FileId from atomic.AddUint64(&KFILEID, 1), a package variable       *)
(* shared by all connections.                                              *)
(*                                                                         *)
(* Entries are names; times, sizes, attributes and the byte layout of the  *)
(* reply are left out.  The early returns that change nothing (FILE_CLOSED,*)
(* FindFlags = 0 answered NO_MORE_FILES, another InfoLevel answered OK     *)
(* with an empty buffer, an undecodable name) are stuttering steps.        *)
(***************************************************************************)
EXTENDS Naturals, FiniteSets, Sequences, SequencesExt, TLC

CONSTANTS
    Conns,        \* connections, each served by its own HandleConnection
    EntryNames,   \* names a file in the share root can have
    InitEntries,  \* the files of the root when the server starts
    MaxFileNum,   \* bound on each session's fileNum
    MaxKFileId    \* bound on KFILEID

ASSUME /\ InitEntries \subseteq EntryNames
       /\ MaxFileNum \in Nat /\ MaxKFileId \in Nat

\* The two entries the "*" listing appends after Readdir's: Stat of the handle
\* renamed "." and "..".
Dots == {".", ".."}
GUIDs == 2..MaxFileNum
Kinds == {"dir", "file", "xattr"}
\* Patterns a client sends: "*" or a name.
Patterns == {"*"} \cup EntryNames

VARIABLES
    up,         \* HandleConnection of c is serving
    fileNum,    \* session.fileNum of c
    opened,     \* session.openedFiles of c: GUID -> [kind, name, eof]
    entries,    \* the names in the share root
    kfileid,    \* KFILEID
    reported,   \* every [id, name] a reply has carried (history)
    lastList,   \* c's last "*" listing of the root and its entries then (history)
    stamping    \* the entries c's QueryDirectory has still to stamp, and (history)
                \* KFILEID at its start plus the entries stamped since

vars == <<up, fileNum, opened, entries, kfileid, reported, lastList, stamping>>

Handle == [kind : Kinds, name : EntryNames \cup {"."}, eof : BOOLEAN]
NoList == [got |-> Dots, present |-> {}]
\* No QueryDirectory in progress on the connection.
Idle == [rest |-> << >>, from |-> 0]

TypeOK ==
    /\ up \in [Conns -> BOOLEAN]
    /\ fileNum \in [Conns -> 1..MaxFileNum]
    /\ \A c \in Conns : DOMAIN opened[c] \subseteq GUIDs
                        /\ \A g \in DOMAIN opened[c] : opened[c][g] \in Handle
    /\ entries \subseteq EntryNames
    /\ kfileid \in 0..MaxKFileId
    /\ reported \subseteq [id : 0..MaxKFileId, name : EntryNames \cup Dots]
    /\ lastList \in [Conns -> [got : SUBSET (EntryNames \cup Dots),
                              present : SUBSET EntryNames]]
    /\ stamping \in [Conns -> [rest : Seq(EntryNames \cup Dots), from : 0..MaxKFileId]]

NoHandles == [g \in {} |-> g]

\* Every connection just authenticated (fileNum 1 after SessionSetup-2).
Init ==
    /\ up = [c \in Conns |-> TRUE]
    /\ fileNum = [c \in Conns |-> 1]
    /\ opened = [c \in Conns |-> NoHandles]
    /\ entries = InitEntries
    /\ kfileid = 0
    /\ reported = {}
    /\ lastList = [c \in Conns |-> NoList]
    /\ stamping = [c \in Conns |-> Idle]

\* HandleConnection of c waits in Recv: it runs one request at a time.
Ready(c) == up[c] /\ stamping[c] = Idle

Serving(c) == Ready(c) /\ fileNum[c] < MaxFileNum

\* CreateRequest mints fid = fileNum + 1 before it opens; a failed open
\* leaves the fid spent.
Mint(c) == fileNum' = [fileNum EXCEPT ![c] = @ + 1]

\* Mutant of AddHandle: the handle is stored under the counter's old value.
AddHandleOldFid(c, h) ==
    opened' = [opened EXCEPT ![c] = @ @@ (fileNum[c] :> h)]

\* session.openedFiles[guid] = webfile, guid made from the minted fid.
AddHandle(c, h) ==
    opened' = [opened EXCEPT ![c] = @ @@ (fileNum[c] + 1 :> h)]

(***************************************************************************)
(* Create of the empty name: GetAbsPath("") is the share root.  OpenFile  *)
(* of a directory for writing fails (OBJECT_NAME_NOT_FOUND); read-only it  *)
(* gives a handle whose directory offset is at the start.                  *)
(***************************************************************************)
OpenRoot(c, write) ==
    /\ Serving(c)
    /\ Mint(c)
    /\ IF write THEN UNCHANGED opened
               ELSE AddHandle(c, [kind |-> "dir", name |-> ".", eof |-> FALSE])
    /\ UNCHANGED <<up, entries, kfileid, reported, lastList, stamping>>

\* Create of a file name: FILE_OPEN of a missing name fails after the mint;
\* a disposition with O_CREATE adds the name to the root.
OpenEntry(c, n, create) ==
    /\ Serving(c)
    /\ Mint(c)
    /\ IF n \in entries \/ create
         THEN /\ entries' = entries \cup {n}
              /\ AddHandle(c, [kind |-> "file", name |-> n, eof |-> FALSE])
         ELSE UNCHANGED <<entries, opened>>
    /\ UNCHANGED <<up, kfileid, reported, lastList, stamping>>

\* Create of "name:com.apple.*": a webdavFile, whatever the store holds.
OpenXAttr(c, n) ==
    /\ Serving(c)
    /\ Mint(c)
    /\ AddHandle(c, [kind |-> "xattr", name |-> n, eof |-> FALSE])
    /\ UNCHANGED <<up, entries, kfileid, reported, lastList, stamping>>

\* CloseRequest of an open handle: the entry is deleted and the file closed.
Close(c, g) ==
    /\ Ready(c) /\ g \in DOMAIN opened[c]
    /\ opened' = [opened EXCEPT ![c] = [x \in DOMAIN @ \ {g} |-> @[x]]]
    /\ UNCHANGED <<up, fileNum, entries, kfileid, reported, lastList, stamping>>

\* Readdir(0) of handle h: a directory returns the entries after its offset
\* and moves the offset to the end; a webdavFile returns nil, nil.
ReaddirOf(h) == IF h.kind = "dir" /\ ~h.eof THEN entries ELSE {}

EntryId(c) == kfileid + 1

\* The connection ends: HandleConnection returns and the session is dropped.
Drop(c) ==
    /\ up' = [up EXCEPT ![c] = FALSE]
    /\ opened' = [opened EXCEPT ![c] = NoHandles]
    /\ UNCHANGED <<fileNum, entries, kfileid, reported, lastList, stamping>>

\* The entries all connections have still to stamp: a listing starts only
\* if KFILEID stays within MaxKFileId once every started listing is done.
Unstamped == MapThenSumSet(LAMBDA x : Len(stamping[x].rest), Conns)

(***************************************************************************)
(* QueryDirectoryRequest with FindFlags # 0 and InfoLevel                  *)
(* FileIdBothDirectoryInformation on an open handle.  Readdir on a regular *)
(* file fails and the error drops the connection.  "*" lists Readdir's     *)
(* entries followed by "." and ".."; a name is answered if Readdir         *)
(* returned it, NO_SUCH_FILE otherwise.  The dir handle's offset is at the *)
(* end afterwards, and RestartScans does not move it back.  The entries    *)
(* are then stamped one by one (StampEntry), each step interleaving with   *)
(* the other connections.                                                  *)
(***************************************************************************)
QueryDirectory(c, g, pattern) ==
    /\ Ready(c) /\ g \in DOMAIN opened[c]
    /\ LET h == opened[c][g]
           got == ReaddirOf(h)
           listing == IF pattern = "*" THEN SetToSeq(got) \o <<".", "..">>
                      ELSE IF pattern \in got THEN <<pattern>> ELSE << >>
       IN IF h.kind = "file"
            THEN Drop(c)
            ELSE /\ kfileid + Unstamped + Len(listing) <= MaxKFileId
                 /\ stamping' = [stamping EXCEPT ![c] =
                                  IF listing = << >> THEN Idle
                                  ELSE [rest |-> listing, from |-> kfileid]]
                 /\ opened' = [opened EXCEPT ![c][g].eof = (h.kind = "dir")]
                 /\ lastList' = IF pattern = "*" /\ h.kind = "dir"
                                  THEN [lastList EXCEPT ![c] = [got |-> Range(listing),
                                                                present |-> entries]]
                                  ELSE lastList
                 /\ UNCHANGED <<up, fileNum, entries, kfileid, reported>>

\* One turn of the loop over fis: getFileIdBothDirInfo(fi) takes the next
\* FileId from KFILEID for the entry; after the last one the reply is sent.
StampEntry(c) ==
    /\ stamping[c].rest # << >>
    /\ reported' = reported \cup {[id |-> EntryId(c), name |-> Head(stamping[c].rest)]}
    /\ kfileid' = kfileid + 1
    /\ stamping' = [stamping EXCEPT ![c] =
                        IF Len(@.rest) = 1 THEN Idle
                        ELSE [rest |-> Tail(@.rest), from |-> @.from + 1]]
    /\ UNCHANGED <<up, fileNum, opened, entries, lastList>>

\* The client connects again: a new SessionS, fileNum 1, no handles.
Reconnect(c) ==
    /\ ~up[c]
    /\ up' = [up EXCEPT ![c] = TRUE]
    /\ fileNum' = [fileNum EXCEPT ![c] = 1]
    /\ UNCHANGED <<opened, entries, kfileid, reported, lastList, stamping>>

Next ==
    \E c \in Conns :
        \/ \E write \in BOOLEAN : OpenRoot(c, write)
        \/ \E n \in EntryNames, create \in BOOLEAN : OpenEntry(c, n, create)
        \/ \E n \in EntryNames : OpenXAttr(c, n)
        \/ \E g \in GUIDs : Close(c, g)
        \/ \E g \in GUIDs, p \in Patterns : QueryDirectory(c, g, p)
        \/ StampEntry(c)
        \/ Ready(c) /\ Drop(c)
        \/ Reconnect(c)

Spec == Init /\ [][Next]_vars

-----------------------------------------------------------------------------

RestartScanListsAll ==
    \A c \in Conns : lastList[c].got = lastList[c].present \cup Dots

=============================================================================
