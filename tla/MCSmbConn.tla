----------------------------- MODULE MCSmbConn -----------------------------
(* Model values for checking SmbConn: two anchors on one root directory,    *)
(* as in the configuration of smb_test.go (TestDir1 and IPC$ share a root), *)
(* two file names besides "srvsvc", one of them existing with an attribute. *)
EXTENDS SmbConn

CONSTANTS SHARE, IPC, r1, bad, malformed, none, a, b, srvsvc_name, last

MCShares == {SHARE, IPC}
MCRootOf == (SHARE :> r1) @@ (IPC :> r1)
MCFileNames == {a, b}
MCInitFs == [p \in {r1} \X {a, b, srvsvc_name} |-> IF p = <<r1, a>> THEN 1 ELSE 0]
MCInitXattrs == {1}

\* Handle table, sentinel, close actions and renames on the disk share: the
\* file ids a client chains after a Create (the sentinel) or reuses.
MCFileAlphabet ==
       [op : {"TreeConnect"}, share : {SHARE, bad, malformed}]
  \cup [op : {"Create"}, name : {a}, xattr : BOOLEAN, create : {FALSE}]
  \cup [op : {"Create"}, name : {b}, xattr : {FALSE}, create : {TRUE}]
  \cup [op : {"Close"}, fid : {last, 2, 3}]
  \cup [op : {"QueryStream"}, fid : {last}]
  \cup [op : {"SetBasic"}, fid : {last, 2}]
  \cup [op : {"SetDisposition"}, fid : {last, 2}, deletePending : 0..1]
  \cup [op : {"SetRename"}, fid : {last}, target : {b}, replace : 0..1]
  \cup [op : {"Write"}, fid : {last}, pdu : {"Other"}]
  \cup [op : {"NoOp", "Reject"}]

\* The srvsvc pseudo-file on IPC$: opens, PDU writes, reads, notifications.
MCPipeAlphabet ==
       [op : {"TreeConnect"}, share : {IPC}]
  \cup [op : {"Create"}, name : {srvsvc_name, a}, xattr : {FALSE}, create : {FALSE}]
  \cup [op : {"Close"}, fid : {last, 2, 3}]
  \cup [op : {"Read"}, fid : {last, 2, 3}]
  \cup [op : {"Write"}, fid : {last, 2}, pdu : {"Bind", "Request", "Other"}]
  \cup [op : {"ChangeNotify"}, fid : {last}]

\* SetInfo and Close naming handles opened by earlier frames.
MCDeferAlphabet ==
       [op : {"TreeConnect"}, share : {SHARE}]
  \cup [op : {"Create"}, name : {a}, xattr : BOOLEAN, create : {FALSE}]
  \cup [op : {"Create"}, name : {b}, xattr : {FALSE}, create : {TRUE}]
  \cup [op : {"Close"}, fid : {2, 3}]
  \cup [op : {"SetBasic"}, fid : {2}]
  \cup [op : {"SetDisposition"}, fid : {2, 3}, deletePending : 0..1]
  \cup [op : {"SetRename"}, fid : {2}, target : {a, b}, replace : 0..1]
=============================================================================
