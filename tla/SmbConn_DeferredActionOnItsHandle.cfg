\* A Close runs only the deferred action of the handle it closes.
CONSTANTS
    SHARE = SHARE
    IPC = IPC
    r1 = r1
    bad = bad
    malformed = malformed
    none = none
    a = a
    b = b
    srvsvc_name = srvsvc_name
    last = last
    Shares <- MCShares
    RootOf <- MCRootOf
    BadShare = bad
    MalformedPath = malformed
    NoShare = none
    FileNames <- MCFileNames
    SrvSvc = srvsvc_name
    LastGUID = last
    InitFs <- MCInitFs
    InitXattrs <- MCInitXattrs
    MaxFileNum = 3
    MaxIno = 6
    MaxChain = 2
    Alphabet <- MCDeferAlphabet
SPECIFICATION Spec
INVARIANT DeferredActionOnItsHandle
