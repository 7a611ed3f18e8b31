\* QueryDirectory by two connections on one root: FileIds of listed entries.
CONSTANTS
    c1 = c1
    c2 = c2
    a = a
    b = b
    Conns <- MCConns
    EntryNames <- MCEntryNames
    InitEntries <- MCInitEntries
    MaxFileNum = 3
    MaxKFileId = 4
SYMMETRY MCSymmetry
SPECIFICATION Spec
INVARIANTS TypeOK 
