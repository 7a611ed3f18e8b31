\* Share enumeration with a share name outside the BMP.
CONSTANTS
    ShareNames <- MCShareNamesAstral
    IPCName <- MCIPCName
    IPCComment <- MCIPCComment
    EnumProbe <- MCEnumProbe
    EnumTail <- MCEnumTail
SPECIFICATION Spec
INVARIANT ShareEnumListsAnchors
