CONSTANTS
    ShareNames <- MCShareNames
    IPCName <- MCIPCName
    IPCComment <- MCIPCComment
    EnumProbe <- MCEnumProbe
    EnumTail <- MCEnumTail
SPECIFICATION Spec
INVARIANTS TypeOK ShareEnumListsAnchors EnumCodecRoundTrip
