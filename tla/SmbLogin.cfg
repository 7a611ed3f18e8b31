\* The repository client against the server, and the server against any peer.
CONSTANTS
    alice = alice
    bob = bob
    carol = carol
    nobody = nobody
    pwA = pwA
    pwB = pwB
    pwWrong = pwWrong
    n1 = n1
    n2 = n2
    n3 = n3
    zero = zero
    shareA = shareA
    ipc = ipc
    Users <- MCUsers
    UnknownUser = nobody
    Passwords <- MCPasswords
    Password <- MCPassword
    Nonces <- MCNonces
    ZeroChallenge = zero
    Shares <- MCShares
    SrvSessionID <- MCSrvSessionID
SPECIFICATION Spec
INVARIANTS TypeOK ClientAuthMatchesServer
PROPERTIES NewSessionClientReturns
CHECK_DEADLOCK FALSE
