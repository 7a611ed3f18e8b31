\* Violation run: ChallengeBeforeAuth
CONSTANTS
    alice = alice
    bob = bob
    carol = carol
    nobody = nobody
    pwA = pwA
    pwB = pwB
    pwWrong = pwWrong
    n1 = n1
    n2 = n2
    n3 = n3
    zero = zero
    shareA = shareA
    ipc = ipc
    Users <- MCUsers
    UnknownUser = nobody
    Passwords <- MCPasswords
    Password <- MCPassword
    Nonces <- MCNonces
    ZeroChallenge = zero
    Shares <- MCShares
SPECIFICATION Spec
INVARIANT ChallengeBeforeAuth
CHECK_DEADLOCK FALSE
