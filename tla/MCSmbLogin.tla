----------------------------- MODULE MCSmbLogin -----------------------------
(* Model values for checking SmbLogin: the users, passwords, nonces and     *)
(* shares of MCSmbHandshake, and the server's session id.                  *)
EXTENDS SmbLogin, TLC

CONSTANTS alice, bob, carol, nobody, pwA, pwB, pwWrong, n1, n2, n3, zero, shareA, ipc

MCUsers == {alice, bob, carol}
MCPasswords == {pwA, pwB, pwWrong}
MCPassword == (alice :> pwA) @@ (bob :> pwB) @@ (carol :> pwA)
MCNonces == {n1, n2, n3}
MCShares == {shareA, ipc}
\* A nonzero session id: the UnixNano time NewSessionServer reads.
MCSrvSessionID == 7
=============================================================================
