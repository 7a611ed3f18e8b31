--------------------------- MODULE MCSmbHandshake ---------------------------
(* Model values for checking SmbHandshake: three users (two of them share a *)
(* password), a wrong password, three challenge nonces and two shares.      *)
EXTENDS SmbHandshake, TLC

CONSTANTS alice, bob, carol, nobody, pwA, pwB, pwWrong, n1, n2, n3, zero, shareA, ipc

MCUsers == {alice, bob, carol}
MCPasswords == {pwA, pwB, pwWrong}
MCPassword == (alice :> pwA) @@ (bob :> pwB) @@ (carol :> pwA)
MCNonces == {n1, n2, n3}
MCShares == {shareA, ipc}
=============================================================================
