---------------------------- MODULE SmbHandshake ----------------------------
(***************************************************************************)
(* The server side of one connection from accept to the command loop:     *)
(* server.HandleConnection (smb/server.go) calling                         *)
(* SessionS.NegotiateProtocolServer (smb/session_ser.go), which receives   *)
(* an optional SMB1 negotiate, the SMB2 Negotiate, SessionSetup-1 and      *)
(* SessionSetup-2 in this fixed order, hands each one to its ServerAction  *)
(* and sends whatever that returns.  A ServerAction that returns an error  *)
(* response (ERR, or a response whose status is a failure) returns a nil  *)
(* Go error, so the sequence goes on; only a receive, decode or send error *)
(* ends it.  HandleConnection then admits the connection to the command   *)
(* loop iff IsAuthenticated holds.                                         *)
(*                                                                         *)
(* NTLMv2 is abstracted to what decides the outcome: the server accepts   *)
(* iff the client's proof was computed with the stored password of the    *)
(* user and over the server challenge the session holds (HMAC-MD5 treated *)
(* as injective).  The client is any peer: it may use any password and   *)
(* any challenge value, including the zero value a session starts with.   *)
(***************************************************************************)
EXTENDS Naturals, FiniteSets

CONSTANTS
    Users,          \* user names getPwd knows
    UnknownUser,    \* a user name getPwd rejects
    Passwords,      \* passwords a client may try
    Password,       \* getPwd: Users -> Passwords
    Nonces,         \* values rand.Uint64 may return for ServerChallenge
    ZeroChallenge,  \* the zero value ServerChallenge has before SessionSetup-1
    Shares          \* share names getTree returns for a user

ASSUME Password \in [Users -> Passwords]
ASSUME ZeroChallenge \notin Nonces

\* Dialect values of session.dialect: 0 before Negotiate, DialectSmb_2_1 after.
DialectNone  == 0
DialectSmb21 == 528   \* 0x0210

\* The points of NegotiateProtocolServer and HandleConnection a connection can be at.
Stages == {"start", "negotiate", "setup1", "setup2", "check", "serving", "closed"}

Challenges == {ZeroChallenge} \cup Nonces

VARIABLES
    stage,            \* where the worker goroutine is
    dialect,          \* session.dialect
    serverChallenge,  \* session.ServerChallenge
    isAuthenticated,  \* session.IsAuthenticated
    anchors,          \* keys of session.anchors
    fileNum,          \* session.fileNum
    sessionKeySet,    \* len(session.SessionKey) > 0
    issued,           \* challenges the server sent in a MORE_PROCESSING reply (history)
    setup2Status,     \* status of the SessionSetup-2 reply the client got (history)
    authBy            \* credentials of the SessionSetup-2 that authenticated (history)

vars == <<stage, dialect, serverChallenge, isAuthenticated, anchors, fileNum,
          sessionKeySet, issued, setup2Status, authBy>>

NoAuth == [user |-> UnknownUser, pw |-> "none", chal |-> ZeroChallenge]

TypeOK ==
    /\ stage \in Stages
    /\ dialect \in {DialectNone, DialectSmb21}
    /\ serverChallenge \in Challenges
    /\ isAuthenticated \in BOOLEAN
    /\ anchors \subseteq Shares
    /\ fileNum \in 0..1
    /\ sessionKeySet \in BOOLEAN
    /\ issued \subseteq Nonces
    /\ setup2Status \in {"none", "OK", "LOGON_FAILURE"}
    /\ authBy \in [user : Users \cup {UnknownUser}, pw : Passwords \cup {"none"},
                   chal : Challenges]

\* NewSessionServer: every field at its zero value.
Init ==
    /\ stage = "start"
    /\ dialect = DialectNone
    /\ serverChallenge = ZeroChallenge
    /\ isAuthenticated = FALSE
    /\ anchors = {}
    /\ fileNum = 0
    /\ sessionKeySet = FALSE
    /\ issued = {}
    /\ setup2Status = "none"
    /\ authBy = NoAuth

(***************************************************************************)
(* First frame with the SMB1 protocol id: NegotiateSmb1Request's           *)
(* ServerAction answers a bridging negotiate from a fixed dialect list     *)
(* and changes no session field.                                           *)
(***************************************************************************)
\* Mutant of Smb1Negotiate: the bridge records the 2.0.2 dialect it answered
\* with (the assignment commented out in NegotiateSmb1Request.ServerAction).
Smb1NegotiateSetsDialect ==
    /\ stage = "start"
    /\ stage' = "negotiate"
    /\ dialect' = 514
    /\ UNCHANGED <<serverChallenge, isAuthenticated, anchors, fileNum,
                   sessionKeySet, issued, setup2Status, authBy>>

Smb1Negotiate ==
    /\ stage = "start"
    /\ stage' = "negotiate"
    /\ UNCHANGED <<dialect, serverChallenge, isAuthenticated, anchors, fileNum,
                   sessionKeySet, issued, setup2Status, authBy>>

(***************************************************************************)
(* NegotiateRequest.ServerAction: a dialect list without 2.1 is answered  *)
(* with ERR(STATUS_NOT_SUPPORTED), a nil Go error, so the handshake goes  *)
(* on to SessionSetup-1 with the dialect left at 0.                        *)
(***************************************************************************)
Negotiate(offers21) ==
    /\ stage \in {"start", "negotiate"}
    /\ dialect' = IF offers21 THEN DialectSmb21 ELSE dialect
    /\ stage' = "setup1"
    /\ UNCHANGED <<serverChallenge, isAuthenticated, anchors, fileNum,
                   sessionKeySet, issued, setup2Status, authBy>>

(***************************************************************************)
(* SessionSetup1Request.ServerAction: an undecodable NTLM NEGOTIATE token *)
(* is answered with ERR(INVALID_PARAMETER); a token asking for the LM key *)
(* is answered with LOGON_FAILURE; neither stores a challenge.  Otherwise *)
(* a random ServerChallenge is stored and sent with MORE_PROCESSING.      *)
(* In every case the Go error is nil and the handshake reads SessionSetup-2.*)
(***************************************************************************)
SessionSetup1(tokenOk, lmKey, nonce) ==
    /\ stage = "setup1"
    /\ IF tokenOk /\ ~lmKey
         THEN /\ serverChallenge' = nonce
              /\ issued' = issued \cup {nonce}
         ELSE UNCHANGED <<serverChallenge, issued>>
    /\ stage' = "setup2"
    /\ UNCHANGED <<dialect, isAuthenticated, anchors, fileNum, sessionKeySet,
                   setup2Status, authBy>>

\* Mutant of ProofMatches: the NTProof comparison ignores the password.
ProofMatchesAnyPassword(user, pw, chal) ==
    /\ user \in Users
    /\ chal = serverChallenge

\* NTLMv2Verify compared with the client's NTProof: equal iff both were
\* computed from the same password and the same server challenge.
ProofMatches(user, pw, chal) ==
    /\ user \in Users
    /\ pw = Password[user]
    /\ chal = serverChallenge

(***************************************************************************)
(* SessionSetup2Request.ServerAction.  A user getPwd does not know, or a  *)
(* proof that does not match, is answered with LOGON_FAILURE.  On a match *)
(* IsAuthenticated and the session key are set and fileNum is incremented *)
(* (the "tid" of the code) before getTree is called; when getTree fails   *)
(* the prepared reply, whose status is still LOGON_FAILURE, is returned   *)
(* and no anchors are attached, but IsAuthenticated stays set.            *)
(***************************************************************************)
SessionSetup2(user, pw, chal, treeOk) ==
    /\ stage = "setup2"
    /\ stage' = "check"
    /\ IF ProofMatches(user, pw, chal)
         THEN /\ isAuthenticated' = TRUE
              /\ sessionKeySet' = TRUE
              /\ fileNum' = fileNum + 1
              /\ authBy' = [user |-> user, pw |-> pw, chal |-> chal]
              /\ anchors' = IF treeOk THEN Shares ELSE anchors
              /\ setup2Status' = IF treeOk THEN "OK" ELSE "LOGON_FAILURE"
         ELSE /\ setup2Status' = "LOGON_FAILURE"
              /\ UNCHANGED <<isAuthenticated, sessionKeySet, fileNum, authBy, anchors>>
    /\ UNCHANGED <<dialect, serverChallenge, issued>>

(***************************************************************************)
(* Recv fails (EOF, a size above 0x00FFFFFF, an unknown protocol id), a    *)
(* request does not decode, or Send fails: NegotiateProtocolServer returns *)
(* the error and HandleConnection closes the connection.                  *)
(***************************************************************************)
FrameError ==
    /\ stage \in {"start", "negotiate", "setup1", "setup2"}
    /\ stage' = "closed"
    /\ UNCHANGED <<dialect, serverChallenge, isAuthenticated, anchors, fileNum,
                   sessionKeySet, issued, setup2Status, authBy>>

\* HandleConnection after NegotiateProtocolServer returned nil.
Admit ==
    /\ stage = "check"
    /\ stage' = IF isAuthenticated THEN "serving" ELSE "closed"
    /\ UNCHANGED <<dialect, serverChallenge, isAuthenticated, anchors, fileNum,
                   sessionKeySet, issued, setup2Status, authBy>>

Next ==
    \/ Smb1Negotiate
    \/ \E offers21 \in BOOLEAN : Negotiate(offers21)
    \/ \E tokenOk, lmKey \in BOOLEAN, nonce \in Nonces :
          SessionSetup1(tokenOk, lmKey, nonce)
    \/ \E user \in Users \cup {UnknownUser}, pw \in Passwords, chal \in Challenges,
          treeOk \in BOOLEAN :
          SessionSetup2(user, pw, chal, treeOk)
    \/ FrameError
    \/ Admit

Spec == Init /\ [][Next]_vars

-----------------------------------------------------------------------------
(***************************************************************************)
(* Properties.                                                             *)
(***************************************************************************)

(* A session is authenticated only over a challenge the server itself sent *)
(* in a MORE_PROCESSING reply to SessionSetup-1: the states of section 4.3 *)
(* of the spec run Negotiated -> ChallengeIssued -> Authenticated, and an  *)
(* LM-key request is an immediate logon failure.                           *)
ChallengeBeforeAuth ==
    isAuthenticated => serverChallenge \in issued

(* HandleConnection admits a connection to the command loop only if the    *)
(* client was told its SessionSetup-2 succeeded.                           *)
AdmittedOnlyIfToldOk ==
    stage = "serving" => setup2Status = "OK"

=============================================================================
