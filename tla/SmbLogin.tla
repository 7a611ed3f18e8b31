------------------------------ MODULE SmbLogin ------------------------------
(***************************************************************************)
(* The repository's client, SessionC (smb/session_client.go), talking to   *)
(* the server worker of SmbHandshake over one TCP connection.              *)
(*                                                                         *)
(* NewSessionClient dials and runs NegotiateProtocolClient: three RPCs     *)
(* (Negotiate, SessionSetup-1, SessionSetup-2), each a Send of one frame   *)
(* and a Recv of one frame (conn.go), followed by the request's            *)
(* ClientAction.  Only the Negotiate ClientAction's error is returned; the  *)
(* two SessionSetup ClientActions are called and their errors dropped.     *)
(* The caller may then TreeConnect to shares or Close the session.         *)
(*                                                                         *)
(* The connection is a stream: one slot per direction is enough, because   *)
(* both sides wait for the answer before they send again.  It can be lost  *)
(* at any time (reset); a side then reads EOF once the bytes already       *)
(* delivered are consumed.  The NTLM NEGOTIATE flags come from the ntlmssp *)
(* package, which is not in the repository, so whether the client asks for *)
(* the LM key is left open.                                                *)
(*                                                                         *)
(* The server may also face any other peer: then it takes the steps of     *)
(* SmbHandshake with arbitrary inputs.                                     *)
(***************************************************************************)
EXTENDS Naturals, FiniteSets

CONSTANTS
    Users, UnknownUser, Passwords, Password, Nonces, ZeroChallenge, Shares,
    SrvSessionID    \* session.sessionID of the server session (time.Now().UnixNano())

VARIABLES
    stage, dialect, serverChallenge, isAuthenticated, anchors, fileNum,
    sessionKeySet, issued, setup2Status, authBy

Srv == INSTANCE SmbHandshake

srvVars == <<stage, dialect, serverChallenge, isAuthenticated, anchors,
             fileNum, sessionKeySet, issued, setup2Status, authBy>>

VARIABLES
    peer,        \* "SessionC" or "any"
    opts,        \* SessionC.options: user, password, and the LM-key flag of its NEGOTIATE token
    pc,          \* where the client program is
    cSessionID,  \* SessionC.sessionID
    cChallenge,  \* SessionC.Challenge
    cAuth,       \* SessionC.IsAuthenticated
    cDialect,    \* SessionC.dialect
    toSrv,       \* the frame in flight to the server
    toCli,       \* the frame in flight to the client
    link         \* "up" until reset or closed by the client

cliVars == <<peer, opts, pc, cSessionID, cChallenge, cAuth, cDialect, toSrv, toCli, link>>

vars == <<srvVars, cliVars>>

NoMsg == [type |-> "none"]

\* Client program points: waiting for the reply of an RPC, or back with the caller.
Waiting == {"negotiate", "setup1", "setup2", "treeconnect"}
Handshaking == {"dial", "negotiate", "setup1", "setup2"}

Requests ==
    {NoMsg}
    \cup [type : {"Negotiate"}]
    \cup [type : {"Setup1"}, lmKey : BOOLEAN]
    \cup [type : {"Setup2"}, user : Users \cup {UnknownUser}, pw : Passwords,
          chal : Srv!Challenges]
    \cup [type : {"TreeConnect"}, share : Shares, sid : {0, SrvSessionID}]

Replies ==
    {NoMsg}
    \cup [type : {"Negotiate"}, status : {"OK"}, dialect : {Srv!DialectSmb21}]
    \cup [type : {"Setup1"}, status : {"MORE_PROCESSING", "LOGON_FAILURE"},
          sid : {SrvSessionID}, chal : Srv!Challenges]
    \cup [type : {"Setup2"}, status : {"OK", "LOGON_FAILURE"}]
    \cup [type : {"TreeConnect"}, status : {"OK", "NETWORK_NAME_DELETED"}]

TypeOK ==
    /\ Srv!TypeOK
    /\ peer \in {"SessionC", "any"}
    /\ opts \in [user : Users \cup {UnknownUser}, pw : Passwords, lmKey : BOOLEAN]
    /\ pc \in Handshaking \cup Waiting \cup {"ready", "failed", "panicked", "closed"}
    /\ cSessionID \in {0, SrvSessionID}
    /\ cChallenge \in Srv!Challenges
    /\ cAuth \in BOOLEAN
    /\ cDialect \in {Srv!DialectNone, Srv!DialectSmb21}
    /\ toSrv \in Requests
    /\ toCli \in Replies
    /\ link \in {"up", "down"}

\* NewSessionClient after a successful Dial: a zero SessionC with the
\* caller's options; the server worker fresh from NewSessionServer.
Init ==
    /\ Srv!Init
    /\ peer \in {"SessionC", "any"}
    /\ opts \in [user : Users \cup {UnknownUser}, pw : Passwords, lmKey : BOOLEAN]
    /\ pc = "dial"
    /\ cSessionID = 0
    /\ cChallenge = ZeroChallenge
    /\ cAuth = FALSE
    /\ cDialect = Srv!DialectNone
    /\ toSrv = NoMsg
    /\ toCli = NoMsg
    /\ link = "up"

-----------------------------------------------------------------------------
(* The client.                                                             *)

\* RPC: Send of the request frame; the reply is awaited at the next pc.
Send(m, next) ==
    /\ toSrv' = m
    /\ pc' = next

\* NewSessionSetup1Request: the NTLM NEGOTIATE token, whose flags may ask
\* for the LM key.
Setup1Request == [type |-> "Setup1", lmKey |-> opts.lmKey]

\* NewSessionSetup2Request: the NTLMv2 proof of options.User and
\* options.Password over the Challenge the session holds.
Setup2Request(chal) == [type |-> "Setup2", user |-> opts.user, pw |-> opts.pw, chal |-> chal]

\* NewTreeConnectReq: s.newHeader puts the session's sessionID in the header.
TreeConnectRequest(share) == [type |-> "TreeConnect", share |-> share, sid |-> cSessionID]

\* NegotiateProtocolClient sends NewNegotiateRequest (dialects 2.1, 3.0, 3.0.2).
ClientNegotiate ==
    /\ pc = "dial"
    /\ Send([type |-> "Negotiate"], "negotiate")
    /\ UNCHANGED <<srvVars, peer, opts, cSessionID, cChallenge, cAuth, cDialect, toCli, link>>

\* NegotiateRequest.ClientAction on the reply: a failure status is returned
\* as the error of NewSessionClient; otherwise the dialect is taken and
\* SessionSetup-1 is sent with the NTLM NEGOTIATE token.
NegotiateReply ==
    /\ pc = "negotiate"
    /\ toCli.type = "Negotiate"
    /\ toCli' = NoMsg
    /\ IF toCli.status = "OK"
         THEN /\ cDialect' = toCli.dialect
              /\ Send(Setup1Request, "setup1")
         ELSE /\ pc' = "failed"
              /\ UNCHANGED <<cDialect, toSrv>>
    /\ UNCHANGED <<srvVars, peer, opts, cSessionID, cChallenge, cAuth, link>>

\* SessionSetup1Request.ClientAction, whose error is dropped: only a
\* MORE_PROCESSING reply sets sessionID and Challenge.  Then
\* NewSessionSetup2Request computes the proof from options.Password and
\* whatever Challenge the session holds, and sends it.
Setup1Reply ==
    /\ pc = "setup1"
    /\ toCli.type = "Setup1"
    /\ toCli' = NoMsg
    /\ IF toCli.status = "MORE_PROCESSING"
         THEN /\ cSessionID' = toCli.sid
              /\ cChallenge' = toCli.chal
         ELSE UNCHANGED <<cSessionID, cChallenge>>
    /\ Send(Setup2Request(cChallenge'), "setup2")
    /\ UNCHANGED <<srvVars, peer, opts, cAuth, cDialect, link>>

\* Mutant of Setup2Reply: the status check of the ClientAction is gone.
Setup2ReplyUnchecked ==
    /\ pc = "setup2"
    /\ toCli.type = "Setup2"
    /\ toCli' = NoMsg
    /\ cAuth' = TRUE
    /\ pc' = "ready"
    /\ UNCHANGED <<srvVars, peer, opts, cSessionID, cChallenge, cDialect, toSrv, link>>

\* SessionSetup2Request.ClientAction, whose error is dropped: IsAuthenticated
\* only on OK.  NegotiateProtocolClient returns nil either way, and so does
\* NewSessionClient.
Setup2Reply ==
    /\ pc = "setup2"
    /\ toCli.type = "Setup2"
    /\ toCli' = NoMsg
    /\ cAuth' = (toCli.status = "OK")
    /\ pc' = "ready"
    /\ UNCHANGED <<srvVars, peer, opts, cSessionID, cChallenge, cDialect, toSrv, link>>

\* SessionC.TreeConnect(name): the request carries s.sessionID in its header.
TreeConnect(share) ==
    /\ pc = "ready"
    /\ Send(TreeConnectRequest(share), "treeconnect")
    /\ UNCHANGED <<srvVars, peer, opts, cSessionID, cChallenge, cAuth, cDialect, toCli, link>>

\* A failure status is returned to the caller.  On OK the tree id is stored
\* in s.trees, a map NewSessionClient never makes: the assignment panics
\* and the process dies, which closes the socket.
TreeConnectReply ==
    /\ pc = "treeconnect"
    /\ toCli.type = "TreeConnect"
    /\ toCli' = NoMsg
    /\ IF toCli.status = "OK"
         THEN /\ pc' = "panicked"
              /\ link' = "down"
         ELSE /\ pc' = "ready"
              /\ UNCHANGED link
    /\ UNCHANGED <<srvVars, peer, opts, cSessionID, cChallenge, cAuth, cDialect, toSrv>>

\* Recv of an RPC fails once nothing is left to read and the connection is
\* gone: NewSessionClient returns the error; TreeConnect returns it to the caller.
ClientRecvFails ==
    /\ pc \in Waiting
    /\ toCli = NoMsg
    /\ link = "down" \/ stage = "closed"
    /\ pc' = IF pc = "treeconnect" THEN "ready" ELSE "failed"
    /\ UNCHANGED <<srvVars, peer, opts, cSessionID, cChallenge, cAuth, cDialect, toSrv, toCli, link>>

\* SessionC.Close: TreeDisconnect for every entry of s.trees (there are
\* none: an entry is never stored), then conn.Close.
Close ==
    /\ pc = "ready"
    /\ pc' = "closed"
    /\ link' = "down"
    /\ UNCHANGED <<srvVars, peer, opts, cSessionID, cChallenge, cAuth, cDialect, toSrv, toCli>>

-----------------------------------------------------------------------------
(* The server worker: NegotiateProtocolServer's Recv, ServerAction, Send   *)
(* (the session steps are those of SmbHandshake), then the command loop of *)
(* HandleConnection.                                                       *)

cliFixed == <<peer, opts, pc, cSessionID, cChallenge, cAuth, cDialect, link>>

\* The client's dialect list holds 2.1: the reply is OK with 2.1 and the
\* SPNEGO NegTokenInit naming NTLMSSP, which the client's checks accept.
SrvNegotiate ==
    /\ link = "up"
    /\ toSrv.type = "Negotiate"
    /\ Srv!Negotiate(TRUE)
    /\ toSrv' = NoMsg
    /\ toCli' = [type |-> "Negotiate", status |-> "OK", dialect |-> Srv!DialectSmb21]
    /\ UNCHANGED cliFixed

\* The reply to SessionSetup-1 (the client's token always decodes).
Setup1Response(lmKey, nonce) ==
    IF lmKey
      THEN [type |-> "Setup1", status |-> "LOGON_FAILURE", sid |-> SrvSessionID,
            chal |-> ZeroChallenge]
      ELSE [type |-> "Setup1", status |-> "MORE_PROCESSING", sid |-> SrvSessionID,
            chal |-> nonce]

\* Mutant of SrvSetup1: a failure response is not sent.
SrvSetup1SkipsFailedReply ==
    /\ link = "up"
    /\ toSrv.type = "Setup1"
    /\ \E nonce \in Nonces :
          /\ Srv!SessionSetup1(TRUE, toSrv.lmKey, nonce)
          /\ toCli' = IF toSrv.lmKey THEN NoMsg ELSE Setup1Response(FALSE, nonce)
    /\ toSrv' = NoMsg
    /\ UNCHANGED cliFixed

SrvSetup1 ==
    /\ link = "up"
    /\ toSrv.type = "Setup1"
    /\ \E nonce \in Nonces :
          /\ Srv!SessionSetup1(TRUE, toSrv.lmKey, nonce)
          /\ toCli' = Setup1Response(toSrv.lmKey, nonce)
    /\ toSrv' = NoMsg
    /\ UNCHANGED cliFixed

SrvSetup2 ==
    /\ link = "up"
    /\ toSrv.type = "Setup2"
    /\ \E treeOk \in BOOLEAN :
          Srv!SessionSetup2(toSrv.user, toSrv.pw, toSrv.chal, treeOk)
    /\ toSrv' = NoMsg
    /\ toCli' = [type |-> "Setup2", status |-> setup2Status']
    /\ UNCHANGED cliFixed

SrvAdmit ==
    /\ Srv!Admit
    /\ UNCHANGED cliVars

\* The command loop: ActionParserOneMsgFunc answers a header whose session
\* id is not session.sessionID with StatusUserSessionDeleted, and
\* HandleConnection returns on it, closing the connection without a reply.
\* Otherwise TreeConnectRequest.ServerAction looks the share up in the
\* anchors.
SrvTreeConnect ==
    /\ link = "up"
    /\ stage = "serving"
    /\ toSrv.type = "TreeConnect"
    /\ toSrv' = NoMsg
    /\ IF toSrv.sid # SrvSessionID
         THEN /\ stage' = "closed"
              /\ UNCHANGED toCli
         ELSE /\ toCli' = [type |-> "TreeConnect",
                           status |-> IF toSrv.share \in anchors THEN "OK"
                                      ELSE "NETWORK_NAME_DELETED"]
              /\ UNCHANGED stage
    /\ UNCHANGED <<dialect, serverChallenge, isAuthenticated, anchors, fileNum,
                   sessionKeySet, issued, setup2Status, authBy, cliFixed>>

\* Recv fails on a connection the client closed or that was reset: in the
\* handshake NegotiateProtocolServer returns the error, in the command loop
\* HandleConnection returns; both close the socket.
SrvRecvFails ==
    /\ link = "down"
    /\ \/ Srv!FrameError
       \/ /\ stage = "serving"
          /\ stage' = "closed"
          /\ UNCHANGED <<dialect, serverChallenge, isAuthenticated, anchors, fileNum,
                         sessionKeySet, issued, setup2Status, authBy>>
    /\ UNCHANGED cliVars

\* The connection is reset: what is in flight is lost.
ConnLost ==
    /\ link = "up"
    /\ link' = "down"
    /\ toSrv' = NoMsg
    /\ toCli' = NoMsg
    /\ UNCHANGED <<srvVars, peer, opts, pc, cSessionID, cChallenge, cAuth, cDialect>>

\* The server facing any other peer.
AnyPeer ==
    /\ peer = "any"
    /\ Srv!Next
    /\ UNCHANGED cliVars

-----------------------------------------------------------------------------

\* The steps NewSessionClient takes on its own, and those it waits for.
ClientProgram ==
    ClientNegotiate \/ NegotiateReply \/ Setup1Reply \/ Setup2Reply
    \/ TreeConnectReply \/ ClientRecvFails

\* The server goroutine of the connection.
ServerWorker ==
    SrvNegotiate \/ SrvSetup1 \/ SrvSetup2 \/ SrvAdmit \/ SrvTreeConnect \/ SrvRecvFails

\* What the caller of the client does with the session, and faults.
Caller == (\E share \in Shares : TreeConnect(share)) \/ Close

Next ==
    \/ peer = "SessionC" /\ (ClientProgram \/ ServerWorker \/ Caller \/ ConnLost)
    \/ AnyPeer

\* Both sides are goroutines that run whenever they can; the caller and the
\* network are not bound to act.
Spec == Init /\ [][Next]_vars /\ WF_vars(ClientProgram) /\ WF_vars(ServerWorker)

-----------------------------------------------------------------------------
(* Properties.                                                             *)

(* When SessionC believes it is authenticated, the server authenticated    *)
(* this client's user with its password and attached the shares: the      *)
(* client's IsAuthenticated (SessionSetup2Request.ClientAction) agrees     *)
(* with the server session it talks to.                                    *)
ClientAuthMatchesServer ==
    cAuth =>
        /\ isAuthenticated
        /\ authBy.user = opts.user
        /\ authBy.pw = opts.pw
        /\ anchors = Shares

(* NewSessionClient always returns: every RPC of NegotiateProtocolClient   *)
(* is answered or fails, whatever the network does.                        *)
NewSessionClientReturns ==
    (peer = "SessionC" /\ pc = "dial") ~> (pc \notin Handshaking)

====
