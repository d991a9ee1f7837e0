---------------------------- MODULE SessionProofs ---------------------------
(***************************************************************************)
(* Proofs about the session of one client: for any number of tasks, calls, *)
(* tokens and revocations, at most one login is in flight, the cached      *)
(* token is the newest one received, and one retry heals one revocation.   *)
(***************************************************************************)
EXTENDS Session, TLAPS

USE SessionAssumption

\* What a refusal raises is an error.
LEMMA ErrorTables ==
    /\ \A kind \in DOMAIN LoginError : LoginError[kind] \in Errors
    /\ \A kind \in DOMAIN GetError : GetError[kind] \in Errors /\ DinError[kind] \in Errors
    /\ "none" \notin DOMAIN LoginError /\ "ok" \notin DOMAIN LoginError
    /\ {"connection", "cancelled"} \subseteq Errors
  BY DEF LoginError, GetError, DinError, Errors

\* The types of tokens and replies.
LEMMA ReplyTypes ==
    /\ NoReply \in Replies
    /\ \A kind \in {"ok"} \cup DOMAIN LoginError \cup DOMAIN GetError :
          Refusal(kind) \in Replies
    /\ \A n \in Tokens : [kind |-> "ok", token |-> n] \in Replies
    /\ \A r \in Replies : r.token \in Tokens \cup {NoToken} /\ r.token \in Nat
    /\ \A n \in 1 .. MaxTokens : n \in Tokens
    /\ NoToken = 0 /\ Tokens \subseteq Nat
    /\ "unauthorized" \in DOMAIN GetError
  BY DEF Replies, NoReply, Refusal, Tokens, NoToken, GetError

-----------------------------------------------------------------------------
(* One login at a time.                                                    *)

\* While the DIN is unknown every login is the connect owner's, afterwards
\* every login is the token owner's.
LEMMA OneLogin == LocksFit => OneLoginInFlight
  <1> SUFFICES ASSUME LocksFit, NEW s \in Tasks, NEW t \in Tasks,
                      pc[s] \in AwaitingLogin, pc[t] \in AwaitingLogin
               PROVE  s = t
    BY DEF OneLoginInFlight
  <1>1. CASE ~ dinKnown
    BY <1>1 DEF LocksFit, AwaitingLogin
  <1>2. CASE dinKnown
    BY <1>2 DEF LocksFit, AwaitingLogin
  <1> QED
    BY <1>1, <1>2

-----------------------------------------------------------------------------
(* The invariant, one lemma per kind of step.                              *)

LEMMA InitInv == Init => SessionInv
  <1> SUFFICES ASSUME Init
               PROVE  SessionInv
    OBVIOUS
  <1>1. TypeOK
    <2>1. ClientTypes
      <3>1. dinKnown \in BOOLEAN
        BY Zenon DEF Init
      <3> QED
        BY <3>1 DEF Init, ClientTypes
    <2>2. CallTypes
      BY ReplyTypes DEF Init, CallTypes
    <2>3. GatewayTypes
      BY ReplyTypes DEF Init, GatewayTypes
    <2> QED
      BY <2>1, <2>2, <2>3 DEF TypeOK
  <1>2. LocksFit
    BY DEF Init, LocksFit
  <1>3. RepliesFit
    <2>1. NoReply.token = 0 /\ NoReply.kind = "none"
      BY DEF NoReply, NoToken
    <2> SUFFICES ASSUME NEW t \in Tasks
                 PROVE  /\ reply[t] = NoReply
                        /\ NoReply.kind # "ok"
                        /\ NoReply.token <= issued
      BY DEF RepliesFit
    <2> QED
      BY <2>1 DEF Init
  <1>4. CachedTokenIsNewest
    BY DEF Init, CachedTokenIsNewest
  <1> QED
    BY <1>1, <1>2, <1>3, <1>4 DEF SessionInv

\* A call starts with no lock and no request of its own.
LEMMA CallInv ==
    ASSUME SessionInv, NEW t \in Tasks, NEW w \in {"connect", "get"}, Call(t, w)
    PROVE  SessionInv'
  <1> USE DEF SessionInv, gateway, locals, TypeOK, ClientTypes, CallTypes, GatewayTypes
  <1>1. TypeOK'
    <2>1. ClientTypes'
      BY ErrorTables, ReplyTypes
         DEF Call, AfterConnect, StartGet, EndCall, Without,
             AwaitingLogin, AwaitingHttp, AwaitingLock
    <2>2. CallTypes'
      <3>1. calls' \in [Tasks -> 0 .. MaxCalls]
        BY DEF Call
      <3>2. CASE EndCall(t, "ok")
        BY <3>1, <3>2, ReplyTypes DEF EndCall
      <3>3. CASE StartGet(t, w)
        BY <3>1, <3>3, ReplyTypes DEF StartGet, AwaitingHttp, AwaitingLock
      <3>4. CASE pc' = [pc EXCEPT ![t] = "connectWait"]
        BY <3>1, <3>4, ReplyTypes
           DEF Call, AfterConnect, EndCall, StartGet, AwaitingHttp, AwaitingLock
      <3> QED
        BY <3>2, <3>3, <3>4 DEF Call, AfterConnect
    <2>3. GatewayTypes'
      BY ErrorTables, ReplyTypes
         DEF Call, AfterConnect, StartGet, EndCall, Without,
             AwaitingLogin, AwaitingHttp, AwaitingLock
    <2> QED
      BY <2>1, <2>2, <2>3 DEF TypeOK
  <1>2. LocksFit'
    BY DEF TypeOK, LocksFit, Call, AfterConnect, StartGet, EndCall, Without, AwaitingLogin, AwaitingHttp, AwaitingLock
  <1>3. RepliesFit'
    BY ErrorTables
       DEF TypeOK, LocksFit, RepliesFit, Call, AfterConnect, StartGet, EndCall, Without, NoReply, Refusal, NoToken,
           AwaitingLogin, AwaitingHttp, AwaitingLock
  <1>4. CachedTokenIsNewest'
    BY DEF TypeOK, RepliesFit, CachedTokenIsNewest, Call, AfterConnect, StartGet, EndCall, Without, Tokens, NoToken
  <1> QED
    BY <1>1, <1>2, <1>3, <1>4

\* The connect lock is taken only while the DIN is unknown.
LEMMA ConnectTurnInv ==
    ASSUME SessionInv, NEW t \in Tasks, ConnectTurn(t)
    PROVE  SessionInv'
  <1> USE DEF SessionInv, gateway, locals, TypeOK, ClientTypes, CallTypes, GatewayTypes
  <1>1. TypeOK'
    <2>1. ClientTypes'
      BY ErrorTables, ReplyTypes
         DEF ConnectTurn, AfterConnect, StartGet, EndCall, Without,
             AwaitingLogin, AwaitingHttp, AwaitingLock
    <2>2. CallTypes'
      BY ErrorTables, ReplyTypes
         DEF ConnectTurn, AfterConnect, StartGet, EndCall, Without,
             AwaitingLogin, AwaitingHttp, AwaitingLock
    <2>3. GatewayTypes'
      BY ErrorTables, ReplyTypes
         DEF ConnectTurn, AfterConnect, StartGet, EndCall, Without,
             AwaitingLogin, AwaitingHttp, AwaitingLock
    <2> QED
      BY <2>1, <2>2, <2>3 DEF TypeOK
  <1>2. LocksFit'
    BY DEF TypeOK, LocksFit, ConnectTurn, AfterConnect, StartGet, EndCall, Without, AwaitingLogin, AwaitingHttp, AwaitingLock
  <1>3. RepliesFit'
    BY ErrorTables
       DEF TypeOK, LocksFit, RepliesFit, ConnectTurn, AfterConnect, StartGet, EndCall, Without, NoReply, Refusal, NoToken,
           AwaitingLogin, AwaitingHttp, AwaitingLock
  <1>4. CachedTokenIsNewest'
    BY DEF TypeOK, RepliesFit, CachedTokenIsNewest, ConnectTurn, AfterConnect, StartGet, EndCall, Without, Tokens, NoToken
  <1> QED
    BY <1>1, <1>2, <1>3, <1>4

\* A login of _ensure_token owns the token lock.
LEMMA EnsureTurnInv ==
    ASSUME SessionInv, NEW t \in Tasks, EnsureTurn(t)
    PROVE  SessionInv'
  <1> USE DEF SessionInv, gateway, locals, TypeOK, ClientTypes, CallTypes, GatewayTypes
  <1>1. TypeOK'
    <2>1. ClientTypes'
      BY ErrorTables, ReplyTypes
         DEF EnsureTurn,
             AwaitingLogin, AwaitingHttp, AwaitingLock
    <2>2. CallTypes'
      BY ErrorTables, ReplyTypes
         DEF EnsureTurn,
             AwaitingLogin, AwaitingHttp, AwaitingLock
    <2>3. GatewayTypes'
      BY ErrorTables, ReplyTypes
         DEF EnsureTurn,
             AwaitingLogin, AwaitingHttp, AwaitingLock
    <2> QED
      BY <2>1, <2>2, <2>3 DEF TypeOK
  <1>2. LocksFit'
    BY DEF TypeOK, LocksFit, EnsureTurn, AwaitingLogin, AwaitingHttp, AwaitingLock
  <1>3. RepliesFit'
    BY ErrorTables
       DEF TypeOK, LocksFit, RepliesFit, EnsureTurn, NoReply, Refusal,
           AwaitingLogin, AwaitingHttp, AwaitingLock
  <1>4. CachedTokenIsNewest'
    BY DEF TypeOK, RepliesFit, CachedTokenIsNewest, EnsureTurn, Tokens, NoToken
  <1> QED
    BY <1>1, <1>2, <1>3, <1>4

\* A login of _refresh_token owns the token lock.
LEMMA RefreshTurnInv ==
    ASSUME SessionInv, NEW t \in Tasks, RefreshTurn(t)
    PROVE  SessionInv'
  <1> USE DEF SessionInv, gateway, locals, TypeOK, ClientTypes, CallTypes, GatewayTypes
  <1>1. TypeOK'
    <2>1. ClientTypes'
      BY ErrorTables, ReplyTypes
         DEF RefreshTurn,
             AwaitingLogin, AwaitingHttp, AwaitingLock
    <2>2. CallTypes'
      BY ErrorTables, ReplyTypes
         DEF RefreshTurn,
             AwaitingLogin, AwaitingHttp, AwaitingLock
    <2>3. GatewayTypes'
      BY ErrorTables, ReplyTypes
         DEF RefreshTurn,
             AwaitingLogin, AwaitingHttp, AwaitingLock
    <2> QED
      BY <2>1, <2>2, <2>3 DEF TypeOK
  <1>2. LocksFit'
    BY DEF TypeOK, LocksFit, RefreshTurn, AwaitingLogin, AwaitingHttp, AwaitingLock
  <1>3. RepliesFit'
    BY ErrorTables
       DEF TypeOK, LocksFit, RepliesFit, RefreshTurn, NoReply, Refusal,
           AwaitingLogin, AwaitingHttp, AwaitingLock
  <1>4. CachedTokenIsNewest'
    BY DEF TypeOK, RepliesFit, CachedTokenIsNewest, RefreshTurn, Tokens, NoToken
  <1> QED
    BY <1>1, <1>2, <1>3, <1>4

\* The token a login brings is the newest, and no other login is in flight
\* that could bring an older one later.
LEMMA LoggedInInv ==
    ASSUME SessionInv, NEW t \in Tasks, LoggedIn(t)
    PROVE  SessionInv'
  <1> USE DEF SessionInv, gateway, locals, TypeOK, ClientTypes, CallTypes, GatewayTypes
  <1>1. TypeOK'
    <2>1. ClientTypes'
      <3>1. /\ reply[t].token \in Tokens \cup {NoToken}
            /\ reply[t].token \in Nat
            /\ reply[t].token > newest /\ reply[t].token <= issued
        <4>1. reply[t] \in Replies
          OBVIOUS
        <4> QED
          BY <4>1, ReplyTypes DEF LoggedIn, RepliesFit, AwaitingHttp
      <3> QED
        BY <3>1 DEF LoggedIn, Without
    <2>2. CallTypes'
      BY ErrorTables, ReplyTypes
         DEF LoggedIn, Without, RepliesFit,
             AwaitingLogin, AwaitingHttp, AwaitingLock
    <2>3. GatewayTypes'
      BY ErrorTables, ReplyTypes
         DEF LoggedIn, Without, RepliesFit,
             AwaitingLogin, AwaitingHttp, AwaitingLock
    <2> QED
      BY <2>1, <2>2, <2>3 DEF TypeOK
  <1>2. LocksFit'
    BY DEF TypeOK, LocksFit, LoggedIn, Without, AwaitingLogin, AwaitingHttp, AwaitingLock
  <1>3. RepliesFit'
    BY OneLogin
       DEF TypeOK, LocksFit, RepliesFit, LoggedIn, Without, NoReply, Refusal, NoToken,
           AwaitingLogin, AwaitingHttp, AwaitingLock
  <1>4. CachedTokenIsNewest'
    BY DEF TypeOK, RepliesFit, CachedTokenIsNewest, LoggedIn, Without, Tokens, NoToken
  <1> QED
    BY <1>1, <1>2, <1>3, <1>4

\* A failed login leaves the call, and its locks.
LEMMA LoginFailedInv ==
    ASSUME SessionInv, NEW t \in Tasks, LoginFailed(t)
    PROVE  SessionInv'
  <1> USE DEF SessionInv, gateway, locals, TypeOK, ClientTypes, CallTypes, GatewayTypes
  <1>1. TypeOK'
    <2>1. ClientTypes'
      BY ErrorTables, ReplyTypes
         DEF LoginFailed, EndCall, Without,
             AwaitingLogin, AwaitingHttp, AwaitingLock
    <2>2. CallTypes'
      BY ErrorTables, ReplyTypes
         DEF LoginFailed, EndCall, Without,
             AwaitingLogin, AwaitingHttp, AwaitingLock
    <2>3. GatewayTypes'
      BY ErrorTables, ReplyTypes
         DEF LoginFailed, EndCall, Without,
             AwaitingLogin, AwaitingHttp, AwaitingLock
    <2> QED
      BY <2>1, <2>2, <2>3 DEF TypeOK
  <1>2. LocksFit'
    BY DEF TypeOK, LocksFit, LoginFailed, EndCall, Without, AwaitingLogin, AwaitingHttp, AwaitingLock
  <1>3. RepliesFit'
    BY ErrorTables
       DEF TypeOK, LocksFit, RepliesFit, LoginFailed, EndCall, Without, NoReply, Refusal, NoToken,
           AwaitingLogin, AwaitingHttp, AwaitingLock
  <1>4. CachedTokenIsNewest'
    BY DEF TypeOK, RepliesFit, CachedTokenIsNewest, LoginFailed, EndCall, Without, Tokens, NoToken
  <1> QED
    BY <1>1, <1>2, <1>3, <1>4

\* The DIN arrives at the owner of the connect lock, who gives it up.
LEMMA GotReplyInv ==
    ASSUME SessionInv, NEW t \in Tasks, GotReply(t)
    PROVE  SessionInv'
  <1> USE DEF SessionInv, gateway, locals, TypeOK, ClientTypes, CallTypes, GatewayTypes
  <1>1. TypeOK'
    <2>1. ClientTypes'
      BY ErrorTables, ReplyTypes
         DEF GotReply, AfterConnect, StartGet, EndCall, Without,
             AwaitingLogin, AwaitingHttp, AwaitingLock
    <2>2. CallTypes'
      <3>1. calls' = calls
        BY DEF GotReply
      <3>2. CASE EndCall(t, "ok")
        BY <3>1, <3>2, ReplyTypes DEF EndCall
      <3>3. CASE StartGet(t, "get")
        BY <3>1, <3>3, ReplyTypes DEF StartGet, AwaitingHttp, AwaitingLock
      <3> QED
        BY <3>2, <3>3 DEF GotReply, AfterConnect
    <2>3. GatewayTypes'
      BY ErrorTables, ReplyTypes
         DEF GotReply, AfterConnect, StartGet, EndCall, Without,
             AwaitingLogin, AwaitingHttp, AwaitingLock
    <2> QED
      BY <2>1, <2>2, <2>3 DEF TypeOK
  <1>2. LocksFit'
    BY DEF TypeOK, LocksFit, GotReply, AfterConnect, StartGet, EndCall, Without, AwaitingLogin, AwaitingHttp, AwaitingLock
  <1>3. RepliesFit'
    BY ErrorTables
       DEF TypeOK, LocksFit, RepliesFit, GotReply, AfterConnect, StartGet, EndCall, Without, NoReply, Refusal, NoToken,
           AwaitingLogin, AwaitingHttp, AwaitingLock
  <1>4. CachedTokenIsNewest'
    BY DEF TypeOK, RepliesFit, CachedTokenIsNewest, GotReply, AfterConnect, StartGet, EndCall, Without, Tokens, NoToken
  <1> QED
    BY <1>1, <1>2, <1>3, <1>4

\* A refused GET queues and holds no request.
LEMMA RefreshInv ==
    ASSUME SessionInv, NEW t \in Tasks, Refresh(t)
    PROVE  SessionInv'
  <1> USE DEF SessionInv, gateway, locals, TypeOK, ClientTypes, CallTypes, GatewayTypes
  <1>1. TypeOK'
    <2>1. ClientTypes'
      BY ErrorTables, ReplyTypes
         DEF Refresh,
             AwaitingLogin, AwaitingHttp, AwaitingLock
    <2>2. CallTypes'
      BY ErrorTables, ReplyTypes
         DEF Refresh,
             AwaitingLogin, AwaitingHttp, AwaitingLock
    <2>3. GatewayTypes'
      BY ErrorTables, ReplyTypes
         DEF Refresh,
             AwaitingLogin, AwaitingHttp, AwaitingLock
    <2> QED
      BY <2>1, <2>2, <2>3 DEF TypeOK
  <1>2. LocksFit'
    BY DEF TypeOK, LocksFit, Refresh, AwaitingLogin, AwaitingHttp, AwaitingLock
  <1>3. RepliesFit'
    BY ErrorTables
       DEF TypeOK, LocksFit, RepliesFit, Refresh, NoReply, Refusal, NoToken,
           AwaitingLogin, AwaitingHttp, AwaitingLock
  <1>4. CachedTokenIsNewest'
    BY DEF TypeOK, RepliesFit, CachedTokenIsNewest, Refresh, Tokens, NoToken
  <1> QED
    BY <1>1, <1>2, <1>3, <1>4

\* A failed GET leaves the call, and its locks.
LEMMA GetFailedInv ==
    ASSUME SessionInv, NEW t \in Tasks, GetFailed(t)
    PROVE  SessionInv'
  <1> USE DEF SessionInv, gateway, locals, TypeOK, ClientTypes, CallTypes, GatewayTypes
  <1> PICK kind \in DOMAIN GetError :
             /\ kind = reply[t].kind
             /\ EndCall(t, (IF connectOwner = t THEN DinError ELSE GetError)[kind])
    BY DEF GetFailed
  <1> DEFINE how == (IF connectOwner = t THEN DinError ELSE GetError)[kind]
  <1>0. how \in Errors /\ EndCall(t, how)
    <2>1. CASE connectOwner = t
      BY <2>1, ErrorTables
    <2>2. CASE connectOwner # t
      BY <2>2, ErrorTables
    <2> QED
      BY <2>1, <2>2
  <1> HIDE DEF how
  <1>1. TypeOK'
    <2>1. refused' \subseteq Tasks
      BY DEF TypeOK, GetFailed
    <2>2. UNCHANGED <<dinKnown, token, calls, gateway, newest>>
      BY DEF GetFailed
    <2> QED
      BY <1>0, <2>1, <2>2, ReplyTypes DEF EndCall, Without
  <1>2. LocksFit'
    BY DEF TypeOK, LocksFit, GetFailed, EndCall, Without, AwaitingLogin, AwaitingHttp, AwaitingLock
  <1>3. RepliesFit'
    BY ErrorTables
       DEF TypeOK, LocksFit, RepliesFit, GetFailed, EndCall, Without, NoReply, Refusal, NoToken,
           AwaitingLogin, AwaitingHttp, AwaitingLock
  <1>4. CachedTokenIsNewest'
    BY DEF TypeOK, RepliesFit, CachedTokenIsNewest, GetFailed, EndCall, Without, Tokens, NoToken
  <1> QED
    BY <1>1, <1>2, <1>3, <1>4

\* A call that fails or is cancelled at its await leaves its locks.
LEMMA LeaveInv ==
    ASSUME SessionInv, NEW t \in Tasks, ConnectionFails(t) \/ Cancel(t)
    PROVE  SessionInv'
  <1> USE DEF SessionInv, gateway, locals, TypeOK, ClientTypes, CallTypes, GatewayTypes
  <1>1. TypeOK'
    <2>1. ClientTypes'
      BY ErrorTables, ReplyTypes
         DEF ConnectionFails, Cancel, EndCall, Without,
             AwaitingLogin, AwaitingHttp, AwaitingLock
    <2>2. CallTypes'
      <3>1. CASE ConnectionFails(t)
        BY <3>1, ErrorTables, ReplyTypes DEF ConnectionFails, EndCall, Without
      <3>2. CASE Cancel(t)
        BY <3>2, ErrorTables, ReplyTypes DEF Cancel, EndCall, Without
      <3> QED
        BY <3>1, <3>2
    <2>3. GatewayTypes'
      BY ErrorTables, ReplyTypes
         DEF ConnectionFails, Cancel, EndCall, Without,
             AwaitingLogin, AwaitingHttp, AwaitingLock
    <2> QED
      BY <2>1, <2>2, <2>3 DEF TypeOK
  <1>2. LocksFit'
    BY DEF TypeOK, LocksFit, ConnectionFails, Cancel, EndCall, Without, AwaitingLogin, AwaitingHttp, AwaitingLock
  <1>3. RepliesFit'
    BY ErrorTables
       DEF TypeOK, LocksFit, RepliesFit, ConnectionFails, Cancel, EndCall, Without, NoReply, Refusal, NoToken,
           AwaitingLogin, AwaitingHttp, AwaitingLock
  <1>4. CachedTokenIsNewest'
    BY DEF TypeOK, RepliesFit, CachedTokenIsNewest, ConnectionFails, Cancel, EndCall, Without, Tokens, NoToken
  <1> QED
    BY <1>1, <1>2, <1>3, <1>4

\* A new token is newer than every token delivered.
LEMMA IssueTokenInv ==
    ASSUME SessionInv, NEW t \in Tasks, IssueToken(t)
    PROVE  SessionInv'
  <1> USE DEF SessionInv, gateway, locals, TypeOK, ClientTypes, CallTypes, GatewayTypes
  <1>1. TypeOK'
    <2>1. ClientTypes'
      BY ErrorTables, ReplyTypes
         DEF IssueToken, Send,
             AwaitingLogin, AwaitingHttp, AwaitingLock
    <2>2. CallTypes'
      BY ErrorTables, ReplyTypes
         DEF IssueToken, Send,
             AwaitingLogin, AwaitingHttp, AwaitingLock
    <2>3. GatewayTypes'
      BY ErrorTables, ReplyTypes
         DEF IssueToken, Send,
             AwaitingLogin, AwaitingHttp, AwaitingLock
    <2> QED
      BY <2>1, <2>2, <2>3 DEF TypeOK
  <1>2. LocksFit'
    BY DEF TypeOK, LocksFit, IssueToken, Send, AwaitingLogin, AwaitingHttp, AwaitingLock
  <1>3. RepliesFit'
    <2>1. issued' = issued + 1 /\ newest' = newest /\ pc' = pc /\ issued \in Nat
      BY DEF IssueToken
    <2>2. reply' = [reply EXCEPT ![t] = [kind |-> "ok", token |-> issued + 1]]
      BY <2>1 DEF IssueToken, Send
    <2>3. \A s \in Tasks : reply[s].token \in Nat
      <3> SUFFICES ASSUME NEW s \in Tasks
                   PROVE  reply[s] \in Replies
        BY ReplyTypes
      <3> QED
        OBVIOUS
    <2>4. t \in Tasks /\ pc[t] \in AwaitingHttp
      BY DEF IssueToken, AwaitingHttp
    <2> QED
      BY <2>1, <2>2, <2>3, <2>4 DEF RepliesFit
  <1>4. CachedTokenIsNewest'
    BY DEF TypeOK, RepliesFit, CachedTokenIsNewest, IssueToken, Send, Tokens, NoToken
  <1> QED
    BY <1>1, <1>2, <1>3, <1>4

\* Other replies bring no token.
LEMMA AnswerInv ==
    ASSUME SessionInv, NEW t \in Tasks, AnswerGet(t) \/ Refuse(t)
    PROVE  SessionInv'
  <1> USE DEF SessionInv, gateway, locals, TypeOK, ClientTypes, CallTypes, GatewayTypes
  <1>1. TypeOK'
    <2>1. ClientTypes'
      BY ErrorTables, ReplyTypes
         DEF AnswerGet, Refuse, Send,
             AwaitingLogin, AwaitingHttp, AwaitingLock
    <2>2. CallTypes'
      <3>1. CASE AnswerGet(t)
        BY <3>1, ErrorTables, ReplyTypes DEF AnswerGet, Send
      <3>2. CASE Refuse(t)
        <4>1. PICK kind \in DOMAIN LoginError \cup DOMAIN GetError :
                      Send(t, Refusal(kind))
          BY <3>2 DEF Refuse
        <4>2. Refusal(kind) \in Replies
          BY <4>1, ReplyTypes
        <4>3. UNCHANGED <<pc, wants, held, attempt, calls, result>>
          BY <3>2 DEF Refuse
        <4> QED
          BY <4>1, <4>2, <4>3 DEF Send
      <3> QED
        BY <3>1, <3>2
    <2>3. GatewayTypes'
      BY ErrorTables, ReplyTypes
         DEF AnswerGet, Refuse, Send,
             AwaitingLogin, AwaitingHttp, AwaitingLock
    <2> QED
      BY <2>1, <2>2, <2>3 DEF TypeOK
  <1>2. LocksFit'
    BY DEF TypeOK, LocksFit, AnswerGet, Refuse, Send, Refusal, AwaitingLogin, AwaitingHttp, AwaitingLock
  <1>3. RepliesFit'
    BY ErrorTables
       DEF TypeOK, LocksFit, RepliesFit, AnswerGet, Refuse, Send, Refusal, NoReply, Refusal,
           AwaitingLogin, AwaitingHttp, AwaitingLock
  <1>4. CachedTokenIsNewest'
    BY DEF TypeOK, RepliesFit, CachedTokenIsNewest, AnswerGet, Refuse, Send, Refusal, Tokens, NoToken
  <1> QED
    BY <1>1, <1>2, <1>3, <1>4

\* A revocation changes nothing at the client.
LEMMA RevokeInv ==
    ASSUME SessionInv, Revoke
    PROVE  SessionInv'
  <1> USE DEF SessionInv, gateway, locals, TypeOK, ClientTypes, CallTypes, GatewayTypes
  <1>1. TypeOK'
    <2>1. ClientTypes'
      BY ErrorTables, ReplyTypes
         DEF Revoke,
             AwaitingLogin, AwaitingHttp, AwaitingLock
    <2>2. CallTypes'
      BY ErrorTables, ReplyTypes
         DEF Revoke,
             AwaitingLogin, AwaitingHttp, AwaitingLock
    <2>3. GatewayTypes'
      BY ErrorTables, ReplyTypes
         DEF Revoke,
             AwaitingLogin, AwaitingHttp, AwaitingLock
    <2> QED
      BY <2>1, <2>2, <2>3 DEF TypeOK
  <1>2. LocksFit'
    BY DEF TypeOK, LocksFit, Revoke, AwaitingLogin, AwaitingHttp, AwaitingLock
  <1>3. RepliesFit'
    BY ErrorTables
       DEF TypeOK, LocksFit, RepliesFit, Revoke, NoReply, Refusal,
           AwaitingLogin, AwaitingHttp, AwaitingLock
  <1>4. CachedTokenIsNewest'
    BY DEF TypeOK, RepliesFit, CachedTokenIsNewest, Revoke, Tokens, NoToken
  <1> QED
    BY <1>1, <1>2, <1>3, <1>4

-----------------------------------------------------------------------------
(* The theorems.                                                           *)

\* Every step keeps the invariant.
LEMMA NextInv == SessionInv /\ [Next]_vars => SessionInv'
  <1> SUFFICES ASSUME SessionInv, [Next]_vars
               PROVE  SessionInv'
    OBVIOUS
  <1>1. CASE UNCHANGED vars
    BY <1>1 DEF vars, locals, gateway, SessionInv, TypeOK, ClientTypes, CallTypes,
                GatewayTypes, LocksFit, RepliesFit, CachedTokenIsNewest
  <1>2. CASE Revoke
    BY <1>2, RevokeInv
  <1>3. ASSUME NEW t \in Tasks, NEW w \in {"connect", "get"}, Call(t, w)
        PROVE  SessionInv'
    BY <1>3, CallInv
  <1>4. ASSUME NEW t \in Tasks, Step(t)
        PROVE  SessionInv'
    BY <1>4, ConnectTurnInv, EnsureTurnInv, RefreshTurnInv, LoggedInInv,
       LoginFailedInv, GotReplyInv, RefreshInv, GetFailedInv, LeaveInv
       DEF Step
  <1>5. ASSUME NEW t \in Tasks,
               Cancel(t) \/ IssueToken(t) \/ AnswerGet(t) \/ Refuse(t)
        PROVE  SessionInv'
    BY <1>5, LeaveInv, IssueTokenInv, AnswerInv
  <1> QED
    BY <1>1, <1>2, <1>3, <1>4, <1>5 DEF Next

\* In every reachable state the locks, the replies and the cached token fit.
THEOREM SessionInvariant == Spec => []SessionInv
  <1> QED
    BY InitInv, NextInv, PTL DEF Spec

\* Every variable keeps its type, whatever number of tasks, calls, tokens and
\* revocations.
THEOREM TypeCorrect == Spec => []TypeOK
  <1>1. SessionInv => TypeOK
    BY DEF SessionInv
  <1> QED
    BY <1>1, SessionInvariant, PTL

\* login() never runs twice at the same time on one transport, though
\* connect() and _ensure_token call it under different locks.
THEOREM LoginsAreExclusive == Spec => []OneLoginInFlight
  <1>1. SessionInv => OneLoginInFlight
    BY OneLogin DEF SessionInv
  <1> QED
    BY <1>1, SessionInvariant, PTL

\* _token is None or the newest token a login brought.
THEOREM TokenIsNewest == Spec => []CachedTokenIsNewest
  <1>1. SessionInv => CachedTokenIsNewest
    BY DEF SessionInv
  <1> QED
    BY <1>1, SessionInvariant, PTL

\* connect() logs in only while the DIN is unknown, however many tasks queued
\* for its lock.
THEOREM ConnectIsShared == Spec => []ConnectLoginsAreShared
  <1>1. SessionInv => ConnectLoginsAreShared
    BY DEF SessionInv, LocksFit, ConnectLoginsAreShared
  <1> QED
    BY <1>1, SessionInvariant, PTL

-----------------------------------------------------------------------------
(* No lock is lost.                                                        *)

OwnersInv == SessionInv /\ OwnersFit

\* Before the DIN is known the owner of the token lock is the owner of the
\* connect lock, so that one never waits for the other.
LEMMA OwnersServe == OwnersInv => LocksAreServed
  <1> SUFFICES ASSUME OwnersInv
               PROVE  LocksAreServed
    OBVIOUS
  <1>1. tokenOwner # NoTask => CanGoOn(tokenOwner)
    BY DEF OwnersInv, OwnersFit, CanGoOn, AwaitingHttp, AwaitingLogin
  <1>2. connectOwner # NoTask => CanGoOn(connectOwner)
    <2> SUFFICES ASSUME connectOwner # NoTask, pc[connectOwner] \notin AwaitingHttp
                 PROVE  CanGoOn(connectOwner)
      BY DEF CanGoOn
    <2>1. connectOwner \in Tasks /\ tokenOwner \in Tasks \cup {NoTask} /\ ~ dinKnown
      BY DEF OwnersInv, SessionInv, TypeOK, ClientTypes, LocksFit
    <2>2. pc[connectOwner] \in {"ensureWait", "refreshWait"}
      BY <2>1 DEF OwnersInv, OwnersFit, SessionInv, TypeOK, CallTypes,
                  AwaitingHttp, AwaitingLock
    <2>3. tokenOwner = NoTask
      <3> SUFFICES ASSUME tokenOwner # NoTask
                   PROVE  FALSE
        OBVIOUS
      <3>1. pc[tokenOwner] \in {"ensureLogin", "refreshLogin"}
        BY DEF OwnersInv, OwnersFit
      <3>2. connectOwner = tokenOwner
        BY <2>1, <3>1 DEF OwnersInv, SessionInv, LocksFit
      <3> QED
        BY <2>2, <3>1, <3>2
    <2> QED
      BY <2>2, <2>3 DEF CanGoOn
  <1> QED
    BY <1>1, <1>2 DEF LocksAreServed

LEMMA InitOwns == Init => OwnersInv
  BY InitInv DEF Init, OwnersInv, OwnersFit

\* A task that moves, and that owns afterwards only what its new await may
\* own, leaves the other owners as they are.
LEMMA MoveOwns ==
    ASSUME OwnersInv, NEW t \in Tasks, NEW at, pc' = [pc EXCEPT ![t] = at],
           tokenOwner' \in {tokenOwner, NoTask, t},
           connectOwner' \in {connectOwner, NoTask, t},
           tokenOwner' = t => at \in {"ensureLogin", "refreshLogin"},
           connectOwner' = t => at \notin {"idle", "connectWait"}
    PROVE  OwnersFit'
  <1>1. pc'[t] = at /\ \A x \in Tasks \ {t} : pc'[x] = pc[x]
    BY DEF OwnersInv, SessionInv, TypeOK, CallTypes
  <1>2. /\ tokenOwner' \notin {NoTask, t} => tokenOwner' = tokenOwner /\ tokenOwner \in Tasks
        /\ connectOwner' \notin {NoTask, t} =>
              connectOwner' = connectOwner /\ connectOwner \in Tasks
    BY DEF OwnersInv, SessionInv, TypeOK, ClientTypes
  <1> QED
    BY <1>1, <1>2 DEF OwnersInv, OwnersFit

\* A call that ends owns nothing, whichever await it was at.
LEMMA EndOwns ==
    ASSUME OwnersInv, NEW t \in Tasks, NEW how, EndCall(t, how)
    PROVE  OwnersFit'
  <1>1. /\ pc' = [pc EXCEPT ![t] = "idle"]
        /\ tokenOwner' \in {tokenOwner, NoTask} /\ tokenOwner' # t
        /\ connectOwner' \in {connectOwner, NoTask} /\ connectOwner' # t
    BY DEF EndCall, Without
  <1> QED
    BY <1>1, MoveOwns

\* A call that goes on from connect() to its GET has freed the connect lock;
\* it had no login, and so not the token lock.
LEMMA StartOwns ==
    ASSUME OwnersInv, NEW t \in Tasks, NEW w, StartGet(t, w),
           pc[t] \notin {"ensureLogin", "refreshLogin"}
    PROVE  OwnersFit'
  <1>1. tokenOwner' = tokenOwner /\ tokenOwner # t
    BY DEF StartGet, OwnersInv, OwnersFit
  <1>2. connectOwner' \in {connectOwner, NoTask} /\ connectOwner' # t
    BY DEF StartGet, Without
  <1>3. \E at : pc' = [pc EXCEPT ![t] = at]
    BY DEF StartGet
  <1> QED
    BY <1>1, <1>2, <1>3, MoveOwns

LEMMA TurnsOwn ==
    ASSUME OwnersInv, NEW t \in Tasks,
           (\E w \in {"connect", "get"} : Call(t, w)) \/ ConnectTurn(t)
    PROVE  OwnersFit'
  <1>1. pc[t] \in {"idle", "connectWait"}
    BY DEF Call, ConnectTurn
  <1>2. connectOwner # t /\ tokenOwner # t
    BY <1>1 DEF OwnersInv, OwnersFit
  <1>3. \/ EndCall(t, "ok")
        \/ \E w : StartGet(t, w)
        \/ /\ tokenOwner' = tokenOwner
           /\ \/ pc' = [pc EXCEPT ![t] = "connectWait"] /\ connectOwner' = connectOwner
              \/ pc' = [pc EXCEPT ![t] = "connectLogin"] /\ connectOwner' = t
    BY DEF Call, ConnectTurn, AfterConnect
  <1>4. CASE \E w : StartGet(t, w)
    BY <1>1, <1>4, StartOwns
  <1>5. CASE pc' = [pc EXCEPT ![t] = "connectWait"] /\ UNCHANGED <<connectOwner, tokenOwner>>
    BY <1>2, <1>5, MoveOwns
  <1>6. CASE /\ pc' = [pc EXCEPT ![t] = "connectLogin"]
             /\ connectOwner' = t /\ tokenOwner' = tokenOwner
    BY <1>2, <1>6, MoveOwns
  <1> QED
    BY <1>3, <1>4, <1>5, <1>6, EndOwns

\* The token lock is taken together with a login.
LEMMA TokenTurnsOwn ==
    ASSUME OwnersInv, NEW t \in Tasks, EnsureTurn(t) \/ RefreshTurn(t)
    PROVE  OwnersFit'
  <1>1. tokenOwner # t /\ connectOwner' = connectOwner
    BY DEF EnsureTurn, RefreshTurn, OwnersInv, OwnersFit
  <1>2. \/ pc' = [pc EXCEPT ![t] = "get"] /\ tokenOwner' = tokenOwner
        \/ /\ tokenOwner' = t
           /\ \E at \in {"ensureLogin", "refreshLogin"} : pc' = [pc EXCEPT ![t] = at]
    BY DEF EnsureTurn, RefreshTurn
  <1> QED
    BY <1>1, <1>2, MoveOwns

\* Between its requests a task keeps the connect lock and frees the token's.
LEMMA RequestsOwn ==
    ASSUME OwnersInv, NEW t \in Tasks, LoggedIn(t) \/ Refresh(t)
    PROVE  OwnersFit'
  <1>1. /\ \E at \in {"get", "refreshWait"} : pc' = [pc EXCEPT ![t] = at]
        /\ connectOwner' = connectOwner
    BY DEF LoggedIn, Refresh
  <1>2. tokenOwner' \in {tokenOwner, NoTask} /\ tokenOwner' # t
    BY DEF LoggedIn, Refresh, Without, OwnersInv, OwnersFit
  <1> QED
    BY <1>1, <1>2, MoveOwns

LEMMA RepliesOwn ==
    ASSUME OwnersInv, NEW t \in Tasks,
           \/ LoginFailed(t) \/ GotReply(t) \/ GetFailed(t)
           \/ ConnectionFails(t) \/ Cancel(t)
    PROVE  OwnersFit'
  <1>1. (\E how : EndCall(t, how)) \/ (pc[t] = "get" /\ \E w : StartGet(t, w))
    BY DEF LoginFailed, GotReply, AfterConnect, GetFailed, ConnectionFails, Cancel
  <1> QED
    BY <1>1, EndOwns, StartOwns

LEMMA NextOwns == OwnersInv /\ [Next]_vars => OwnersInv'
  <1> SUFFICES ASSUME OwnersInv, [Next]_vars
               PROVE  OwnersInv'
    OBVIOUS
  <1>1. SessionInv'
    BY NextInv DEF OwnersInv
  <1>2. UNCHANGED <<pc, connectOwner, tokenOwner>> => OwnersFit'
    BY DEF OwnersInv, OwnersFit
  <1>3. UNCHANGED vars \/ Revoke => OwnersFit'
    BY <1>2 DEF vars, Revoke
  <1>4. ASSUME NEW t \in Tasks, NEW w \in {"connect", "get"}, Call(t, w)
        PROVE  OwnersFit'
    BY <1>4, TurnsOwn
  <1>5. ASSUME NEW t \in Tasks, Step(t)
        PROVE  OwnersFit'
    BY <1>5, TurnsOwn, TokenTurnsOwn, RequestsOwn, RepliesOwn DEF Step
  <1>6. ASSUME NEW t \in Tasks, Cancel(t)
        PROVE  OwnersFit'
    BY <1>6, RepliesOwn
  <1>7. ASSUME NEW t \in Tasks, IssueToken(t) \/ AnswerGet(t) \/ Refuse(t)
        PROVE  OwnersFit'
    BY <1>2, <1>7 DEF IssueToken, AnswerGet, Refuse
  <1> QED
    BY <1>1, <1>3, <1>4, <1>5, <1>6, <1>7 DEF Next, OwnersInv

\* A task that waits for a lock waits for a task that can go on: no lock is
\* lost to a failed or cancelled call, and no two tasks wait on each other.
THEOREM NoLockIsLost == Spec => []LocksAreServed
  <1>1. Spec => []OwnersInv
    BY InitOwns, NextOwns, PTL DEF Spec
  <1> QED
    BY <1>1, OwnersServe, PTL

-----------------------------------------------------------------------------
(* One retry heals a revocation.                                           *)

\* A task that refreshes does so because its token was revoked; so while there
\* was but one revocation the token it gets is accepted for ever.
HealFits(t) ==
    /\ pc[t] = "ensureWait" => attempt[t] = 0
    /\ pc[t] = "get" => held[t] \in 1 .. issued
    /\ \/ pc[t] \in {"refreshWait", "refreshLogin"}
       \/ pc[t] = "get" /\ (attempt[t] = 1 \/ reply[t].kind = "unauthorized")
       => revocations > 0
    /\ revocations <= 1 =>
         /\ pc[t] = "refreshLogin" /\ reply[t].kind = "ok" => reply[t].token \in valid
         /\ pc[t] = "get" /\ attempt[t] = 1 =>
               held[t] \in valid /\ reply[t].kind # "unauthorized"

HealInv == /\ SessionInv
           /\ token = NoToken \/ token \in 1 .. issued
           /\ revocations = 0 => valid = 1 .. issued
           /\ \A t \in Tasks : HealFits(t)
           /\ OneRetryHealsARevocation

LEMMA InitHeals == Init => HealInv
  <1> SUFFICES ASSUME Init
               PROVE  HealInv
    OBVIOUS
  <1>1. valid = 1 .. issued
    BY DEF Init
  <1>2. \A t \in Tasks : HealFits(t)
    BY DEF Init, HealFits
  <1>3. token = NoToken /\ OneRetryHealsARevocation
    BY DEF Init, OneRetryHealsARevocation
  <1> QED
    BY <1>1, <1>2, <1>3, InitInv DEF HealInv

\* A step of one task, on which the gateway does nothing, leaves the others as
\* they are.
LEMMA TaskHeals ==
    ASSUME HealInv, SessionInv', NEW t \in Tasks, UNCHANGED gateway,
           \A x \in Tasks \ {t} : /\ pc'[x] = pc[x] /\ held'[x] = held[x]
                                  /\ attempt'[x] = attempt[x] /\ reply'[x] = reply[x],
           token' \in {token, NoToken} \/ token' \in 1 .. issued,
           refused' \subseteq refused \/ revocations > 1,
           HealFits(t)'
    PROVE  HealInv'
  <1>1. \A x \in Tasks \ {t} : HealFits(x)'
    BY DEF HealInv, HealFits, gateway
  <1>2. \A x \in Tasks : HealFits(x)'
    BY <1>1
  <1>3. OneRetryHealsARevocation'
    BY DEF HealInv, OneRetryHealsARevocation, gateway, SessionInv, TypeOK, GatewayTypes
  <1> QED
    BY <1>2, <1>3 DEF HealInv, gateway

\* A call that ends, or has a GET to start, keeps nothing of an earlier refresh.
LEMMA EndHeals ==
    ASSUME HealInv, SessionInv', NEW t \in Tasks, NEW how, EndCall(t, how),
           UNCHANGED <<gateway, token>>, refused' \subseteq refused \/ revocations > 1
    PROVE  HealInv'
  <1>1. /\ pc'[t] = "idle"
        /\ \A x \in Tasks \ {t} : /\ pc'[x] = pc[x] /\ held'[x] = held[x]
                                  /\ attempt'[x] = attempt[x] /\ reply'[x] = reply[x]
    BY DEF EndCall, HealInv, SessionInv, TypeOK, CallTypes
  <1>2. HealFits(t)'
    BY <1>1 DEF HealFits
  <1> QED
    BY <1>1, <1>2, TaskHeals

LEMMA StartHeals ==
    ASSUME HealInv, SessionInv', NEW t \in Tasks, NEW w, StartGet(t, w),
           UNCHANGED <<gateway, token>>, refused' \subseteq refused
    PROVE  HealInv'
  <1>1. /\ pc'[t] = IF token # NoToken THEN "get" ELSE "ensureWait"
        /\ held'[t] = token /\ attempt'[t] = 0 /\ reply'[t] = NoReply
        /\ \A x \in Tasks \ {t} : /\ pc'[x] = pc[x] /\ held'[x] = held[x]
                                  /\ attempt'[x] = attempt[x] /\ reply'[x] = reply[x]
    BY DEF StartGet, HealInv, SessionInv, TypeOK, CallTypes
  <1>2. issued' = issued /\ NoReply.kind = "none"
    BY DEF gateway, NoReply
  <1>3. HealFits(t)'
    BY <1>1, <1>2 DEF HealFits, HealInv
  <1> QED
    BY <1>1, <1>3, TaskHeals

\* Waiting, or logging in to connect, needs nothing.
LEMMA WaitHeals ==
    ASSUME HealInv, SessionInv', NEW t \in Tasks,
           NEW at \in {"connectWait", "connectLogin", "ensureLogin"},
           pc' = [pc EXCEPT ![t] = at],
           UNCHANGED <<gateway, token, held, attempt, reply>>, refused' \subseteq refused
    PROVE  HealInv'
  <1>1. /\ pc'[t] = at
        /\ \A x \in Tasks \ {t} : /\ pc'[x] = pc[x] /\ held'[x] = held[x]
                                  /\ attempt'[x] = attempt[x] /\ reply'[x] = reply[x]
    BY DEF HealInv, SessionInv, TypeOK, CallTypes
  <1>2. HealFits(t)'
    BY <1>1 DEF HealFits
  <1> QED
    BY <1>1, <1>2, TaskHeals

LEMMA TurnsHeal ==
    ASSUME HealInv, SessionInv', NEW t \in Tasks,
           (\E w \in {"connect", "get"} : Call(t, w)) \/ ConnectTurn(t)
    PROVE  HealInv'
  <1>1. UNCHANGED <<gateway, token>> /\ refused' \subseteq refused
    BY DEF Call, ConnectTurn
  <1>2. \/ EndCall(t, "ok")
        \/ \E w : StartGet(t, w)
        \/ \E at \in {"connectWait", "connectLogin"} :
              pc' = [pc EXCEPT ![t] = at] /\ UNCHANGED <<held, attempt, reply>>
    BY DEF Call, ConnectTurn, AfterConnect, locals
  <1>3. CASE EndCall(t, "ok")
    BY <1>1, <1>3, EndHeals
  <1>4. CASE \E w : StartGet(t, w)
    BY <1>1, <1>4, StartHeals
  <1>5. CASE \E at \in {"connectWait", "connectLogin"} :
                pc' = [pc EXCEPT ![t] = at] /\ UNCHANGED <<held, attempt, reply>>
    BY <1>1, <1>5, WaitHeals
  <1> QED
    BY <1>2, <1>3, <1>4, <1>5

LEMMA EnsureTurnHeals ==
    ASSUME HealInv, SessionInv', NEW t \in Tasks, EnsureTurn(t)
    PROVE  HealInv'
  <1>1. UNCHANGED <<gateway, token, attempt, reply, refused>> /\ pc[t] = "ensureWait"
    BY DEF EnsureTurn
  <1>2. CASE pc' = [pc EXCEPT ![t] = "ensureLogin"] /\ UNCHANGED held
    BY <1>1, <1>2, WaitHeals
  <1>3. CASE token # NoToken /\ held' = [held EXCEPT ![t] = token]
             /\ pc' = [pc EXCEPT ![t] = "get"]
    <2>1. /\ pc'[t] = "get" /\ held'[t] = token
          /\ \A x \in Tasks \ {t} : /\ pc'[x] = pc[x] /\ held'[x] = held[x]
                                    /\ attempt'[x] = attempt[x] /\ reply'[x] = reply[x]
      BY <1>1, <1>3 DEF HealInv, SessionInv, TypeOK, CallTypes
    <2>2. attempt'[t] = 0 /\ reply'[t].kind = "none"
      BY <1>1 DEF HealInv, HealFits, SessionInv, RepliesFit, AwaitingHttp, AwaitingLogin,
                  NoReply
    <2>3. issued' = issued
      BY <1>1 DEF gateway
    <2>4. HealFits(t)'
      BY <1>3, <2>1, <2>2, <2>3 DEF HealFits, HealInv
    <2> QED
      BY <1>1, <2>1, <2>4, TaskHeals
  <1> QED
    BY <1>2, <1>3 DEF EnsureTurn

\* A refresh begins after a refusal and so after a revocation.
LEMMA RefreshHeals ==
    ASSUME HealInv, SessionInv', NEW t \in Tasks, Refresh(t) \/ RefreshTurn(t)
    PROVE  HealInv'
  <1>1. /\ UNCHANGED <<gateway, held, attempt, refused>> /\ token' \in {token, NoToken}
        /\ \E at \in {"refreshWait", "refreshLogin"} : pc' = [pc EXCEPT ![t] = at]
        /\ reply' = reply \/ reply' = [reply EXCEPT ![t] = NoReply]
    BY DEF Refresh, RefreshTurn, locals
  <1>2. /\ pc'[t] \in {"refreshWait", "refreshLogin"}
        /\ \A x \in Tasks \ {t} : /\ pc'[x] = pc[x] /\ held'[x] = held[x]
                                  /\ attempt'[x] = attempt[x] /\ reply'[x] = reply[x]
    BY <1>1 DEF HealInv, SessionInv, TypeOK, CallTypes
  <1>3. reply'[t].kind = "none"
    <2>1. CASE Refresh(t)
      BY <2>1 DEF Refresh, NoReply, HealInv, SessionInv, TypeOK, CallTypes
    <2>2. CASE RefreshTurn(t)
      BY <2>2 DEF RefreshTurn, NoReply, HealInv, SessionInv, RepliesFit, AwaitingHttp,
                  AwaitingLogin
    <2> QED
      BY <2>1, <2>2
  <1>4. revocations > 0 /\ revocations' = revocations
    BY <1>1 DEF Refresh, RefreshTurn, HealInv, HealFits, gateway
  <1>5. HealFits(t)'
    BY <1>2, <1>3, <1>4 DEF HealFits
  <1> QED
    BY <1>1, <1>2, <1>5, TaskHeals

LEMMA LoggedInHeals ==
    ASSUME HealInv, SessionInv', NEW t \in Tasks, LoggedIn(t)
    PROVE  HealInv'
  <1>1. /\ UNCHANGED <<gateway, refused>> /\ token' = reply[t].token
        /\ pc[t] \in AwaitingLogin /\ reply[t].kind = "ok"
    BY DEF LoggedIn
  <1>2. /\ pc'[t] = "get" /\ held'[t] = reply[t].token /\ reply'[t] = NoReply
        /\ attempt'[t] = IF pc[t] = "refreshLogin" THEN 1 ELSE 0
        /\ \A x \in Tasks \ {t} : /\ pc'[x] = pc[x] /\ held'[x] = held[x]
                                  /\ attempt'[x] = attempt[x] /\ reply'[x] = reply[x]
    BY DEF LoggedIn, HealInv, SessionInv, TypeOK, CallTypes
  <1>3. reply[t].token \in 1 .. issued
    <2>1. reply[t].token > newest /\ reply[t].token <= issued
      BY <1>1 DEF HealInv, SessionInv, RepliesFit
    <2>2. newest \in Nat /\ issued \in Nat /\ reply[t].token \in Nat
      BY ReplyTypes DEF HealInv, SessionInv, TypeOK, ClientTypes, CallTypes, GatewayTypes
    <2> QED
      BY <2>1, <2>2
  <1>4. HealFits(t)'
    <2>1. NoReply.kind = "none" /\ UNCHANGED <<issued, valid, revocations>>
      BY <1>1 DEF NoReply, gateway
    <2> QED
      BY <1>1, <1>2, <1>3, <2>1 DEF HealFits, HealInv
  <1> QED
    BY <1>1, <1>2, <1>3, <1>4, TaskHeals

\* The second refusal of a GET says that there was a second revocation.
LEMMA EndsHeal ==
    ASSUME HealInv, SessionInv', NEW t \in Tasks,
           LoginFailed(t) \/ GetFailed(t) \/ ConnectionFails(t) \/ Cancel(t)
    PROVE  HealInv'
  <1>1. UNCHANGED <<gateway, token>> /\ \E how : EndCall(t, how)
    BY DEF LoginFailed, GetFailed, ConnectionFails, Cancel
  <1>2. refused' \subseteq refused \/ revocations > 1
    <2>1. CASE refused' \subseteq refused
      BY <2>1
    <2>2. CASE /\ pc[t] = "get" /\ reply[t].kind = "unauthorized" /\ attempt[t] = 1
      <3>1. ~ (revocations <= 1)
        BY <2>2 DEF HealInv, HealFits
      <3> QED
        BY <3>1 DEF HealInv, SessionInv, TypeOK, GatewayTypes
    <2> QED
      BY <2>1, <2>2 DEF LoginFailed, GetFailed, ConnectionFails, Cancel
  <1> QED
    BY <1>1, <1>2, EndHeals

LEMMA GotReplyHeals ==
    ASSUME HealInv, SessionInv', NEW t \in Tasks, GotReply(t)
    PROVE  HealInv'
  <1>1. UNCHANGED <<gateway, token>> /\ refused' \subseteq refused
    BY DEF GotReply
  <1>2. EndCall(t, "ok") \/ \E w : StartGet(t, w)
    BY DEF GotReply, AfterConnect
  <1> QED
    BY <1>1, <1>2, EndHeals, StartHeals

\* A token is accepted when it is issued.
LEMMA IssueHeals ==
    ASSUME HealInv, SessionInv', NEW t \in Tasks, IssueToken(t)
    PROVE  HealInv'
  <1>1. /\ pc[t] \in AwaitingLogin /\ issued' = issued + 1 /\ issued \in Nat
        /\ valid' = valid \cup {issued + 1} /\ valid \subseteq valid'
        /\ 1 .. issued \subseteq 1 .. issued'
        /\ UNCHANGED <<pc, held, attempt, revocations, refused, token>>
    BY DEF IssueToken, locals, HealInv, SessionInv, TypeOK, GatewayTypes
  <1>2. /\ reply'[t].kind = "ok" /\ reply'[t].token = issued + 1
        /\ \A x \in Tasks \ {t} : reply'[x] = reply[x]
    BY DEF IssueToken, Send, HealInv, SessionInv, TypeOK, CallTypes
  <1>3. \A x \in Tasks \ {t} : HealFits(x)'
    BY <1>1, <1>2 DEF HealInv, HealFits
  <1>4. HealFits(t)'
    BY <1>1, <1>2 DEF HealInv, HealFits, AwaitingLogin
  <1>5. \A x \in Tasks : HealFits(x)'
    BY <1>3, <1>4
  <1>6. revocations' = 0 => valid' = 1 .. issued'
    BY <1>1 DEF HealInv
  <1>7. token' = NoToken \/ token' \in 1 .. issued'
    BY <1>1 DEF HealInv
  <1>8. OneRetryHealsARevocation'
    BY <1>1 DEF HealInv, OneRetryHealsARevocation
  <1> QED
    BY <1>5, <1>6, <1>7, <1>8 DEF HealInv

\* A GET is refused as unauthorized only if its token was revoked.
LEMMA AnswerHeals ==
    ASSUME HealInv, SessionInv', NEW t \in Tasks, AnswerGet(t) \/ Refuse(t)
    PROVE  HealInv'
  <1>1. /\ UNCHANGED <<gateway, pc, held, attempt, refused, token>>
        /\ \A x \in Tasks \ {t} : reply'[x] = reply[x]
        /\ \E kind : reply'[t] = Refusal(kind)
    BY DEF AnswerGet, Refuse, Send, locals, HealInv, SessionInv, TypeOK, CallTypes
  <1>2. reply'[t].kind = "unauthorized" => pc[t] = "get" /\ held[t] \notin valid
    <2>1. CASE AnswerGet(t)
      BY <2>1 DEF AnswerGet, Send, Refusal, HealInv, SessionInv, TypeOK, CallTypes
    <2>2. CASE Refuse(t)
      BY <2>2, SessionAssumption
         DEF Refuse, Send, Refusal, HealInv, SessionInv, TypeOK, CallTypes
    <2> QED
      BY <2>1, <2>2
  <1>3. pc[t] = "refreshLogin" => reply'[t].kind # "ok"
    <2>1. CASE AnswerGet(t)
      BY <2>1 DEF AnswerGet
    <2>2. CASE Refuse(t)
      BY <2>2, ErrorTables
         DEF Refuse, Send, Refusal, HealInv, SessionInv, TypeOK, CallTypes
    <2> QED
      BY <2>1, <2>2
  <1>4. HealFits(t)'
    <2>1. UNCHANGED <<issued, valid, revocations>>
      BY <1>1 DEF gateway
    <2>2. reply'[t].kind = "unauthorized" => revocations > 0
      BY <1>2 DEF HealInv, HealFits, SessionInv, TypeOK, GatewayTypes
    <2> QED
      BY <1>1, <1>2, <1>3, <2>1, <2>2 DEF HealInv, HealFits
  <1> QED
    BY <1>1, <1>4, TaskHeals

\* The first revocation finds nobody who has refreshed.
LEMMA RevokeHeals ==
    ASSUME HealInv, SessionInv', Revoke
    PROVE  HealInv'
  <1>1. /\ revocations' = revocations + 1 /\ revocations \in Nat
        /\ UNCHANGED <<pc, held, attempt, reply, issued, token, refused>>
    BY DEF Revoke, locals, HealInv, SessionInv, TypeOK, GatewayTypes
  <1>2. \A t \in Tasks : HealFits(t)'
    BY <1>1 DEF HealInv, HealFits
  <1>3. OneRetryHealsARevocation'
    BY <1>1 DEF HealInv, OneRetryHealsARevocation
  <1> QED
    BY <1>1, <1>2, <1>3 DEF HealInv

LEMMA NextHeals == HealInv /\ [Next]_vars => HealInv'
  <1> SUFFICES ASSUME HealInv, [Next]_vars
               PROVE  HealInv'
    OBVIOUS
  <1>1. SessionInv'
    BY NextInv DEF HealInv
  <1>2. CASE UNCHANGED vars
    BY <1>1, <1>2 DEF vars, locals, gateway, HealInv, HealFits, OneRetryHealsARevocation
  <1>3. CASE Revoke
    BY <1>1, <1>3, RevokeHeals
  <1>4. ASSUME NEW t \in Tasks, NEW w \in {"connect", "get"}, Call(t, w)
        PROVE  HealInv'
    BY <1>1, <1>4, TurnsHeal
  <1>5. ASSUME NEW t \in Tasks, Step(t)
        PROVE  HealInv'
    BY <1>1, <1>5, TurnsHeal, EnsureTurnHeals, RefreshHeals, LoggedInHeals, EndsHeal,
       GotReplyHeals DEF Step
  <1>6. ASSUME NEW t \in Tasks,
               Cancel(t) \/ IssueToken(t) \/ AnswerGet(t) \/ Refuse(t)
        PROVE  HealInv'
    BY <1>1, <1>6, EndsHeal, IssueHeals, AnswerHeals
  <1> QED
    BY <1>2, <1>3, <1>4, <1>5, <1>6 DEF Next

\* The one retry of _authed_get heals a revocation for any number of tasks,
\* whoever else refreshes, fails or is cancelled meanwhile.
THEOREM OneRetryHeals == Spec => []OneRetryHealsARevocation
  <1>1. HealInv => OneRetryHealsARevocation
    BY DEF HealInv
  <1>2. Spec => []HealInv
    BY InitHeals, NextHeals, PTL DEF Spec
  <1> QED
    BY <1>1, <1>2, PTL
=============================================================================
