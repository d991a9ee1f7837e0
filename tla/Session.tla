------------------------------- MODULE Session ------------------------------
(***************************************************************************)
(* One PowerwallClient and its V1rTransport, shared by several tasks: the  *)
(* connect() that logs in and fetches the DIN once, the cached bearer      *)
(* token, the two asyncio locks, and the authorised GET that refreshes the *)
(* token once.  Between two awaits a task runs alone; at every await the   *)
(* others run, the request may time out or fail, and the task may be       *)
(* cancelled.  The gateway issues tokens in order and may revoke any of    *)
(* them at any time (a reboot, an expiry).                                 *)
(*                                                                         *)
(* A lock is its owner; the tasks whose pc is a "...Wait" queue for it.    *)
(* asyncio hands a lock over in FIFO order, here any waiter may be next.   *)
(***************************************************************************)
EXTENDS Integers

CONSTANTS Tasks, NoTask,
          MaxCalls,         \* bound: calls a task makes
          MaxTokens,        \* bound: tokens the gateway issues
          MaxRevocations,   \* bound: times the gateway revokes tokens
          Refusals          \* bound: the kinds of unsuccessful replies it gives

ASSUME SessionAssumption == /\ NoTask \notin Tasks
                            /\ MaxCalls \in Nat
                            /\ MaxTokens \in Nat
                            /\ MaxRevocations \in Nat
                            /\ "unauthorized" \notin Refusals

VARIABLES
    dinKnown,      \* _din is set
    token,         \* _token, NoToken for None
    connectOwner,  \* owner of _connect_lock
    tokenOwner,    \* owner of _token_lock
    pc,            \* the await each task is at, "idle" outside a call
    wants,         \* the call it runs: connect() alone, or a GET as well
    held,          \* the token in its local variable
    attempt,       \* the attempt of its _authed_get
    calls,         \* calls it has begun
    result,        \* how its last call ended
    reply,         \* the HTTP reply on its way to it
    issued,        \* tokens the gateway has issued
    valid,         \* the ones it accepts
    revocations,   \* times it has revoked some
    newest,        \* history: newest token a reply has brought
    refused        \* history: tasks whose GET was refused again after a refresh

locals  == <<wants, held, attempt>>
gateway == <<issued, valid, revocations>>
vars == <<dinKnown, token, connectOwner, tokenOwner, pc, locals, calls, result,
          reply, gateway, newest, refused>>

NoToken == 0
Tokens  == 1 .. MaxTokens

AwaitingLogin == {"connectLogin", "ensureLogin", "refreshLogin"}
AwaitingHttp  == AwaitingLogin \cup {"get"}
AwaitingLock  == {"connectWait", "ensureWait", "refreshWait"}

Errors == {"connection", "authentication", "rateLimit", "protocol",
           "escaped", "cancelled"}

\* What each unsuccessful reply to a login, to a GET and to the GET of the
\* DIN makes the call raise.  "escaped" is an error outside PowerwallError:
\* a body that is not JSON.
LoginError == [denied |-> "authentication", limited |-> "rateLimit",
               status |-> "protocol", tokenless |-> "protocol",
               garbled |-> "escaped"]

GetError == [unauthorized |-> "protocol", limited |-> "rateLimit",
             status |-> "protocol", garbled |-> "escaped"]

DinError == [GetError EXCEPT !.garbled = "protocol"]

NoReply == [kind |-> "none", token |-> NoToken]
Refusal(kind) == [kind |-> kind, token |-> NoToken]
Replies == [kind : {"none", "ok"} \cup DOMAIN LoginError \cup DOMAIN GetError,
            token : Tokens \cup {NoToken}]

ClientTypes ==
    /\ dinKnown \in BOOLEAN
    /\ token \in Tokens \cup {NoToken}
    /\ connectOwner \in Tasks \cup {NoTask}
    /\ tokenOwner \in Tasks \cup {NoTask}
    /\ newest \in 0 .. issued
    /\ refused \subseteq Tasks

CallTypes ==
    /\ pc \in [Tasks -> {"idle"} \cup AwaitingHttp \cup AwaitingLock]
    /\ wants \in [Tasks -> {"connect", "get"}]
    /\ held \in [Tasks -> Tokens \cup {NoToken}]
    /\ attempt \in [Tasks -> {0, 1}]
    /\ calls \in [Tasks -> 0 .. MaxCalls]
    /\ result \in [Tasks -> {"none", "ok"} \cup Errors]
    /\ reply \in [Tasks -> Replies]

GatewayTypes ==
    /\ issued \in 0 .. MaxTokens
    /\ valid \subseteq 1 .. issued
    /\ revocations \in 0 .. MaxRevocations

TypeOK == ClientTypes /\ CallTypes /\ GatewayTypes

Init == /\ dinKnown = FALSE
        /\ token = NoToken
        /\ connectOwner = NoTask
        /\ tokenOwner = NoTask
        /\ pc = [t \in Tasks |-> "idle"]
        /\ wants = [t \in Tasks |-> "connect"]
        /\ held = [t \in Tasks |-> NoToken]
        /\ attempt = [t \in Tasks |-> 0]
        /\ calls = [t \in Tasks |-> 0]
        /\ result = [t \in Tasks |-> "none"]
        /\ reply = [t \in Tasks |-> NoReply]
        /\ issued = 0
        /\ valid = {}
        /\ revocations = 0
        /\ newest = 0
        /\ refused = {}

-----------------------------------------------------------------------------
(* What several steps share.                                               *)

Without(owner, t) == IF owner = t THEN NoTask ELSE owner

\* A mistake for the runs to find: a call that ends keeps the token lock.
EndCallLocked(t, how) ==
    /\ pc' = [pc EXCEPT ![t] = "idle"]
    /\ result' = [result EXCEPT ![t] = how]
    /\ connectOwner' = Without(connectOwner, t)
    /\ reply' = [reply EXCEPT ![t] = NoReply]
    /\ wants' = [wants EXCEPT ![t] = "connect"]
    /\ held' = [held EXCEPT ![t] = NoToken]
    /\ attempt' = [attempt EXCEPT ![t] = 0]
    /\ UNCHANGED tokenOwner

\* The call of t ends; leaving the `async with` blocks frees its locks.
EndCall(t, how) ==
    /\ pc' = [pc EXCEPT ![t] = "idle"]
    /\ result' = [result EXCEPT ![t] = how]
    /\ connectOwner' = Without(connectOwner, t)
    /\ tokenOwner' = Without(tokenOwner, t)
    /\ reply' = [reply EXCEPT ![t] = NoReply]
    /\ wants' = [wants EXCEPT ![t] = "connect"]
    /\ held' = [held EXCEPT ![t] = NoToken]
    /\ attempt' = [attempt EXCEPT ![t] = 0]

\* _authed_get starts: _ensure_token finds the cached token, or queues.
StartGet(t, w) ==
    /\ wants' = [wants EXCEPT ![t] = w]
    /\ attempt' = [attempt EXCEPT ![t] = 0]
    /\ held' = [held EXCEPT ![t] = token]
    /\ pc' = [pc EXCEPT ![t] = IF token # NoToken THEN "get" ELSE "ensureWait"]
    /\ reply' = [reply EXCEPT ![t] = NoReply]
    /\ connectOwner' = Without(connectOwner, t)
    /\ UNCHANGED <<tokenOwner, result>>

\* connect() has returned to a call of kind w, which is done or goes on.
AfterConnect(t, w) == \/ w = "connect" /\ EndCall(t, "ok")
                      \/ w = "get" /\ StartGet(t, w)

-----------------------------------------------------------------------------
(* The client's steps, one per stretch of code between two awaits.         *)

\* A task calls connect() alone, or a read that connects first.
Call(t, w) ==
    /\ pc[t] = "idle"
    /\ calls[t] < MaxCalls
    /\ calls' = [calls EXCEPT ![t] = @ + 1]
    /\ refused' = refused \ {t}
    /\ \/ /\ dinKnown
          /\ AfterConnect(t, w)
       \/ /\ ~ dinKnown
          /\ pc' = [pc EXCEPT ![t] = "connectWait"]
          /\ wants' = [wants EXCEPT ![t] = w]
          /\ UNCHANGED <<connectOwner, tokenOwner, result, reply, held, attempt>>
    /\ UNCHANGED <<dinKnown, token, gateway, newest>>

\* A mistake for the runs to find: its turn on the connect lock, without a
\* second look at the DIN.
ConnectTurnUnchecked(t) ==
    /\ pc[t] = "connectWait"
    /\ connectOwner = NoTask
    /\ connectOwner' = t
    /\ pc' = [pc EXCEPT ![t] = "connectLogin"]
    /\ UNCHANGED <<tokenOwner, result, reply, locals, dinKnown, token, calls,
                   gateway, newest, refused>>

\* Its turn on the connect lock: look at the DIN again before logging in.
ConnectTurn(t) ==
    /\ pc[t] = "connectWait"
    /\ connectOwner = NoTask
    /\ \/ /\ dinKnown
          /\ AfterConnect(t, wants[t])
       \/ /\ ~ dinKnown
          /\ connectOwner' = t
          /\ pc' = [pc EXCEPT ![t] = "connectLogin"]
          /\ UNCHANGED <<tokenOwner, result, reply, locals>>
    /\ UNCHANGED <<dinKnown, token, calls, gateway, newest, refused>>

\* Its turn on the token lock in _ensure_token: look at the token again.
EnsureTurn(t) ==
    /\ pc[t] = "ensureWait"
    /\ tokenOwner = NoTask
    /\ \/ /\ token # NoToken
          /\ held' = [held EXCEPT ![t] = token]
          /\ pc' = [pc EXCEPT ![t] = "get"]
          /\ UNCHANGED tokenOwner
       \/ /\ token = NoToken
          /\ tokenOwner' = t
          /\ pc' = [pc EXCEPT ![t] = "ensureLogin"]
          /\ UNCHANGED held
    /\ UNCHANGED <<dinKnown, token, connectOwner, wants, attempt, calls, result,
                   reply, gateway, newest, refused>>

\* Mistakes for the runs to find: a refresh that does not take the lock, and
\* one that takes the token it finds, as _ensure_token does.
RefreshUnlocked(t) ==
    /\ pc[t] = "refreshWait"
    /\ token' = NoToken
    /\ pc' = [pc EXCEPT ![t] = "refreshLogin"]
    /\ UNCHANGED <<dinKnown, connectOwner, tokenOwner, locals, calls, result,
                   reply, gateway, newest, refused>>

RefreshIfMissing(t) ==
    /\ pc[t] = "refreshWait"
    /\ tokenOwner = NoTask
    /\ \/ /\ token # NoToken
          /\ held' = [held EXCEPT ![t] = token]
          /\ attempt' = [attempt EXCEPT ![t] = 1]
          /\ pc' = [pc EXCEPT ![t] = "get"]
          /\ UNCHANGED tokenOwner
       \/ /\ token = NoToken
          /\ tokenOwner' = t
          /\ pc' = [pc EXCEPT ![t] = "refreshLogin"]
          /\ UNCHANGED <<held, attempt>>
    /\ UNCHANGED <<dinKnown, token, connectOwner, wants, calls, result, reply,
                   gateway, newest, refused>>

\* Its turn on the token lock in _refresh_token: drop the token, log in.
RefreshTurn(t) ==
    /\ pc[t] = "refreshWait"
    /\ tokenOwner = NoTask
    /\ tokenOwner' = t
    /\ token' = NoToken
    /\ pc' = [pc EXCEPT ![t] = "refreshLogin"]
    /\ UNCHANGED <<dinKnown, connectOwner, locals, calls, result, reply,
                   gateway, newest, refused>>

\* login() has its token: cache it and GET with it, as the first attempt, or
\* as the second one after a refresh.
LoggedIn(t) ==
    /\ pc[t] \in AwaitingLogin
    /\ reply[t].kind = "ok"
    /\ token' = reply[t].token
    /\ held' = [held EXCEPT ![t] = reply[t].token]
    /\ attempt' = [attempt EXCEPT ![t] = IF pc[t] = "refreshLogin" THEN 1 ELSE 0]
    /\ pc' = [pc EXCEPT ![t] = "get"]
    /\ tokenOwner' = Without(tokenOwner, t)
    /\ reply' = [reply EXCEPT ![t] = NoReply]
    /\ newest' = IF reply[t].token > newest THEN reply[t].token ELSE newest
    /\ UNCHANGED <<dinKnown, connectOwner, wants, calls, result, gateway, refused>>

\* A mistake for the runs to find: the refusal is raised untranslated.
LoginFailedRaw(t) ==
    /\ pc[t] \in AwaitingLogin
    /\ reply[t].kind \in DOMAIN LoginError
    /\ EndCall(t, reply[t].kind)
    /\ UNCHANGED <<dinKnown, token, calls, gateway, newest, refused>>

LoginFailed(t) ==
    /\ pc[t] \in AwaitingLogin
    /\ reply[t].kind \in DOMAIN LoginError
    /\ EndCall(t, LoginError[reply[t].kind])
    /\ UNCHANGED <<dinKnown, token, calls, gateway, newest, refused>>

\* A GET succeeds.  Under the connect lock it was the GET of the DIN.
GotReply(t) ==
    /\ pc[t] = "get"
    /\ reply[t].kind = "ok"
    /\ \/ /\ connectOwner = t
          /\ dinKnown' = TRUE
          /\ AfterConnect(t, wants[t])
       \/ /\ connectOwner # t
          /\ EndCall(t, "ok")
          /\ UNCHANGED dinKnown
    /\ UNCHANGED <<token, calls, gateway, newest, refused>>

\* A 401 or 403 to the first attempt queues for a refresh.
Refresh(t) ==
    /\ pc[t] = "get"
    /\ reply[t].kind = "unauthorized"
    /\ attempt[t] = 0
    /\ pc' = [pc EXCEPT ![t] = "refreshWait"]
    /\ reply' = [reply EXCEPT ![t] = NoReply]
    /\ UNCHANGED <<dinKnown, token, connectOwner, tokenOwner, locals, calls,
                   result, gateway, newest, refused>>

\* Any other reply raises, and so does a 401 or 403 to the second attempt.
GetFailed(t) ==
    /\ pc[t] = "get"
    /\ reply[t].kind \in DOMAIN GetError
    /\ reply[t].kind = "unauthorized" => attempt[t] = 1
    /\ EndCall(t, (IF connectOwner = t THEN DinError ELSE GetError)[reply[t].kind])
    /\ refused' = IF reply[t].kind = "unauthorized" THEN refused \cup {t} ELSE refused
    /\ UNCHANGED <<dinKnown, token, calls, gateway, newest>>

\* The request times out or the connection fails.
ConnectionFails(t) ==
    /\ pc[t] \in AwaitingHttp
    /\ EndCall(t, "connection")
    /\ UNCHANGED <<dinKnown, token, calls, gateway, newest, refused>>

\* The task is cancelled at its await.
Cancel(t) ==
    /\ pc[t] # "idle"
    /\ EndCall(t, "cancelled")
    /\ UNCHANGED <<dinKnown, token, calls, gateway, newest, refused>>

-----------------------------------------------------------------------------
(* The gateway's steps.                                                    *)

Send(t, r) == reply' = [reply EXCEPT ![t] = r]

IssueToken(t) ==
    /\ pc[t] \in AwaitingLogin
    /\ reply[t] = NoReply
    /\ issued < MaxTokens
    /\ issued' = issued + 1
    /\ valid' = valid \cup {issued'}
    /\ Send(t, [kind |-> "ok", token |-> issued'])
    /\ UNCHANGED <<dinKnown, token, connectOwner, tokenOwner, pc, locals, calls,
                   result, revocations, newest, refused>>

AnswerGet(t) ==
    /\ pc[t] = "get"
    /\ reply[t] = NoReply
    /\ Send(t, Refusal(IF held[t] \in valid THEN "ok" ELSE "unauthorized"))
    /\ UNCHANGED <<dinKnown, token, connectOwner, tokenOwner, pc, locals, calls,
                   result, gateway, newest, refused>>

Refuse(t) ==
    /\ pc[t] \in AwaitingHttp
    /\ reply[t] = NoReply
    /\ \E kind \in Refusals \cap DOMAIN (IF pc[t] = "get" THEN GetError
                                         ELSE LoginError) :
          Send(t, Refusal(kind))
    /\ UNCHANGED <<dinKnown, token, connectOwner, tokenOwner, pc, locals, calls,
                   result, gateway, newest, refused>>

Revoke ==
    /\ revocations < MaxRevocations
    /\ valid # {}
    /\ valid' \in SUBSET valid \ {valid}
    /\ revocations' = revocations + 1
    /\ UNCHANGED <<dinKnown, token, connectOwner, tokenOwner, pc, locals, calls,
                   result, reply, issued, newest, refused>>

-----------------------------------------------------------------------------
\* The steps of a task that never wait for another party's choice.
Step(t) == \/ ConnectTurn(t) \/ EnsureTurn(t) \/ RefreshTurn(t)
           \/ LoggedIn(t) \/ LoginFailed(t)
           \/ GotReply(t) \/ Refresh(t) \/ GetFailed(t)
           \/ ConnectionFails(t)

Next == \/ \E t \in Tasks : \/ \E w \in {"connect", "get"} : Call(t, w)
                            \/ Step(t)
                            \/ Cancel(t)
                            \/ IssueToken(t) \/ AnswerGet(t) \/ Refuse(t)
        \/ Revoke

Spec == Init /\ [][Next]_vars

\* asyncio runs every ready task, a lock that is free goes to a waiter, and
\* aiohttp's ClientTimeout ends a request that gets no answer.
FairSpec == Spec /\ \A t \in Tasks : WF_vars(Step(t))

-----------------------------------------------------------------------------
(* Properties                                                              *)

\* The two locks together let one login run at a time: connect() logs in
\* under its own lock and the GETs under the token's, and they never overlap.
OneLoginInFlight ==
    \A s, t \in Tasks : pc[s] \in AwaitingLogin /\ pc[t] \in AwaitingLogin => s = t

\* The cached token is the newest one any reply brought: no login's answer
\* overwrites a later login's.
CachedTokenIsNewest == token # NoToken => token = newest

\* Concurrent callers of connect() share one login: none is made once the
\* DIN is known, whoever queued for the lock before.
ConnectLoginsAreShared ==
    \A t \in Tasks : pc[t] = "connectLogin" => ~ dinKnown

\* If the gateway revokes tokens only once, the one retry of a GET heals it
\* for every task: none of them ends with a refused GET.
OneRetryHealsARevocation == revocations <= 1 => refused = {}

\* A call ends, whatever the gateway does and whoever is cancelled: no task
\* waits for ever on a lock, or two on each other.
EveryCallEnds == \A t \in Tasks : pc[t] # "idle" ~> pc[t] = "idle"

\* The task has an await that ends without another task's help: a request,
\* which is answered or times out, or a lock that is free.
CanGoOn(t) == \/ pc[t] \in AwaitingHttp
              \/ pc[t] = "connectWait" /\ connectOwner = NoTask
              \/ pc[t] \in {"ensureWait", "refreshWait"} /\ tokenOwner = NoTask

\* Nobody waits for a lock that is lost: its owner is in a call and can go on,
\* whoever failed or was cancelled before; two tasks never wait on each other,
\* though connect() takes the token lock while it holds its own.
LocksAreServed ==
    \A t \in Tasks :
        /\ pc[t] = "connectWait" => connectOwner = NoTask \/ CanGoOn(connectOwner)
        /\ pc[t] \in {"ensureWait", "refreshWait"} =>
              tokenOwner = NoTask \/ CanGoOn(tokenOwner)

\* Why no lock is lost: an owner is inside the block that frees it.
OwnersFit ==
    /\ tokenOwner # NoTask => pc[tokenOwner] \in {"ensureLogin", "refreshLogin"}
    /\ connectOwner # NoTask => pc[connectOwner] \notin {"idle", "connectWait"}

\* Why the logins never overlap: before the DIN is known every request is the
\* connect lock's owner's; after that nobody holds it, and a login needs the
\* token lock.
LocksFit ==
    /\ dinKnown => connectOwner = NoTask
    /\ \A t \in Tasks :
         /\ pc[t] = "connectLogin" => connectOwner = t
         /\ pc[t] \in {"ensureLogin", "refreshLogin"} => tokenOwner = t
         /\ pc[t] \notin {"idle", "connectWait"} /\ ~ dinKnown => connectOwner = t

\* Why the cached token is the newest: the reply to the one login in flight
\* brings a token newer than all that were delivered.
RepliesFit ==
    \A t \in Tasks :
        /\ pc[t] \notin AwaitingHttp => reply[t] = NoReply
        /\ pc[t] \in AwaitingLogin /\ reply[t].kind = "ok" => reply[t].token > newest
        /\ reply[t].token <= issued

SessionInv == /\ TypeOK
              /\ LocksFit
              /\ RepliesFit
              /\ CachedTokenIsNewest

\* A GET that is refused again after the refresh raises
\* PowerwallAuthenticationError, as the end of _authed_get says.
SecondRefusalIsAuthenticationError ==
    \A t \in refused : pc[t] = "idle" => result[t] = "authentication"

\* Every error a call raises is a PowerwallError, as the README says.
OnlyPowerwallErrors == \A t \in Tasks : result[t] # "escaped"
=============================================================================
