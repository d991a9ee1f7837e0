------------------------------ MODULE Commands ------------------------------
(***************************************************************************)
(* The signed commands of PowerwallClient that change the gateway outside  *)
(* config.json: the manual backup event, which is cancelled and scheduled  *)
(* in two requests; the timed battery setpoint; the grid contactor; the    *)
(* removal of a paired key; settings that nothing else here looks at.      *)
(* Some of them take a failure, or a reply that says nothing, for an       *)
(* answer.                                                                 *)
(*                                                                         *)
(* A request carries the time its signature expires.  Until then it may    *)
(* reach the gateway, even after its caller gave it up and went on.        *)
(* The app, the cloud and the grid change the gateway too.                 *)
(***************************************************************************)
EXTENDS Integers, Sequences

CONSTANTS Calls, NoCall,
          Others,       \* who else there is
          TTL,          \* seconds a signature is valid
          Lag,          \* seconds the gateway's clock is behind the client's
          MinBackup,    \* the shortest manual backup event, 60
          MaxDuration,  \* the longest dispatch, 86400
          Asked,        \* bound: the durations callers ask for
          MaxTime,      \* bound: the clock
          Together,     \* bound: the families of operations met in one behaviour
          Mishaps       \* bound: the ways a reply may be other than asked for

Families == {"event", "setpoint", "contactor", "other"}

\* Replies to a request that was not carried out: an error response or a
\* rejection, a fault, HTTP 401 or an unverified key, HTTP 429.
Refusals == {"rejected", "fault", "unauthorized", "limited"}

\* Replies to a request that may have been: without the response asked for,
\* without an envelope, with one that cannot be parsed.
Unusable == {"missing", "garbled", "malformed"}

ASSUME CommandsAssumption == /\ NoCall \notin Calls /\ Others \notin Calls
                             /\ Others # NoCall
                             /\ TTL \in Nat /\ Lag \in Nat /\ MaxTime \in Nat
                             /\ MinBackup \in Nat /\ MaxDuration \in Nat \ {0}
                             /\ Asked \subseteq Int
                             /\ Together \subseteq SUBSET Families
                             /\ Mishaps \subseteq Refusals \cup Unusable

VARIABLES
    now,       \* seconds
    inPlay,    \* the families of this behaviour
    event,     \* the gateway's manual backup event: the call that made it
    setpoint,  \* its battery setpoint: the call that set it, and its end
    contactor, \* its grid contactor, as last commanded
    wire,      \* requests in flight
    executed,  \* the requests of each call the gateway has carried out
    op,        \* what each call is
    duration,  \* the duration it was given
    todo,      \* its requests still to be answered, the first one in hand
    stage,     \* "post" before that one is posted, then "answer"
    answer,    \* the reply on its way to it
    result,    \* how it ended
    endedAt,   \* history: when
    settled,   \* history: dispatches that had an outcome when a resume began
    clean      \* history: schedules that no other writer of events has met

gateway == <<event, setpoint, contactor, executed>>
caller  == <<op, duration, todo, stage, answer, result>>
history == <<endedAt, settled, clean>>
vars == <<now, inPlay, wire, gateway, caller, history>>

NoSetpoint == [call |-> NoCall, until |-> 0]

\* The requests a call makes, in order.  set_island_mode is offGrid with mode
\* 6 and reconnect with mode 1, whoever asks for it and also by a
\* mode_override; with any other mode it is otherMode.  "configure" is
\* configure_ocpp and delay_battery_calibration.
Requests == [schedule  |-> <<"cancelEvent", "scheduleEvent">>,
             cancel    |-> <<"cancelEvent">>,
             dispatch  |-> <<"dispatch">>,
             resume    |-> <<"resume">>,
             offGrid   |-> <<"open">>,
             reconnect |-> <<"close">>,
             otherMode |-> <<"otherMode">>,
             trigger   |-> <<"blackStart">>,
             remove    |-> <<"removeKey">>,
             configure |-> <<"configure">>]

Ops == DOMAIN Requests
Types == UNION {{Requests[o][i] : i \in DOMAIN Requests[o]} : o \in Ops}
Final(o) == Requests[o][Len(Requests[o])]

Members(family) == CASE family = "event"     -> {"schedule", "cancel"}
                     [] family = "setpoint"  -> {"dispatch", "resume"}
                     [] family = "contactor" -> {"offGrid", "reconnect", "otherMode",
                                                 "trigger"}
                     [] family = "other"     -> {"remove", "configure"}

EventOps == Members("event")

\* What the caller gets when a request fails with how.
Error(how) == CASE how = "unauthorized" -> "authentication"
                [] how = "limited"  -> "rateLimit"
                [] how = "rejected" -> "command"
                [] how \in Unusable -> "protocol"
                [] OTHER -> how

Errors == {"connection", "authentication", "rateLimit", "protocol", "escaped",
           "fault", "command"}

\* What connect() raises: its login and its GETs meet the same mishaps, and a
\* reply that is no JSON is not translated.
ConnectErrors ==
    {"connection", "protocol", "escaped"} \cup
    {Error(how) : how \in Mishaps \cap {"unauthorized", "limited"}}

\* Errors that say the request was not carried out.
Refused == {"authentication", "rateLimit", "fault", "command"}

\* A mistake for the runs to find: releasing a setpoint may fail too.
TolerantOfResume(type) ==
    CASE type \in {"cancelEvent", "removeKey", "resume"} ->
             {"connection", "missing", "garbled"} \cup Refusals
      [] type \in {"open", "close", "otherMode"} -> {"missing", "malformed"}
      [] type = "blackStart" -> {"rejected", "missing", "malformed"}
      [] OTHER -> {}

\* Failures that count as an answer.  allow_missing_response swallows every
\* error of post_v1r and every response but one that cannot be parsed;
\* _check_set_island_mode_result looks for rejections only; trigger_islanding
\* does not look at all.
Tolerated(type) ==
    CASE type \in {"cancelEvent", "removeKey"} ->
             {"connection", "missing", "garbled"} \cup Refusals
      [] type \in {"open", "close", "otherMode"} -> {"missing", "malformed"}
      [] type = "blackStart" -> {"rejected", "missing", "malformed"}
      [] OTHER -> {}

Request(c, type, expires) == [call |-> c, type |-> type, expires |-> expires]

TypeOK == /\ now \in 0 .. MaxTime
          /\ inPlay \subseteq Families
          /\ event \in Calls \cup {NoCall, Others}
          /\ setpoint \in [call : Calls \cup {NoCall, Others}, until : Nat]
          /\ contactor \in {"open", "closed"}
          /\ wire \subseteq [call : Calls, type : Types, expires : Nat]
          /\ executed \in [Calls -> SUBSET Types]
          /\ op \in [Calls -> Ops \cup {"none"}]
          /\ duration \in [Calls -> Nat]
          /\ \A c \in Calls :
                /\ op[c] = "dispatch" => duration[c] \in 1 .. MaxDuration
                /\ op[c] = "schedule" => duration[c] >= MinBackup
          /\ todo \in [Calls -> {<< >>} \cup {Requests[o] : o \in Ops}
                                       \cup {Tail(Requests[o]) : o \in Ops}]
          /\ stage \in [Calls -> {"idle", "post", "answer"}]
          /\ answer \in [Calls -> {"none", "done"} \cup Refusals \cup Unusable]
          /\ result \in [Calls -> {"none", "returned", "cancelled"} \cup Errors]
          /\ endedAt \in [Calls -> 0 .. MaxTime]
          /\ settled \in [Calls -> SUBSET Calls]
          /\ clean \subseteq Calls

Init == /\ now = 0
        /\ inPlay \in Together
        /\ event \in {NoCall, Others}
        /\ setpoint = NoSetpoint
        /\ contactor = "closed"
        /\ wire = {}
        /\ executed = [c \in Calls |-> {}]
        /\ op = [c \in Calls |-> "none"]
        /\ duration = [c \in Calls |-> 0]
        /\ todo = [c \in Calls |-> << >>]
        /\ stage = [c \in Calls |-> "idle"]
        /\ answer = [c \in Calls |-> "none"]
        /\ result = [c \in Calls |-> "none"]
        /\ endedAt = [c \in Calls |-> 0]
        /\ settled = [c \in Calls |-> {}]
        /\ clean = {}

-----------------------------------------------------------------------------
(* The client.                                                             *)

\* A mistake for the runs to find: any duration will do.
AnyDuration(o) == IF o \in {"schedule", "dispatch"} THEN Asked \cap Nat ELSE {0}

\* An event and a dispatch have a duration; others than these raise ValueError.
DurationsOf(o) ==
    CASE o = "schedule" -> {d \in Asked : d >= MinBackup}
      [] o = "dispatch" -> {d \in Asked : 1 <= d /\ d <= MaxDuration}
      [] OTHER -> {0}

Open(c) == op[c] # "none" /\ result[c] = "none"

\* A request may still be carried out.
Live(m) == now <= m.expires + Lag

\* The event calls that are under way, or have a request that is.
Rivals == {c \in Calls : /\ op[c] \in EventOps
                         /\ Open(c) \/ \E m \in wire : m.call = c /\ Live(m)}

\* A call begins; d is its duration, where it has one.
Call(c, o, d) ==
    /\ op[c] = "none"
    /\ \E family \in inPlay : o \in Members(family)
    /\ d \in DurationsOf(o)
    /\ op' = [op EXCEPT ![c] = o]
    /\ duration' = [duration EXCEPT ![c] = d]
    /\ todo' = [todo EXCEPT ![c] = Requests[o]]
    /\ stage' = [stage EXCEPT ![c] = "post"]
    /\ settled' = [settled EXCEPT ![c] =
                      {s \in Calls : /\ o = "resume" /\ op[s] = "dispatch"
                                     /\ result[s] \in {"returned"} \cup Refused}]
    /\ clean' = IF o \notin EventOps THEN clean
                ELSE IF o = "schedule" /\ Rivals \subseteq clean THEN Rivals \cup {c}
                ELSE {}
    /\ UNCHANGED <<now, inPlay, wire, gateway, answer, result, endedAt>>

\* A mistake for the runs to find: a signature without an end.
PostUnlimited(c) ==
    /\ stage[c] = "post"
    /\ wire' = wire \cup {Request(c, Head(todo[c]), MaxTime)}
    /\ stage' = [stage EXCEPT ![c] = "answer"]
    /\ UNCHANGED <<now, inPlay, gateway, op, duration, todo, answer, result,
                   history>>

\* The request in hand is signed and posted.
Post(c) ==
    /\ stage[c] = "post"
    /\ wire' = wire \cup {Request(c, Head(todo[c]), now + TTL)}
    /\ stage' = [stage EXCEPT ![c] = "answer"]
    /\ UNCHANGED <<now, inPlay, gateway, op, duration, todo, answer, result,
                   history>>

End(c, how) ==
    /\ result' = [result EXCEPT ![c] = how]
    /\ endedAt' = [endedAt EXCEPT ![c] = now]
    /\ stage' = [stage EXCEPT ![c] = "idle"]
    /\ todo' = [todo EXCEPT ![c] = << >>]
    /\ answer' = [answer EXCEPT ![c] = "none"]

\* The request in hand is done with: on to the next, or return.
Advance(c) ==
    \/ /\ Len(todo[c]) = 1
       /\ End(c, "returned")
    \/ /\ Len(todo[c]) > 1
       /\ todo' = [todo EXCEPT ![c] = Tail(@)]
       /\ stage' = [stage EXCEPT ![c] = "post"]
       /\ answer' = [answer EXCEPT ![c] = "none"]
       /\ UNCHANGED <<result, endedAt>>

\* A mistake for the runs to find: any reply is an answer.
AnsweredAnyhow(c) ==
    /\ stage[c] = "answer"
    /\ answer[c] # "none"
    /\ Advance(c)
    /\ UNCHANGED <<now, inPlay, wire, gateway, op, duration, settled, clean>>

\* The reply has the response asked for, or may do without.
Answered(c) ==
    /\ stage[c] = "answer"
    /\ answer[c] \in {"done"} \cup Tolerated(Head(todo[c]))
    /\ Advance(c)
    /\ UNCHANGED <<now, inPlay, wire, gateway, op, duration, settled, clean>>

\* It does not, and the call raises.
Fails(c) ==
    /\ stage[c] = "answer"
    /\ answer[c] \notin {"none", "done"} \cup Tolerated(Head(todo[c]))
    /\ End(c, Error(answer[c]))
    /\ UNCHANGED <<now, inPlay, wire, gateway, op, duration, settled, clean>>

\* No reply: post_v1r raises PowerwallConnectionError, which some commands take
\* for an answer.
TimesOut(c) ==
    /\ stage[c] = "answer"
    /\ IF "connection" \in Tolerated(Head(todo[c])) THEN Advance(c)
                                                    ELSE End(c, "connection")
    /\ UNCHANGED <<now, inPlay, wire, gateway, op, duration, settled, clean>>

\* connect() raises e before anything is posted.
ConnectFails(c, e) ==
    /\ stage[c] = "post"
    /\ todo[c] = Requests[op[c]]
    /\ End(c, e)
    /\ UNCHANGED <<now, inPlay, wire, gateway, op, duration, settled, clean>>

\* The task is cancelled.
Cancel(c) ==
    /\ Open(c)
    /\ End(c, "cancelled")
    /\ UNCHANGED <<now, inPlay, wire, gateway, op, duration, settled, clean>>

-----------------------------------------------------------------------------
(* The gateway and the network.                                            *)

Awaited(m) == stage[m.call] = "answer" /\ Head(todo[m.call]) = m.type

\* A request that nobody waits for, of a call that is still open or whose last
\* signature can be valid.
Straggles(m) == /\ ~ Awaited(m)
                /\ result[m.call] = "none" \/ now <= endedAt[m.call] + TTL + Lag

Reply(m, how) ==
    answer' = IF Awaited(m) THEN [answer EXCEPT ![m.call] = how] ELSE answer

\* A request is carried out.  A manual backup event, even one that is over,
\* is in the way of another; a setpoint is replaced.
Execute(m, how) ==
    /\ Live(m)
    /\ m.type = "scheduleEvent" => event = NoCall
    /\ wire' = wire \ {m}
    /\ executed' = [executed EXCEPT ![m.call] = @ \cup {m.type}]
    /\ event' = CASE m.type = "cancelEvent" -> NoCall
                  [] m.type = "scheduleEvent" -> m.call
                  [] OTHER -> event
    /\ setpoint' = CASE m.type = "dispatch" ->
                          [call |-> m.call, until |-> now + duration[m.call]]
                     [] m.type = "resume" -> NoSetpoint
                     [] OTHER -> setpoint
    /\ CASE m.type \in {"open", "blackStart"} -> contactor' = "open"
         [] m.type = "close" -> contactor' = "closed"
         [] m.type = "otherMode" -> contactor' \in {"open", "closed"}
         [] OTHER -> UNCHANGED contactor
    /\ clean' = IF /\ m.type = "cancelEvent" /\ event \in clean
                   /\ Straggles(m)
                THEN {} ELSE clean
    /\ Reply(m, how)
    /\ UNCHANGED <<now, inPlay, op, duration, todo, stage, result, endedAt, settled>>

\* A request is refused, or ends in an unusable reply, and has no effect: an
\* expired signature, a limit, an older firmware, an event in the way.
Refuse(m, how) ==
    /\ Awaited(m)
    /\ wire' = wire \ {m}
    /\ Reply(m, how)
    /\ UNCHANGED <<now, inPlay, gateway, op, duration, todo, stage, result,
                   history>>

\* A request is lost, or refused with nobody waiting for the reply.
Lose(m) ==
    /\ wire' = wire \ {m}
    /\ UNCHANGED <<now, inPlay, gateway, caller, history>>

\* A second passes; a setpoint whose time is over is released.
Tick ==
    /\ now < MaxTime
    /\ now' = now + 1
    /\ setpoint' = IF now' >= setpoint.until THEN NoSetpoint ELSE setpoint
    /\ UNCHANGED <<inPlay, event, contactor, executed, wire, caller, history>>

\* Somebody else makes or cancels an event, takes or releases the battery.
Outside ==
    \/ /\ "event" \in inPlay
       /\ event' \in {NoCall, Others}
       /\ clean' = {}
       /\ UNCHANGED <<now, inPlay, setpoint, contactor, executed, wire, caller,
                      endedAt, settled>>
    \/ /\ "setpoint" \in inPlay
       /\ setpoint' \in {NoSetpoint} \cup {[call |-> Others, until |-> now + d] :
                                             d \in DurationsOf("dispatch")}
       /\ UNCHANGED <<now, inPlay, event, contactor, executed, wire, caller,
                      history>>
    \/ /\ "contactor" \in inPlay
       /\ contactor' \in {"open", "closed"}
       /\ UNCHANGED <<now, inPlay, event, setpoint, executed, wire, caller,
                      history>>

-----------------------------------------------------------------------------
ClientNext(c) ==
    \/ Post(c) \/ Answered(c) \/ Fails(c) \/ TimesOut(c) \/ Cancel(c)
    \/ \E e \in ConnectErrors : ConnectFails(c, e)

GatewayNext(m) ==
    \/ \E how \in {"done"} \cup (Mishaps \cap Unusable) : Execute(m, how)
    \/ \E how \in Mishaps : Refuse(m, how)
    \/ Lose(m)

Next == \/ \E c \in Calls : \/ \E o \in Ops, d \in Asked \cup {0} : Call(c, o, d)
                            \/ ClientNext(c)
        \/ \E m \in wire : GatewayNext(m)
        \/ Tick
        \/ Outside

Spec == Init /\ [][Next]_vars

-----------------------------------------------------------------------------
(* Properties                                                              *)

\* A schedule, a dispatch, a resume or a setting that returned was carried out;
\* a call refused by name was not, and never will be.
OutcomeIsTrue ==
    \A c \in Calls :
        /\ /\ result[c] = "returned"
           /\ op[c] \in {"schedule", "dispatch", "resume", "configure"}
           => Final(op[c]) \in executed[c]
        /\ result[c] \in Refused =>
             /\ Final(op[c]) \notin executed[c]
             /\ \A m \in wire : m.call = c => m.type # Final(op[c])

\* A caller that stops, however its call ended, cannot leave the battery on
\* its setpoint for longer than the duration, the life of a signature and the
\* lag of the gateway's clock.
StaleSetpointEnds ==
    \A c \in Calls : setpoint.call = c /\ result[c] # "none" =>
        setpoint.until <= endedAt[c] + TTL + Lag + duration[c]

\* Once resume_battery_operation has returned, no dispatch whose outcome was
\* known when it was called is in force: only one that was open, that raised
\* with its request posted, or that came later.
ResumeReleases ==
    \A c \in Calls : op[c] = "resume" /\ result[c] = "returned" =>
        setpoint.call \notin settled[c]

\* Schedules that meet only each other, however they race and whatever their
\* late requests do, leave the event of one of them when all have returned; and
\* it stands until another writer comes, or a cancel that a schedule had given
\* up and taken for done arrives: that can happen for the life of a signature
\* and the lag after the schedule returned, not later.
EventStands ==
    clean # {} /\ (\A c \in clean : result[c] = "returned") => event \in clean

\* "Faults still raise": a removal that the gateway answers with a refusal does
\* not go on as if it had been carried out.
FaultsStillRaise ==
    [][\A c \in Calls : op[c] = "remove" /\ Answered(c) =>
          answer[c] \notin Refusals]_vars
=============================================================================
