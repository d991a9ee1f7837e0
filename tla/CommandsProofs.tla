---------------------------- MODULE CommandsProofs --------------------------
(***************************************************************************)
(* Proofs about the signed commands: for any number of calls, any life of  *)
(* a signature, lag of the gateway's clock and duration of a dispatch.     *)
(***************************************************************************)
EXTENDS Commands, TLAPS

USE CommandsAssumption

-----------------------------------------------------------------------------
(* The invariant.                                                          *)

\* The requests a call makes.
TypesOf(o) == IF o = "schedule" THEN {"cancelEvent", "scheduleEvent"} ELSE {Final(o)}

\* A call that has ended, or has not begun, has nothing in hand; one that is
\* open has its last request in hand, or before it the cancel of a schedule.
CallsFit ==
    \A c \in Calls :
        /\ op[c] = "none" => result[c] = "none" /\ executed[c] = {}
        /\ stage[c] = "idle" <=> ~ Open(c)
        /\ stage[c] = "idle" => todo[c] = << >> /\ answer[c] = "none"
        /\ stage[c] = "post" => answer[c] = "none"
        /\ stage[c] # "idle" =>
              \/ todo[c] = <<Final(op[c])>>
              \/ op[c] = "schedule" /\ todo[c] = <<"cancelEvent", "scheduleEvent">>

\* A call has each of its requests in flight at most once, and not once it has
\* been carried out or before it is posted.
RequestsFit ==
    /\ \A m \in wire : /\ op[m.call] # "none"
                       /\ m.type \in TypesOf(op[m.call])
                       /\ m.type \notin executed[m.call]
                       /\ m.expires <= now + TTL
    /\ \A m, n \in wire : m.call = n.call /\ m.type = n.type => m = n
    /\ \A c \in Calls :
          /\ stage[c] = "post" =>
                /\ Head(todo[c]) \notin executed[c]
                /\ \A m \in wire : m.call = c => m.type # Head(todo[c])
          /\ Len(todo[c]) > 1 =>
                /\ "scheduleEvent" \notin executed[c]
                /\ \A m \in wire : m.call = c => m.type # "scheduleEvent"

\* The reply on its way to a call is about the request in hand.
AnswersFit ==
    \A c \in Calls : answer[c] # "none" =>
        /\ \A m \in wire : m.call = c => m.type # Head(todo[c])
        /\ answer[c] = "done" => Head(todo[c]) \in executed[c]
        /\ answer[c] \in Refusals => Head(todo[c]) \notin executed[c]

\* A call that has ended can do nothing for longer than its signature lives.
SetpointsFit ==
    /\ \A m \in wire : result[m.call] # "none" => m.expires <= endedAt[m.call] + TTL
    /\ setpoint.call \in Calls =>
          /\ op[setpoint.call] = "dispatch"
          /\ result[setpoint.call] = "none" =>
                setpoint.until <= now + duration[setpoint.call]

\* What a resume has released is not set again.
ResumesFit ==
    \A c \in Calls :
        /\ \A s \in settled[c] : /\ op[s] = "dispatch"
                                 /\ result[s] \in {"returned"} \cup Refused
        /\ op[c] = "resume" /\ "resume" \in executed[c] =>
              setpoint.call \notin settled[c]

\* Schedules that are clean meet no rivals but each other: their event stands
\* unless one of them has still to be made.
EventsFit ==
    /\ \A c \in clean : op[c] = "schedule"
    /\ clean # {} => /\ Rivals \subseteq clean
                     /\ \/ event \in clean
                        \/ \E c \in clean : "scheduleEvent" \notin executed[c]

CommandsInv == /\ TypeOK /\ CallsFit /\ RequestsFit /\ AnswersFit /\ OutcomeIsTrue
               /\ StaleSetpointEnds /\ SetpointsFit /\ ResumesFit /\ EventsFit

-----------------------------------------------------------------------------
(* Operations and requests.                                                *)

\* Each operation is one request, but for schedule_max_backup.
LEMMA OpFacts ==
    /\ Ops = {"schedule", "cancel", "dispatch", "resume", "offGrid", "reconnect",
              "otherMode", "trigger", "remove", "configure"}
    /\ "none" \notin Ops
    /\ \A o \in Ops : Final(o) \in TypesOf(o) /\ TypesOf(o) \subseteq Types
    /\ \A o \in Ops \ {"schedule"} : Requests[o] = <<Final(o)>>
    /\ Requests["schedule"] = <<"cancelEvent", "scheduleEvent">>
    /\ Final("schedule") = "scheduleEvent"
    /\ Final("dispatch") = "dispatch" /\ Final("resume") = "resume"
    /\ \A o \in Ops \ {"schedule", "dispatch", "resume", "configure"} :
          Final(o) \notin {"scheduleEvent", "dispatch", "resume", "configure"}
    /\ Final("configure") = "configure"
    /\ \A o \in Ops \ EventOps : Final(o) \notin {"cancelEvent", "scheduleEvent"}
    /\ EventOps = {"schedule", "cancel"} /\ Final("cancel") = "cancelEvent"
    /\ \A o \in Ops \ {"dispatch"} : "dispatch" \notin TypesOf(o)
    /\ \A o \in Ops \ {"resume"} : "resume" \notin TypesOf(o)
  <1>1. Ops = {"schedule", "cancel", "dispatch", "resume", "offGrid", "reconnect",
               "otherMode", "trigger", "remove", "configure"}
    BY DEF Ops, Requests
  <1>2. /\ Final("schedule") = "scheduleEvent" /\ Final("cancel") = "cancelEvent"
        /\ Final("dispatch") = "dispatch" /\ Final("resume") = "resume"
        /\ Final("offGrid") = "open" /\ Final("reconnect") = "close"
        /\ Final("otherMode") = "otherMode"
        /\ Final("trigger") = "blackStart" /\ Final("remove") = "removeKey"
        /\ Final("configure") = "configure"
    BY DEF Final, Requests
  <1>3. \A o \in Ops \ {"schedule"} : Requests[o] = <<Final(o)>>
    BY <1>1, <1>2 DEF Requests
  <1>4. Requests["schedule"] = <<"cancelEvent", "scheduleEvent">>
    BY DEF Requests
  <1>5. EventOps = {"schedule", "cancel"}
    BY DEF EventOps, Members
  <1>6. \A o \in Ops : \A i \in DOMAIN Requests[o] : Requests[o][i] \in Types
    BY DEF Types
  <1>7. \A o \in Ops : TypesOf(o) \subseteq Types
    <2>1. "scheduleEvent" \in Types /\ "cancelEvent" \in Types
      BY <1>1, <1>4, <1>6
    <2>2. \A o \in Ops \ {"schedule"} : Final(o) \in Types
      BY <1>3, <1>6
    <2> QED
      BY <2>1, <2>2 DEF TypesOf
  <1> QED
    BY <1>1, <1>2, <1>3, <1>4, <1>5, <1>7 DEF TypesOf

\* What is in hand: the last request, or a schedule's cancel with that behind it.
LEMMA InHand ==
    ASSUME TypeOK, CallsFit, NEW c \in Calls, stage[c] # "idle"
    PROVE  /\ op[c] \in Ops /\ result[c] = "none" /\ Open(c)
           /\ Head(todo[c]) \in TypesOf(op[c])
           /\ \/ Len(todo[c]) = 1 /\ Head(todo[c]) = Final(op[c])
              \/ /\ op[c] = "schedule" /\ Len(todo[c]) = 2
                 /\ Head(todo[c]) = "cancelEvent" /\ Tail(todo[c]) = <<"scheduleEvent">>
           /\ todo[c] = Requests[op[c]] \/ (op[c] = "schedule" /\ Len(todo[c]) = 1)
  <1>1. op[c] \in Ops /\ result[c] = "none" /\ Open(c)
    BY DEF TypeOK, CallsFit, Open
  <1>2. CASE todo[c] = <<Final(op[c])>>
    <2>1. Len(todo[c]) = 1 /\ Head(todo[c]) = Final(op[c])
      BY <1>2
    <2> QED
      BY <1>1, <1>2, <2>1, OpFacts
  <1>3. CASE op[c] = "schedule" /\ todo[c] = <<"cancelEvent", "scheduleEvent">>
    <2>1. /\ Len(todo[c]) = 2 /\ Head(todo[c]) = "cancelEvent"
          /\ Tail(todo[c]) = <<"scheduleEvent">>
      BY <1>3
    <2> QED
      BY <1>1, <1>3, <2>1, OpFacts DEF TypesOf
  <1> QED
    BY <1>1, <1>2, <1>3 DEF CallsFit

-----------------------------------------------------------------------------
(* The invariant, one lemma per kind of step.                              *)

\* Events are as they were when no rival comes up.
LEMMA EventsKept ==
    ASSUME EventsFit, clean' = clean, event' = event, executed' = executed,
           \A c \in clean : op'[c] = op[c],
           Rivals' \subseteq Rivals
    PROVE  EventsFit'
  BY DEF EventsFit

LEMMA InitInv == Init => CommandsInv
  <1> SUFFICES ASSUME Init
               PROVE  CommandsInv
    OBVIOUS
  <1>1. TypeOK
    BY DEF Init, TypeOK, Families, NoSetpoint
  <1>2. CallsFit /\ RequestsFit /\ AnswersFit
    BY DEF Init, CallsFit, RequestsFit, AnswersFit, Open
  <1>3. OutcomeIsTrue /\ StaleSetpointEnds /\ SetpointsFit /\ ResumesFit /\ EventsFit
    BY DEF Init, OutcomeIsTrue, StaleSetpointEnds, SetpointsFit, ResumesFit, EventsFit,
           NoSetpoint, Refused
  <1> QED
    BY <1>1, <1>2, <1>3 DEF CommandsInv

\* A call begins.
LEMMA CallInv ==
    ASSUME CommandsInv, NEW c \in Calls, NEW o \in Ops, NEW d \in Asked \cup {0},
           Call(c, o, d)
    PROVE  CommandsInv'
  <1> USE DEF gateway
  <1>1. /\ result[c] = "none" /\ executed[c] = {} /\ stage[c] = "idle"
        /\ answer[c] = "none" /\ todo[c] = << >>
        /\ \A m \in wire : m.call # c
    BY DEF CommandsInv, CallsFit, RequestsFit, Call, Open
  <1>2. /\ d \in Nat
        /\ o = "dispatch" => d \in 1 .. MaxDuration
        /\ o = "schedule" => d >= MinBackup
    <2>1. d \in DurationsOf(o)
      BY DEF Call
    <2> QED
      BY <2>1 DEF DurationsOf, CommandsAssumption
  <1>3. TypeOK'
    <2>1. /\ op' \in [Calls -> Ops \cup {"none"}]
          /\ duration' \in [Calls -> Nat]
          /\ \A x \in Calls :
                /\ op'[x] = "dispatch" => duration'[x] \in 1 .. MaxDuration
                /\ op'[x] = "schedule" => duration'[x] >= MinBackup
      BY <1>2 DEF CommandsInv, TypeOK, Call
    <2>2. todo' \in [Calls -> {<< >>} \cup {Requests[r] : r \in Ops}
                                      \cup {Tail(Requests[r]) : r \in Ops}]
      BY DEF CommandsInv, TypeOK, Call
    <2>3. stage' \in [Calls -> {"idle", "post", "answer"}]
      BY DEF CommandsInv, TypeOK, Call
    <2>4. settled' \in [Calls -> SUBSET Calls]
      BY DEF CommandsInv, TypeOK, Call
    <2>5. clean' \subseteq Calls
      BY DEF CommandsInv, TypeOK, Call, Rivals
    <2> QED
      BY <2>1, <2>2, <2>3, <2>4, <2>5 DEF CommandsInv, TypeOK, Call
  <1>4. /\ \A x \in Calls \ {c} : /\ op'[x] = op[x] /\ duration'[x] = duration[x]
                                  /\ todo'[x] = todo[x] /\ stage'[x] = stage[x]
                                  /\ settled'[x] = settled[x]
        /\ op'[c] = o /\ todo'[c] = Requests[o] /\ stage'[c] = "post"
        /\ settled'[c] = {s \in Calls : /\ o = "resume" /\ op[s] = "dispatch"
                                        /\ result[s] \in {"returned"} \cup Refused}
        /\ op[c] = "none"
        /\ now' = now /\ wire' = wire /\ event' = event /\ setpoint' = setpoint
        /\ executed' = executed /\ answer' = answer /\ result' = result
        /\ endedAt' = endedAt
    BY DEF CommandsInv, TypeOK, Call
  <1>5. CallsFit'
    BY <1>1, <1>4, OpFacts DEF CommandsInv, CallsFit, Open
  <1>6. RequestsFit'
    <2>1. \A m \in wire : m.call \in Calls \ {c}
      BY <1>1 DEF CommandsInv, TypeOK
    <2>2. /\ \A m \in wire : /\ op'[m.call] = op[m.call]
                            /\ m.expires <= now + TTL
          /\ \A m, n \in wire : m.call = n.call /\ m.type = n.type => m = n
      BY <1>4, <2>1 DEF CommandsInv, RequestsFit
    <2>3. \A x \in Calls :
             /\ stage'[x] = "post" =>
                   /\ Head(todo'[x]) \notin executed[x]
                   /\ \A m \in wire : m.call = x => m.type # Head(todo'[x])
             /\ Len(todo'[x]) > 1 =>
                   /\ "scheduleEvent" \notin executed[x]
                   /\ \A m \in wire : m.call = x => m.type # "scheduleEvent"
      BY <1>1, <1>4, <2>1 DEF CommandsInv, RequestsFit
    <2> QED
      BY <1>4, <2>2, <2>3 DEF CommandsInv, RequestsFit
  <1>7. AnswersFit'
    BY <1>1, <1>4 DEF CommandsInv, AnswersFit
  <1>8. OutcomeIsTrue'
    BY <1>1, <1>4, OpFacts DEF CommandsInv, OutcomeIsTrue, Refused
  <1>9. StaleSetpointEnds' /\ SetpointsFit'
    BY <1>1, <1>4 DEF CommandsInv, StaleSetpointEnds, SetpointsFit, TypeOK
  <1>10. ResumesFit'
    <2>1. \A x \in Calls : \A s \in settled'[x] :
             s # c /\ op[s] = "dispatch" /\ result[s] \in {"returned"} \cup Refused
      BY <1>1, <1>4 DEF CommandsInv, ResumesFit
    <2>2. \A x \in Calls : \A s \in settled'[x] : s \in Calls
      BY <1>4 DEF CommandsInv, TypeOK
    <2>3. \A x \in Calls : op'[x] = "resume" /\ "resume" \in executed[x] =>
             setpoint.call \notin settled'[x]
      BY <1>1, <1>4 DEF CommandsInv, ResumesFit
    <2> QED
      BY <1>4, <2>1, <2>2, <2>3 DEF ResumesFit
  <1>11. EventsFit'
    <2>1. EventsFit /\ clean \subseteq Calls
      BY DEF CommandsInv, TypeOK
    <2>2. Rivals' \subseteq Rivals \cup {c}
      BY <1>4 DEF Rivals, Open, Live
    <2>3. CASE o \notin EventOps
      <3>1. clean' = clean
        BY <2>3 DEF Call
      <3>2. c \notin Rivals'
        BY <1>4, <2>3 DEF Rivals
      <3>3. \A x \in clean : op'[x] = op[x]
        BY <1>4, <2>1 DEF EventsFit
      <3> QED
        BY <1>4, <2>1, <2>2, <3>1, <3>2, <3>3, EventsKept
    <2>4. CASE o = "schedule" /\ Rivals \subseteq clean
      <3>1. clean' = Rivals \cup {c}
        BY <2>4, OpFacts DEF Call
      <3>2. \A x \in clean' : op'[x] = "schedule"
        BY <1>4, <2>1, <2>4, <3>1 DEF EventsFit
      <3>3. c \in clean' /\ "scheduleEvent" \notin executed'[c]
        BY <1>1, <1>4, <3>1
      <3> QED
        BY <2>2, <3>1, <3>2, <3>3 DEF EventsFit
    <2>5. CASE o \in EventOps /\ ~ (o = "schedule" /\ Rivals \subseteq clean)
      <3>1. clean' = {}
        BY <2>5 DEF Call
      <3> QED
        BY <3>1 DEF EventsFit
    <2> QED
      BY <2>3, <2>4, <2>5
  <1> QED
    BY <1>3, <1>5, <1>6, <1>7, <1>8, <1>9, <1>10, <1>11 DEF CommandsInv

\* A request is posted.
LEMMA PostInv ==
    ASSUME CommandsInv, NEW c \in Calls, Post(c)
    PROVE  CommandsInv'
  <1> DEFINE r == Request(c, Head(todo[c]), now + TTL)
  <1> USE DEF gateway, history
  <1>1. /\ op[c] \in Ops /\ result[c] = "none" /\ Open(c) /\ answer[c] = "none"
        /\ Head(todo[c]) \in TypesOf(op[c])
        /\ Len(todo[c]) > 1 => Head(todo[c]) = "cancelEvent"
        /\ Head(todo[c]) \notin executed[c]
        /\ \A m \in wire : m.call = c => m.type # Head(todo[c])
    <2>1. TypeOK /\ CallsFit /\ stage[c] = "post"
      BY DEF CommandsInv, Post
    <2>2. /\ op[c] \in Ops /\ result[c] = "none" /\ Open(c)
          /\ Head(todo[c]) \in TypesOf(op[c])
          /\ Len(todo[c]) > 1 => Head(todo[c]) = "cancelEvent"
      <3>1. stage[c] # "idle"
        BY <2>1
      <3>2. /\ op[c] \in Ops /\ result[c] = "none" /\ Open(c)
            /\ Head(todo[c]) \in TypesOf(op[c])
            /\ Len(todo[c]) = 1 \/ Head(todo[c]) = "cancelEvent"
        BY <2>1, <3>1, InHand, Zenon
      <3>3. Len(todo[c]) = 1 => ~ (Len(todo[c]) > 1)
        OBVIOUS
      <3> QED
        BY <3>2, <3>3, Zenon
    <2> QED
      BY <2>1, <2>2 DEF CommandsInv, CallsFit, RequestsFit
  <1>2. /\ r.call = c /\ r.type = Head(todo[c]) /\ r.expires = now + TTL
        /\ r \in [call : Calls, type : Types, expires : Nat]
    BY <1>1, OpFacts DEF Request, CommandsInv, TypeOK
  <1>3. /\ \A x \in Calls \ {c} : stage'[x] = stage[x]
        /\ stage'[c] = "answer" /\ stage[c] = "post"
        /\ wire' = wire \cup {r}
        /\ now' = now /\ event' = event /\ setpoint' = setpoint /\ todo' = todo
        /\ executed' = executed /\ answer' = answer /\ result' = result
        /\ op' = op /\ duration' = duration
        /\ endedAt' = endedAt /\ settled' = settled /\ clean' = clean
        /\ inPlay' = inPlay /\ contactor' = contactor
    BY DEF CommandsInv, TypeOK, Post
  <1> HIDE DEF r
  <1>4. TypeOK'
    <2>1. stage' \in [Calls -> {"idle", "post", "answer"}]
      BY DEF CommandsInv, TypeOK, Post
    <2>2. wire' \subseteq [call : Calls, type : Types, expires : Nat]
      <3>1. wire \subseteq [call : Calls, type : Types, expires : Nat]
        BY DEF CommandsInv, TypeOK
      <3> QED
        BY <1>2, <1>3, <3>1
    <2> QED
      BY <1>3, <2>1, <2>2 DEF CommandsInv, TypeOK
  <1>5. CallsFit'
    BY <1>1, <1>3 DEF CommandsInv, CallsFit, Open
  <1>6. RequestsFit'
    <2>1. /\ \A m \in wire : m.expires <= now + TTL
          /\ r.expires <= now + TTL
      <3>1. now \in Nat /\ TTL \in Nat
        BY CommandsAssumption DEF CommandsInv, TypeOK
      <3> QED
        BY <1>2, <3>1 DEF CommandsInv, RequestsFit
    <2>2. \A m \in wire' : /\ op[m.call] # "none"
                           /\ m.type \in TypesOf(op[m.call])
                           /\ m.type \notin executed[m.call]
      BY <1>1, <1>2, <1>3, OpFacts DEF CommandsInv, RequestsFit
    <2>3. \A m, n \in wire' : m.call = n.call /\ m.type = n.type => m = n
      BY <1>1, <1>2, <1>3 DEF CommandsInv, RequestsFit
    <2>4. \A x \in Calls :
             /\ stage'[x] = "post" =>
                   /\ Head(todo[x]) \notin executed[x]
                   /\ \A m \in wire' : m.call = x => m.type # Head(todo[x])
             /\ Len(todo[x]) > 1 =>
                   /\ "scheduleEvent" \notin executed[x]
                   /\ \A m \in wire' : m.call = x => m.type # "scheduleEvent"
      BY <1>1, <1>2, <1>3 DEF CommandsInv, RequestsFit
    <2> QED
      BY <1>3, <2>1, <2>2, <2>3, <2>4 DEF RequestsFit
  <1>7. AnswersFit'
    BY <1>1, <1>2, <1>3 DEF CommandsInv, AnswersFit
  <1>8. OutcomeIsTrue'
    BY <1>1, <1>2, <1>3 DEF CommandsInv, OutcomeIsTrue, Refused
  <1>9. StaleSetpointEnds' /\ SetpointsFit' /\ ResumesFit'
    BY <1>1, <1>2, <1>3 DEF CommandsInv, StaleSetpointEnds, SetpointsFit, ResumesFit
  <1>10. EventsFit'
    <2>1. Rivals' \subseteq Rivals
      BY <1>1, <1>2, <1>3 DEF Rivals, Open, Live
    <2> QED
      BY <1>3, <2>1, EventsKept DEF CommandsInv
  <1> QED
    BY <1>4, <1>5, <1>6, <1>7, <1>8, <1>9, <1>10 DEF CommandsInv

\* What a step of a call under way leaves alone.
OthersStay == UNCHANGED <<now, inPlay, wire, gateway, op, duration, settled, clean>>

\* A call ends, with an outcome that is true.
LEMMA EndInv ==
    ASSUME CommandsInv, NEW c \in Calls, Open(c),
           NEW how \in {"returned", "cancelled"} \cup Errors,
           End(c, how), OthersStay,
           how = "returned" /\ op[c] \in {"schedule", "dispatch", "resume", "configure"}
              => Final(op[c]) \in executed[c],
           how \in Refused => /\ Final(op[c]) \notin executed[c]
                              /\ \A m \in wire : m.call = c => m.type # Final(op[c])
    PROVE  CommandsInv'
  <1> USE DEF gateway, OthersStay
  <1>1. /\ \A x \in Calls \ {c} : /\ todo'[x] = todo[x] /\ stage'[x] = stage[x]
                                  /\ answer'[x] = answer[x] /\ result'[x] = result[x]
                                  /\ endedAt'[x] = endedAt[x]
        /\ todo'[c] = << >> /\ stage'[c] = "idle" /\ answer'[c] = "none"
        /\ result'[c] = how
        /\ endedAt'[c] = now
        /\ now' = now /\ wire' = wire /\ event' = event /\ setpoint' = setpoint
        /\ executed' = executed /\ op' = op /\ duration' = duration
        /\ settled' = settled /\ clean' = clean
    BY DEF CommandsInv, TypeOK, End
  <1>2. /\ op[c] \in Ops /\ result[c] = "none"
        /\ how # "none"
    BY DEF CommandsInv, TypeOK, Open, Errors
  <1>3. TypeOK'
    <2>1. /\ result' \in [Calls -> {"none", "returned", "cancelled"} \cup Errors]
          /\ stage' \in [Calls -> {"idle", "post", "answer"}]
          /\ answer' \in [Calls -> {"none", "done"} \cup Refusals \cup Unusable]
      BY DEF CommandsInv, TypeOK, End
    <2>2. endedAt' \in [Calls -> 0 .. MaxTime]
      BY DEF CommandsInv, TypeOK, End
    <2>3. todo' \in [Calls -> {<< >>} \cup {Requests[r] : r \in Ops}
                                      \cup {Tail(Requests[r]) : r \in Ops}]
      BY DEF CommandsInv, TypeOK, End
    <2> QED
      BY <2>1, <2>2, <2>3 DEF CommandsInv, TypeOK
  <1>4. CallsFit'
    BY <1>1, <1>2, OpFacts DEF CommandsInv, CallsFit, Open
  <1>5. RequestsFit'
    <2>1. Len(todo'[c]) = 0
      BY <1>1
    <2>2. \A m \in wire : m.call \in Calls
      BY DEF CommandsInv, TypeOK
    <2> QED
      BY <1>1, <2>1, <2>2 DEF CommandsInv, RequestsFit
  <1>6. AnswersFit'
    BY <1>1 DEF CommandsInv, AnswersFit
  <1>7. OutcomeIsTrue'
    BY <1>1 DEF CommandsInv, OutcomeIsTrue
  <1>8. SetpointsFit'
    BY <1>1, <1>2 DEF CommandsInv, SetpointsFit, RequestsFit, TypeOK
  <1>9. StaleSetpointEnds'
    <2>1. setpoint.call = c =>
             setpoint.until <= endedAt'[c] + TTL + Lag + duration[c]
      <3>1. setpoint.call = c => /\ op[c] = "dispatch"
                                 /\ setpoint.until <= now + duration[c]
        BY <1>2 DEF CommandsInv, SetpointsFit
      <3>2. /\ now \in Nat /\ duration[c] \in Nat /\ setpoint.until \in Nat
            /\ TTL \in Nat /\ Lag \in Nat
        BY CommandsAssumption DEF CommandsInv, TypeOK
      <3> QED
        BY <1>1, <3>1, <3>2
    <2> QED
      BY <1>1, <2>1 DEF CommandsInv, StaleSetpointEnds
  <1>10. ResumesFit'
    <2>1. \A x \in Calls : \A s \in settled[x] : s \in Calls \ {c}
      BY <1>2 DEF CommandsInv, ResumesFit, TypeOK, Refused
    <2> QED
      BY <1>1, <2>1 DEF CommandsInv, ResumesFit
  <1>11. EventsFit'
    <2>1. Rivals' \subseteq Rivals
      BY <1>1, <1>2 DEF Rivals, Open, Live
    <2> QED
      BY <1>1, <2>1, EventsKept DEF CommandsInv
  <1> QED
    BY <1>3, <1>4, <1>5, <1>6, <1>7, <1>8, <1>9, <1>10, <1>11 DEF CommandsInv

\* A schedule goes on from its cancel to the event itself.
LEMMA NextRequestInv ==
    ASSUME CommandsInv, NEW c \in Calls, stage[c] = "answer",
           Advance(c), Len(todo[c]) > 1, OthersStay
    PROVE  CommandsInv'
  <1> USE DEF gateway, OthersStay
  <1>0. ~ (Len(todo[c]) = 1)
    <2>1. Len(todo[c]) = 1 => ~ (Len(todo[c]) > 1)
      OBVIOUS
    <2> QED
      BY <2>1, Zenon
  <1>1. /\ op[c] = "schedule" /\ result[c] = "none"
        /\ Tail(todo[c]) = <<"scheduleEvent">>
    <2>1. stage[c] # "idle" /\ TypeOK /\ CallsFit
      BY DEF CommandsInv
    <2> QED
      BY <1>0, <2>1, InHand, Zenon
  <1>2. /\ todo' = [todo EXCEPT ![c] = Tail(@)]
        /\ stage' = [stage EXCEPT ![c] = "post"]
        /\ answer' = [answer EXCEPT ![c] = "none"]
        /\ UNCHANGED <<result, endedAt>>
    BY <1>0, Zenon DEF Advance
  <1>3. /\ \A x \in Calls \ {c} : /\ todo'[x] = todo[x] /\ stage'[x] = stage[x]
                                  /\ answer'[x] = answer[x]
        /\ todo'[c] = <<"scheduleEvent">> /\ stage'[c] = "post"
        /\ answer'[c] = "none"
        /\ now' = now /\ wire' = wire /\ event' = event /\ setpoint' = setpoint
        /\ executed' = executed /\ op' = op /\ duration' = duration
        /\ settled' = settled /\ clean' = clean
        /\ result' = result /\ endedAt' = endedAt
    BY <1>1, <1>2 DEF CommandsInv, TypeOK
  <1>4. TypeOK'
    <2>1. /\ stage' \in [Calls -> {"idle", "post", "answer"}]
          /\ answer' \in [Calls -> {"none", "done"} \cup Refusals \cup Unusable]
      BY <1>2 DEF CommandsInv, TypeOK
    <2>2. Tail(todo[c]) = Tail(Requests["schedule"]) /\ "schedule" \in Ops
      BY <1>1, OpFacts DEF Requests
    <2>3. todo' \in [Calls -> {<< >>} \cup {Requests[r] : r \in Ops}
                                      \cup {Tail(Requests[r]) : r \in Ops}]
      BY <1>2, <2>2 DEF CommandsInv, TypeOK
    <2> QED
      BY <1>3, <2>1, <2>3 DEF CommandsInv, TypeOK
  <1>5. CallsFit'
    BY <1>1, <1>3, OpFacts DEF CommandsInv, CallsFit, Open
  <1>6. RequestsFit'
    <2>1. Len(todo'[c]) = 1 /\ Head(todo'[c]) = "scheduleEvent"
      BY <1>3
    <2>2. \A m \in wire : m.call \in Calls
      BY DEF CommandsInv, TypeOK
    <2> QED
      BY <1>3, <2>1, <2>2 DEF CommandsInv, RequestsFit
  <1>7. AnswersFit'
    BY <1>3 DEF CommandsInv, AnswersFit
  <1>8. OutcomeIsTrue' /\ StaleSetpointEnds' /\ SetpointsFit' /\ ResumesFit'
    BY <1>3 DEF CommandsInv, OutcomeIsTrue, StaleSetpointEnds, SetpointsFit, ResumesFit
  <1>9. EventsFit'
    <2>1. Rivals' \subseteq Rivals
      BY <1>3 DEF Rivals, Open, Live
    <2> QED
      BY <1>3, <2>1, EventsKept DEF CommandsInv
  <1> QED
    BY <1>4, <1>5, <1>6, <1>7, <1>8, <1>9 DEF CommandsInv

\* A call goes on or returns, the last of its requests carried out if it must be.
LEMMA AdvanceInv ==
    ASSUME CommandsInv, NEW c \in Calls, stage[c] = "answer",
           Advance(c), OthersStay,
           /\ op[c] \in {"schedule", "dispatch", "resume", "configure"}
           /\ Head(todo[c]) = Final(op[c])
           => Final(op[c]) \in executed[c]
    PROVE  CommandsInv'
  <1>1. CASE Len(todo[c]) = 1 /\ End(c, "returned")
    <2>1. TypeOK /\ CallsFit /\ stage[c] # "idle"
      BY DEF CommandsInv
    <2>2. Open(c) /\ result[c] = "none"
      BY <2>1, InHand
    <2>3. Head(todo[c]) = Final(op[c])
      <3>1. ~ (Len(todo[c]) = 2)
        BY <1>1
      <3> QED
        BY <1>1, <2>1, <3>1, InHand, Zenon
    <2>4. "returned" \notin Refused
      BY DEF Refused
    <2> QED
      BY <1>1, <2>2, <2>3, <2>4, EndInv
  <1>2. CASE Len(todo[c]) > 1
    BY <1>2, NextRequestInv
  <1> QED
    BY <1>1, <1>2 DEF Advance

LEMMA ToleratedFacts ==
    /\ Tolerated("scheduleEvent") = {} /\ Tolerated("dispatch") = {}
    /\ Tolerated("resume") = {} /\ Tolerated("configure") = {}
  BY DEF Tolerated

\* What fails with a name was not carried out.
LEMMA ErrorFacts ==
    /\ \A how \in Refusals \cup Unusable : Error(how) \in Errors
    /\ \A how \in Unusable : Error(how) \notin Refused
    /\ Refusals \cap {"none", "done"} = {} /\ Unusable \cap {"none", "done"} = {}
    /\ Refusals \cap Unusable = {}
  BY DEF Error, Errors, Refused, Refusals, Unusable

LEMMA AnsweredInv ==
    ASSUME CommandsInv, NEW c \in Calls, Answered(c)
    PROVE  CommandsInv'
  <1>1. /\ stage[c] = "answer" /\ Advance(c) /\ OthersStay
        /\ answer[c] \in {"done"} \cup Tolerated(Head(todo[c]))
    BY DEF Answered, OthersStay
  <1>2. /\ op[c] \in {"schedule", "dispatch", "resume", "configure"}
        /\ Head(todo[c]) = Final(op[c])
        => Final(op[c]) \in executed[c]
    BY <1>1, OpFacts, ToleratedFacts DEF CommandsInv, AnswersFit
  <1> QED
    BY <1>1, <1>2, AdvanceInv

LEMMA FailsInv ==
    ASSUME CommandsInv, NEW c \in Calls, Fails(c)
    PROVE  CommandsInv'
  <1>1. /\ stage[c] = "answer" /\ End(c, Error(answer[c])) /\ OthersStay
        /\ answer[c] \notin {"none", "done"}
    BY DEF Fails, OthersStay
  <1>2. answer[c] \in Refusals \cup Unusable
    BY <1>1 DEF CommandsInv, TypeOK
  <1>3. Error(answer[c]) \in Errors /\ "returned" \notin Errors
    BY <1>2, ErrorFacts DEF Errors
  <1>4. ASSUME Error(answer[c]) \in Refused
        PROVE  /\ Final(op[c]) \notin executed[c]
               /\ \A m \in wire : m.call = c => m.type # Final(op[c])
    <2>1. answer[c] \in Refusals
      BY <1>2, <1>4, ErrorFacts
    <2>2. /\ Head(todo[c]) \notin executed[c]
          /\ \A m \in wire : m.call = c => m.type # Head(todo[c])
      BY <1>1, <2>1 DEF CommandsInv, AnswersFit
    <2>3. stage[c] # "idle" /\ TypeOK /\ CallsFit
      BY <1>1 DEF CommandsInv
    <2>4. CASE Head(todo[c]) = Final(op[c])
      BY <2>2, <2>4
    <2>5. CASE op[c] = "schedule" /\ Len(todo[c]) = 2
      <3>1. Len(todo[c]) > 1
        BY <2>5
      <3> QED
        BY <2>5, <3>1, OpFacts DEF CommandsInv, RequestsFit
    <2> QED
      BY <2>3, <2>4, <2>5, InHand, Zenon
  <1>5. Open(c)
    BY <1>1 DEF CommandsInv, CallsFit
  <1> QED
    BY <1>1, <1>3, <1>4, <1>5, EndInv

LEMMA TimesOutInv ==
    ASSUME CommandsInv, NEW c \in Calls, TimesOut(c)
    PROVE  CommandsInv'
  <1>1. /\ stage[c] = "answer" /\ OthersStay
    BY DEF TimesOut, OthersStay
  <1>2. CASE "connection" \in Tolerated(Head(todo[c])) /\ Advance(c)
    <2>1. ~ /\ op[c] \in {"schedule", "dispatch", "resume", "configure"}
            /\ Head(todo[c]) = Final(op[c])
      BY <1>2, OpFacts, ToleratedFacts
    <2> QED
      BY <1>1, <1>2, <2>1, AdvanceInv
  <1>3. CASE End(c, "connection")
    <2>1. "connection" \in Errors \ Refused /\ "connection" # "returned"
      BY DEF Errors, Refused
    <2>2. Open(c)
      BY <1>1 DEF CommandsInv, CallsFit
    <2> QED
      BY <1>1, <1>3, <2>1, <2>2, EndInv
  <1> QED
    BY <1>2, <1>3 DEF TimesOut

LEMMA ConnectFailsInv ==
    ASSUME CommandsInv, NEW c \in Calls, NEW e \in ConnectErrors, ConnectFails(c, e)
    PROVE  CommandsInv'
  <1>1. /\ stage[c] = "post" /\ End(c, e) /\ OthersStay
    BY DEF ConnectFails, OthersStay
  <1>2. Open(c) /\ e \in Errors /\ e # "returned"
    BY <1>1, ErrorFacts DEF CommandsInv, CallsFit, Errors, ConnectErrors, Refusals
  <1>3. /\ Final(op[c]) \notin executed[c]
        /\ \A m \in wire : m.call = c => m.type # Final(op[c])
    <2>1. stage[c] # "idle" /\ TypeOK /\ CallsFit
      BY <1>1 DEF CommandsInv
    <2>2. CASE Head(todo[c]) = Final(op[c])
      BY <1>1, <2>2 DEF CommandsInv, RequestsFit
    <2>3. CASE op[c] = "schedule" /\ Len(todo[c]) = 2
      <3>1. Len(todo[c]) > 1
        BY <2>3
      <3> QED
        BY <2>3, <3>1, OpFacts DEF CommandsInv, RequestsFit
    <2> QED
      BY <2>1, <2>2, <2>3, InHand, Zenon
  <1> QED
    BY <1>1, <1>2, <1>3, EndInv

LEMMA CancelInv ==
    ASSUME CommandsInv, NEW c \in Calls, Cancel(c)
    PROVE  CommandsInv'
  <1>1. Open(c) /\ End(c, "cancelled") /\ OthersStay
    BY DEF Cancel, OthersStay
  <1>2. "cancelled" \notin Refused
    BY DEF Refused
  <1> QED
    BY <1>1, <1>2, EndInv

LEMMA ClientNextInv ==
    ASSUME CommandsInv, NEW c \in Calls, ClientNext(c)
    PROVE  CommandsInv'
  BY PostInv, AnsweredInv, FailsInv, TimesOutInv, CancelInv, ConnectFailsInv
     DEF ClientNext

-----------------------------------------------------------------------------
(* The gateway, the network, the others.                                   *)

\* What is true of a request in flight.
LEMMA InFlight ==
    ASSUME CommandsInv, NEW m \in wire
    PROVE  /\ m.call \in Calls /\ m.type \in Types /\ m.expires \in Nat
           /\ op[m.call] \in Ops /\ m.type \in TypesOf(op[m.call])
           /\ m.type \notin executed[m.call]
           /\ \A n \in wire \ {m} : n.call = m.call => n.type # m.type
           /\ m.type = "dispatch" => op[m.call] = "dispatch"
           /\ m.type = "resume" => op[m.call] = "resume"
  <1>1. m.call \in Calls /\ m.type \in Types /\ m.expires \in Nat
    BY DEF CommandsInv, TypeOK
  <1>2. op[m.call] \in Ops /\ m.type \in TypesOf(op[m.call])
    BY <1>1 DEF CommandsInv, TypeOK, RequestsFit
  <1> QED
    BY <1>1, <1>2, OpFacts DEF CommandsInv, RequestsFit

LEMMA ExecuteInv ==
    ASSUME CommandsInv, NEW m \in wire, NEW how \in {"done"} \cup Unusable,
           Execute(m, how)
    PROVE  CommandsInv'
  <1> DEFINE c == m.call
  <1> USE DEF history
  <1>1. /\ c \in Calls /\ m.type \in Types /\ m.expires \in Nat
        /\ op[c] \in Ops /\ m.type \in TypesOf(op[c])
        /\ m.type \notin executed[c]
        /\ \A n \in wire \ {m} : n.call = c => n.type # m.type
        /\ m.type = "dispatch" => op[c] = "dispatch"
        /\ m.type = "resume" => op[c] = "resume"
    BY InFlight
  <1>2. /\ wire' = wire \ {m}
        /\ \A x \in Calls \ {c} : executed'[x] = executed[x] /\ answer'[x] = answer[x]
        /\ executed'[c] = executed[c] \cup {m.type}
        /\ answer'[c] = IF stage[c] = "answer" /\ Head(todo[c]) = m.type THEN how
                        ELSE answer[c]
        /\ now' = now /\ op' = op /\ duration' = duration /\ todo' = todo
        /\ stage' = stage /\ result' = result
        /\ endedAt' = endedAt /\ settled' = settled
        /\ now <= m.expires + Lag
    BY <1>1 DEF CommandsInv, TypeOK, Execute, Reply, Awaited, Live
  <1>3. /\ event' = IF m.type = "cancelEvent" THEN NoCall
                    ELSE IF m.type = "scheduleEvent" THEN c ELSE event
        /\ setpoint' = IF m.type = "dispatch" THEN [call |-> c, until |-> now + duration[c]]
                       ELSE IF m.type = "resume" THEN NoSetpoint ELSE setpoint
        /\ contactor' \in {"open", "closed"}
        /\ clean' = IF m.type = "cancelEvent" /\ event \in clean /\ Straggles(m)
                    THEN {} ELSE clean
    BY DEF CommandsInv, TypeOK, Execute
  <1>4. TypeOK'
    <2>1. executed' \in [Calls -> SUBSET Types]
      BY <1>1 DEF CommandsInv, TypeOK, Execute
    <2>2. answer' \in [Calls -> {"none", "done"} \cup Refusals \cup Unusable]
      BY DEF CommandsInv, TypeOK, Execute, Reply
    <2>3. setpoint' \in [call : Calls \cup {NoCall, Others}, until : Nat]
      BY <1>1, <1>3 DEF CommandsInv, TypeOK, NoSetpoint
    <2>4. inPlay' = inPlay
      BY DEF Execute
    <2> QED
      BY <1>1, <1>2, <1>3, <2>1, <2>2, <2>3, <2>4 DEF CommandsInv, TypeOK
  <1> HIDE DEF c
  <1>5. CallsFit'
    BY <1>1, <1>2, OpFacts DEF CommandsInv, CallsFit, Open
  <1>6. RequestsFit'
    <2>1. \A n \in wire' : n \in wire /\ n # m
      BY <1>2
    <2>2. ASSUME NEW n \in wire'
          PROVE  n.type \notin executed'[n.call]
      <3>1. n.call \in Calls /\ n.type \notin executed[n.call]
        BY <2>1 DEF CommandsInv, RequestsFit, TypeOK
      <3>2. n.call = c => n.type # m.type
        BY <1>1, <2>1
      <3> QED
        BY <1>2, <3>1, <3>2
    <2>3. m \in wire /\ m.call = c
      BY DEF c
    <2>4. ASSUME NEW x \in Calls
          PROVE  /\ stage'[x] = "post" => Head(todo'[x]) \notin executed'[x]
                 /\ Len(todo'[x]) > 1 => "scheduleEvent" \notin executed'[x]
      BY <1>2, <2>3 DEF CommandsInv, RequestsFit
    <2> QED
      BY <1>2, <2>1, <2>2, <2>4 DEF CommandsInv, RequestsFit
  <1>7. AnswersFit'
    <2>1. \A n \in wire' : n \in wire /\ n # m
      BY <1>2
    <2>2. m \in wire /\ m.call = c
      BY DEF c
    <2> SUFFICES ASSUME NEW x \in Calls, answer'[x] # "none"
                 PROVE  AnswersFit!(x)'
      BY DEF AnswersFit
    <2>3. CASE x = c /\ stage[c] = "answer" /\ Head(todo[c]) = m.type
      <3>1. answer'[x] = how /\ how \notin Refusals
        BY <1>2, <2>3, ErrorFacts
      <3> QED
        BY <1>1, <1>2, <2>1, <2>3, <3>1
    <2>4. CASE ~ (x = c /\ stage[c] = "answer" /\ Head(todo[c]) = m.type)
      <3>1. answer'[x] = answer[x]
        BY <1>2, <2>4
      <3>2. AnswersFit!(x)
        BY <2>4, <3>1 DEF CommandsInv, AnswersFit
      <3>3. x = c => Head(todo[x]) # m.type
        BY <2>2, <3>1, <3>2
      <3> QED
        BY <1>2, <2>1, <3>1, <3>2, <3>3
    <2> QED
      BY <2>3, <2>4
  <1>8. OutcomeIsTrue'
    <2>1. m \in wire /\ m.call = c
      BY DEF c
    <2> QED
      BY <1>1, <1>2, <2>1 DEF CommandsInv, OutcomeIsTrue
  <1>9. StaleSetpointEnds' /\ SetpointsFit'
    <2>1. m \in wire /\ m.call = c
      BY DEF c
    <2>2. /\ now \in Nat /\ duration[c] \in Nat /\ endedAt[c] \in Nat
          /\ TTL \in Nat /\ Lag \in Nat
      BY <1>1, CommandsAssumption DEF CommandsInv, TypeOK
    <2>3. /\ \A n \in wire' : result'[n.call] # "none" =>
                n.expires <= endedAt'[n.call] + TTL
      BY <1>2 DEF CommandsInv, SetpointsFit
    <2>4. CASE m.type = "dispatch"
      <3>1. setpoint'.call = c /\ setpoint'.until = now + duration[c]
        BY <1>3, <2>4
      <3>2. op[c] = "dispatch"
        BY <1>1, <2>4
      <3>3. result[c] # "none" => m.expires <= endedAt[c] + TTL
        BY <2>1 DEF CommandsInv, SetpointsFit
      <3>4. result[c] # "none" =>
               setpoint'.until <= endedAt[c] + TTL + Lag + duration[c]
        BY <1>1, <1>2, <2>2, <3>1, <3>3
      <3> QED
        BY <1>2, <2>2, <2>3, <3>1, <3>2, <3>4 DEF StaleSetpointEnds, SetpointsFit
    <2>5. CASE m.type = "resume"
      <3>1. setpoint'.call \notin Calls
        BY <1>3, <2>5, CommandsAssumption DEF NoSetpoint
      <3> QED
        BY <2>3, <3>1 DEF StaleSetpointEnds, SetpointsFit
    <2>6. CASE m.type \notin {"dispatch", "resume"}
      <3>1. setpoint' = setpoint
        BY <1>3, <2>6
      <3> QED
        BY <1>2, <2>3, <3>1 DEF CommandsInv, StaleSetpointEnds, SetpointsFit
    <2> QED
      BY <2>4, <2>5, <2>6
  <1>10. ResumesFit'
    <2>1. m \in wire /\ m.call = c
      BY DEF c
    <2> SUFFICES ASSUME NEW x \in Calls
                 PROVE  /\ \A s \in settled[x] :
                              op[s] = "dispatch" /\ result[s] \in {"returned"} \cup Refused
                        /\ op[x] = "resume" /\ "resume" \in executed'[x] =>
                              setpoint'.call \notin settled[x]
      BY <1>2 DEF ResumesFit
    <2>2. ResumesFit!(x) /\ settled[x] \subseteq Calls
      BY DEF CommandsInv, ResumesFit, TypeOK
    <2>3. CASE m.type = "dispatch"
      <3>1. setpoint'.call = c
        BY <1>3, <2>3
      <3>2. c \notin settled[x]
        <4>1. OutcomeIsTrue /\ Final("dispatch") = "dispatch"
          BY OpFacts DEF CommandsInv
        <4> QED
          BY <1>1, <2>1, <2>2, <2>3, <4>1 DEF OutcomeIsTrue
      <3>3. \A s \in settled[x] :
               op[s] = "dispatch" /\ result[s] \in {"returned"} \cup Refused
        BY <2>2
      <3> QED
        BY <3>1, <3>2, <3>3
    <2>4. CASE m.type = "resume"
      <3>1. setpoint'.call = NoCall
        BY <1>3, <2>4 DEF NoSetpoint
      <3> QED
        BY <2>2, <3>1, CommandsAssumption
    <2>5. CASE m.type \notin {"dispatch", "resume"}
      <3>1. setpoint' = setpoint
        BY <1>3, <2>5
      <3>2. "resume" \in executed'[x] => "resume" \in executed[x]
        BY <1>2, <2>5
      <3> QED
        BY <2>2, <3>1, <3>2
    <2> QED
      BY <2>3, <2>4, <2>5
  <1>11. EventsFit'
    <2>1. m \in wire /\ m.call = c /\ \A n \in wire' : n \in wire /\ n # m
      BY <1>2 DEF c
    <2>2. Rivals' \subseteq Rivals
      BY <1>2, <2>1 DEF Rivals, Open, Live
    <2>3. EventsFit /\ clean \subseteq Calls
      BY DEF CommandsInv, TypeOK
    <2>4. CASE clean' = {}
      BY <2>4 DEF EventsFit
    <2>5. CASE m.type = "scheduleEvent" /\ clean' = clean /\ clean # {}
      <3>1. c \in Rivals
        BY <1>1, <1>2, <2>1, <2>5, OpFacts DEF Rivals, Live, TypesOf
      <3>2. event' \in clean'
        BY <1>3, <2>3, <2>5, <3>1 DEF EventsFit
      <3> QED
        BY <1>2, <2>2, <2>3, <2>5, <3>2 DEF EventsFit
    <2>6. CASE m.type = "cancelEvent" /\ clean' = clean /\ clean # {}
      <3>1. c \in clean
        BY <1>1, <1>2, <2>1, <2>3, <2>6, OpFacts DEF EventsFit, Rivals, Live, TypesOf
      <3>2. \E x \in clean : "scheduleEvent" \notin executed[x]
        <4>1. CASE event \notin clean
          BY <2>3, <2>6, <4>1 DEF EventsFit
        <4>2. CASE event \in clean
          <5>1. ~ Straggles(m)
            BY <1>3, <2>6, <4>2
          <5>2. result[c] # "none" => now <= endedAt[c] + TTL + Lag
            <6>1. result[c] # "none" => m.expires <= endedAt[c] + TTL
              BY <2>1 DEF CommandsInv, SetpointsFit
            <6>2. /\ now \in Nat /\ endedAt[c] \in Nat /\ TTL \in Nat /\ Lag \in Nat
              BY <1>1, CommandsAssumption DEF CommandsInv, TypeOK
            <6> QED
              BY <1>1, <1>2, <6>1, <6>2
          <5>3. stage[c] = "answer" /\ Head(todo[c]) = "cancelEvent"
            BY <2>1, <2>6, <5>1, <5>2 DEF Straggles, Awaited
          <5>4. stage[c] # "idle" /\ TypeOK /\ CallsFit /\ op[c] = "schedule"
            BY <2>3, <3>1, <5>3 DEF CommandsInv, EventsFit
          <5>5. Len(todo[c]) = 2
            <6>1. Head(todo[c]) # Final(op[c])
              BY <5>3, <5>4, OpFacts
            <6> QED
              BY <1>1, <5>4, <6>1, InHand, Zenon
          <5>6. Len(todo[c]) > 1
            BY <5>5
          <5>7. "scheduleEvent" \notin executed[c]
            BY <1>1, <5>6 DEF CommandsInv, RequestsFit
          <5> QED
            BY <3>1, <5>7
        <4> QED
          BY <4>1, <4>2
      <3>3. \E x \in clean' : "scheduleEvent" \notin executed'[x]
        BY <1>2, <2>3, <2>6, <3>2
      <3> QED
        BY <1>2, <2>2, <2>3, <2>6, <3>3 DEF EventsFit
    <2>7. CASE m.type \notin {"cancelEvent", "scheduleEvent"} /\ clean' = clean
      <3>1. event' = event
        BY <1>3, <2>7
      <3>2. \A x \in clean : "scheduleEvent" \in executed'[x] =>
                                 "scheduleEvent" \in executed[x]
        BY <1>2, <2>3, <2>7
      <3> QED
        BY <1>2, <2>2, <2>3, <2>7, <3>1, <3>2 DEF EventsFit
    <2> QED
      BY <1>3, <2>4, <2>5, <2>6, <2>7
  <1> QED
    BY <1>4, <1>5, <1>6, <1>7, <1>8, <1>9, <1>10, <1>11 DEF CommandsInv

LEMMA RefuseInv ==
    ASSUME CommandsInv, NEW m \in wire, NEW how \in Mishaps, Refuse(m, how)
    PROVE  CommandsInv'
  <1> DEFINE c == m.call
  <1> USE DEF gateway, history
  <1>1. /\ c \in Calls /\ op[c] \in Ops /\ m.type \notin executed[c]
        /\ \A n \in wire \ {m} : n.call = c => n.type # m.type
    BY InFlight
  <1>2. /\ wire' = wire \ {m} /\ stage[c] = "answer" /\ Head(todo[c]) = m.type
        /\ \A x \in Calls \ {c} : answer'[x] = answer[x]
        /\ answer'[c] = how
        /\ how \in Refusals \cup Unusable
        /\ now' = now /\ inPlay' = inPlay /\ op' = op /\ duration' = duration
        /\ todo' = todo /\ stage' = stage /\ result' = result
        /\ event' = event /\ setpoint' = setpoint /\ executed' = executed
        /\ contactor' = contactor
        /\ endedAt' = endedAt /\ settled' = settled /\ clean' = clean
    BY <1>1, CommandsAssumption DEF CommandsInv, TypeOK, Refuse, Reply, Awaited
  <1>3. TypeOK'
    <2>1. answer' \in [Calls -> {"none", "done"} \cup Refusals \cup Unusable]
      BY <1>2 DEF CommandsInv, TypeOK, Refuse, Reply
    <2> QED
      BY <1>2, <2>1 DEF CommandsInv, TypeOK
  <1> HIDE DEF c
  <1>4. \A n \in wire' : n \in wire /\ n # m
    BY <1>2
  <1>5. CallsFit'
    BY <1>2 DEF CommandsInv, CallsFit, Open
  <1>6. RequestsFit'
    BY <1>2, <1>4 DEF CommandsInv, RequestsFit
  <1>7. AnswersFit'
    <2> SUFFICES ASSUME NEW x \in Calls, answer'[x] # "none"
                 PROVE  AnswersFit!(x)'
      BY DEF AnswersFit
    <2>1. CASE x = c
      BY <1>1, <1>2, <1>4, <2>1, ErrorFacts
    <2>2. CASE x # c
      <3>1. AnswersFit!(x)
        BY <1>2, <2>2 DEF CommandsInv, AnswersFit
      <3> QED
        BY <1>2, <1>4, <2>2, <3>1
    <2> QED
      BY <2>1, <2>2
  <1>8. /\ OutcomeIsTrue' /\ StaleSetpointEnds' /\ SetpointsFit' /\ ResumesFit'
    BY <1>2, <1>4 DEF CommandsInv, OutcomeIsTrue, StaleSetpointEnds, SetpointsFit,
                      ResumesFit
  <1>9. EventsFit'
    <2>1. Rivals' \subseteq Rivals
      BY <1>2, <1>4 DEF Rivals, Open, Live
    <2> QED
      BY <1>2, <2>1, EventsKept DEF CommandsInv
  <1> QED
    BY <1>3, <1>5, <1>6, <1>7, <1>8, <1>9 DEF CommandsInv

LEMMA LoseInv ==
    ASSUME CommandsInv, NEW m \in wire, Lose(m)
    PROVE  CommandsInv'
  <1>1. /\ wire' \subseteq wire
        /\ now' = now /\ inPlay' = inPlay /\ op' = op /\ duration' = duration
        /\ todo' = todo /\ stage' = stage /\ answer' = answer /\ result' = result
        /\ event' = event /\ setpoint' = setpoint /\ executed' = executed
        /\ contactor' = contactor
        /\ endedAt' = endedAt /\ settled' = settled /\ clean' = clean
    BY DEF Lose, gateway, caller, history
  <1>2. TypeOK' /\ CallsFit'
    BY <1>1 DEF CommandsInv, TypeOK, CallsFit, Open
  <1>5. RequestsFit' /\ AnswersFit'
    BY <1>1 DEF CommandsInv, RequestsFit, AnswersFit
  <1>3. OutcomeIsTrue' /\ StaleSetpointEnds' /\ SetpointsFit' /\ ResumesFit'
    BY <1>1 DEF CommandsInv, OutcomeIsTrue, StaleSetpointEnds, SetpointsFit, ResumesFit
  <1>4. EventsFit'
    <2>1. Rivals' \subseteq Rivals
      BY <1>1 DEF Rivals, Open, Live
    <2> QED
      BY <1>1, <2>1, EventsKept DEF CommandsInv
  <1> QED
    BY <1>2, <1>3, <1>4, <1>5 DEF CommandsInv

\* What is dead stays dead.
LEMMA TickInv ==
    ASSUME CommandsInv, Tick
    PROVE  CommandsInv'
  <1>1. /\ now' = now + 1 /\ now \in Nat /\ now < MaxTime
        /\ setpoint' \in {setpoint, NoSetpoint}
        /\ wire' = wire /\ inPlay' = inPlay /\ op' = op /\ duration' = duration
        /\ todo' = todo /\ stage' = stage /\ answer' = answer /\ result' = result
        /\ event' = event /\ executed' = executed /\ contactor' = contactor
        /\ endedAt' = endedAt /\ settled' = settled /\ clean' = clean
    BY DEF Tick, caller, history, CommandsInv, TypeOK
  <1>2. NoSetpoint.call \notin Calls
    BY CommandsAssumption DEF NoSetpoint
  <1>3. TypeOK'
    <2>1. NoSetpoint \in [call : Calls \cup {NoCall, Others}, until : Nat]
      BY DEF NoSetpoint
    <2>2. now' \in 0 .. MaxTime
      BY <1>1, CommandsAssumption
    <2> QED
      BY <1>1, <2>1, <2>2 DEF CommandsInv, TypeOK
  <1>4. CallsFit' /\ AnswersFit' /\ OutcomeIsTrue'
    BY <1>1 DEF CommandsInv, CallsFit, AnswersFit, OutcomeIsTrue, Open
  <1>5. RequestsFit'
    BY <1>1, CommandsAssumption DEF CommandsInv, RequestsFit, TypeOK
  <1>6. ResumesFit'
    <2>1. \A c \in Calls : settled[c] \subseteq Calls
      BY DEF CommandsInv, TypeOK
    <2> QED
      BY <1>1, <1>2, <2>1 DEF CommandsInv, ResumesFit
  <1>7. StaleSetpointEnds'
    BY <1>1, <1>2 DEF CommandsInv, StaleSetpointEnds
  <1>8. SetpointsFit'
    <2>1. /\ setpoint.call \in Calls => duration[setpoint.call] \in Nat
          /\ setpoint.until \in Nat
      BY DEF CommandsInv, TypeOK
    <2> QED
      BY <1>1, <1>2, <2>1 DEF CommandsInv, SetpointsFit
  <1>9. EventsFit'
    <2>1. \A m \in wire : Live(m)' => Live(m)
      BY <1>1, CommandsAssumption DEF CommandsInv, TypeOK, Live
    <2>2. Rivals' \subseteq Rivals
      BY <1>1, <2>1 DEF Rivals, Open
    <2> QED
      BY <1>1, <2>2, EventsKept DEF CommandsInv
  <1> QED
    BY <1>3, <1>4, <1>5, <1>6, <1>7, <1>8, <1>9 DEF CommandsInv

LEMMA OutsideInv ==
    ASSUME CommandsInv, Outside
    PROVE  CommandsInv'
  <1>1. /\ now' = now /\ wire' = wire /\ inPlay' = inPlay /\ op' = op
        /\ duration' = duration
        /\ todo' = todo /\ stage' = stage /\ answer' = answer /\ result' = result
        /\ executed' = executed /\ endedAt' = endedAt /\ settled' = settled
    BY DEF Outside, caller, history
  <1>2. \/ event' = event /\ clean' = clean
        \/ event' \in {NoCall, Others} /\ clean' = {}
    BY DEF Outside, history
  <1>3. /\ setpoint' = setpoint \/ setpoint'.call \in {NoCall, Others}
        /\ setpoint' \in [call : Calls \cup {NoCall, Others}, until : Nat]
    <2>1. \A d \in DurationsOf("dispatch") : now + d \in Nat
      <3>1. now \in Nat /\ Asked \subseteq Int
        BY CommandsAssumption DEF CommandsInv, TypeOK
      <3> QED
        BY <3>1 DEF DurationsOf
    <2> QED
      BY <2>1 DEF Outside, CommandsInv, TypeOK, NoSetpoint
  <1>4. contactor' \in {"open", "closed"}
    BY DEF Outside, CommandsInv, TypeOK
  <1>5. TypeOK'
    BY <1>1, <1>2, <1>3, <1>4 DEF CommandsInv, TypeOK
  <1>6. CallsFit' /\ RequestsFit' /\ AnswersFit' /\ OutcomeIsTrue'
    BY <1>1 DEF CommandsInv, CallsFit, RequestsFit, AnswersFit, OutcomeIsTrue, Open
  <1>7. StaleSetpointEnds' /\ SetpointsFit'
    BY <1>1, <1>3, CommandsAssumption DEF CommandsInv, StaleSetpointEnds, SetpointsFit
  <1>8. ResumesFit'
    <2>1. \A c \in Calls : settled[c] \subseteq Calls
      BY DEF CommandsInv, TypeOK
    <2> QED
      BY <1>1, <1>3, <2>1, CommandsAssumption DEF CommandsInv, ResumesFit
  <1>9. EventsFit'
    <2>1. Rivals' \subseteq Rivals
      BY <1>1 DEF Rivals, Open, Live
    <2>2. CASE clean' = {}
      BY <2>2 DEF EventsFit
    <2>3. CASE event' = event /\ clean' = clean
      BY <1>1, <2>1, <2>3, EventsKept DEF CommandsInv
    <2> QED
      BY <1>2, <2>2, <2>3
  <1> QED
    BY <1>5, <1>6, <1>7, <1>8, <1>9 DEF CommandsInv

-----------------------------------------------------------------------------
(* Theorems.                                                               *)

LEMMA StepInv == CommandsInv /\ [Next]_vars => CommandsInv'
  <1> SUFFICES ASSUME CommandsInv, [Next]_vars
               PROVE  CommandsInv'
    OBVIOUS
  <1>1. ASSUME NEW c \in Calls, NEW o \in Ops, NEW d \in Asked \cup {0}, Call(c, o, d)
        PROVE  CommandsInv'
    BY <1>1, CallInv
  <1>2. ASSUME NEW c \in Calls, ClientNext(c)
        PROVE  CommandsInv'
    BY <1>2, ClientNextInv
  <1>3. ASSUME NEW m \in wire, GatewayNext(m)
        PROVE  CommandsInv'
    BY <1>3, ExecuteInv, RefuseInv, LoseInv DEF GatewayNext
  <1>4. CASE Tick
    BY <1>4, TickInv
  <1>5. CASE Outside
    BY <1>5, OutsideInv
  <1>6. CASE UNCHANGED vars
    <2>1. /\ UNCHANGED <<now, inPlay, event, setpoint, contactor, wire, executed>>
          /\ UNCHANGED <<op, duration, todo, stage, answer, result>>
          /\ UNCHANGED <<endedAt, settled, clean>>
      BY <1>6 DEF vars, gateway, caller, history
    <2>2. TypeOK'
      BY <2>1 DEF CommandsInv, TypeOK
    <2>3. CallsFit' /\ RequestsFit' /\ AnswersFit'
      BY <2>1 DEF CommandsInv, CallsFit, RequestsFit, AnswersFit, Open
    <2>4. OutcomeIsTrue' /\ StaleSetpointEnds' /\ SetpointsFit' /\ ResumesFit'
      BY <2>1 DEF CommandsInv, OutcomeIsTrue, StaleSetpointEnds, SetpointsFit, ResumesFit
    <2>5. EventsFit'
      <3>1. Rivals' \subseteq Rivals
        BY <2>1 DEF Rivals, Open, Live
      <3> QED
        BY <2>1, <3>1, EventsKept DEF CommandsInv
    <2> QED
      BY <2>2, <2>3, <2>4, <2>5 DEF CommandsInv
  <1> QED
    BY <1>1, <1>2, <1>3, <1>4, <1>5, <1>6 DEF Next

\* What resume_battery_operation has released stays released.
LEMMA InvReleases == CommandsInv => ResumeReleases
  BY OpFacts DEF CommandsInv, ResumeReleases, ResumesFit, OutcomeIsTrue

\* Clean schedules that have all returned have made their events.
LEMMA InvEventStands == CommandsInv => EventStands
  BY OpFacts DEF CommandsInv, EventStands, EventsFit, OutcomeIsTrue, TypeOK

LEMMA Invariance == Spec => []CommandsInv
  BY InitInv, StepInv, PTL DEF Spec

\* Every variable keeps its type: no operation ends with a result, and no call
\* goes on with a request, that it does not have.
THEOREM TypeCorrect == Spec => []TypeOK
  <1>1. CommandsInv => TypeOK
    BY DEF CommandsInv
  <1> QED
    BY <1>1, Invariance, PTL

\* For any number of calls and any lag of the gateway's clock, what returned was
\* carried out and what was refused by name was not.
THEOREM OutcomesAreTrue == Spec => []OutcomeIsTrue
  <1>1. CommandsInv => OutcomeIsTrue
    BY DEF CommandsInv
  <1> QED
    BY <1>1, Invariance, PTL

\* However a call ends, its setpoint does not outlast its end by more than its
\* duration, the life of a signature and the lag.
THEOREM StaleSetpointsEnd == Spec => []StaleSetpointEnds
  <1>1. CommandsInv => StaleSetpointEnds
    BY DEF CommandsInv
  <1> QED
    BY <1>1, Invariance, PTL

\* A resume_battery_operation that returned keeps the dispatches it followed
\* from coming back.
THEOREM ResumesRelease == Spec => []ResumeReleases
  BY InvReleases, Invariance, PTL

\* Any number of schedules that race each other, with cancels lost, late and
\* taken for done, leave an event of theirs when they have returned; only
\* another writer, or a cancel given up that arrives in time, removes it.
THEOREM EventsStand == Spec => []EventStands
  BY InvEventStands, Invariance, PTL
=============================================================================
