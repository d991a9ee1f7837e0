----------------------------- MODULE EnergySite -----------------------------
(***************************************************************************)
(* PowerwallEnergySite behind an energy router: the router prefers the     *)
(* adapter and falls through to the cloud's EnergySite when the health     *)
(* check fails, when the adapter has no local mapping, and on errors that  *)
(* exceptions.py marks failover_safe.  The adapter adds no await to the    *)
(* client's call and returns the same envelope for every command, so a     *)
(* step of it is a step of Commands.                                       *)
(*                                                                         *)
(* The router and the cloud are not in this repository: they do what its   *)
(* docstrings and exceptions.py rely on.  The cloud acts on the same       *)
(* gateway, as somebody else; what it does late or twice is its own.       *)
(***************************************************************************)
EXTENDS Commands

VARIABLES
    wanted,    \* what the router was asked for
    handed,    \* calls given to the cloud without asking the client
    cloudDid,  \* calls the cloud has carried out
    cloudSaid, \* what it answered
    steady     \* history: a call of each family that nothing has crossed

router == <<wanted, handed, cloudDid, cloudSaid, steady>>
siteVars == <<vars, router>>

\* The commands of the client that the adapter has.
Offered == Ops \ {"trigger", "configure"}

\* Those that the cloud has too.
InCloud == Offered \ {"remove"}

\* Methods that raise NotImplementedError; nothing tells them apart.
Placeholder == "placeholder"

\* A mistake for the runs to find: an unusable reply fails over as well.
FailoverOfProtocol == {"connection", "authentication", "rateLimit", "protocol"}

FailoverSafe == {"connection", "authentication", "rateLimit"}

\* The cloud is asked to do it.
AtCloud(c) == \/ c \in handed
              \/ wanted[c] \in Offered /\ result[c] \in FailoverSafe

\* What the router's caller has been told; the adapter's envelope is "ok".
Told(c) == IF AtCloud(c) THEN cloudSaid[c]
           ELSE IF result[c] = "returned" THEN "ok"
           ELSE result[c]

SiteTypeOK == /\ TypeOK
              /\ wanted \in [Calls -> Ops \cup {"none", Placeholder}]
              /\ handed \subseteq Calls
              /\ cloudDid \subseteq Calls
              /\ cloudSaid \in [Calls -> {"none", "ok", "failed"}]
              /\ steady \subseteq Calls

SiteInit == /\ Init
            /\ wanted = [c \in Calls |-> "none"]
            /\ handed = {}
            /\ cloudDid = {}
            /\ cloudSaid = [c \in Calls |-> "none"]
            /\ steady = {}

-----------------------------------------------------------------------------
SameFamily(o, p) == \E family \in Families : {o, p} \subseteq Members(family)

\* The router, or the client, is asked for o.
Want(c, o) ==
    LET Family == {x \in Calls : SameFamily(wanted[x], o)}
    IN  /\ wanted[c] = "none"
        /\ wanted' = [wanted EXCEPT ![c] = o]
        /\ steady' = (steady \ Family) \cup
                     IF \A x \in Family : Told(x) # "none" THEN {c} ELSE {}

\* connect_if_needed() succeeds and the adapter's method calls the client's.
Forward(c, o, d) ==
    /\ o \in Offered
    /\ Want(c, o)
    /\ Call(c, o, d)
    /\ UNCHANGED <<handed, cloudDid, cloudSaid>>

\* What the adapter does not have is asked of the client itself.
Direct(c, o, d) ==
    /\ o \notin Offered
    /\ Want(c, o)
    /\ Call(c, o, d)
    /\ UNCHANGED <<handed, cloudDid, cloudSaid>>

\* connect_if_needed() raises, whatever the error.
Unhealthy(c, o) ==
    /\ o \in Offered
    /\ \E family \in inPlay : o \in Members(family)
    /\ Want(c, o)
    /\ handed' = handed \cup {c}
    /\ UNCHANGED <<vars, cloudDid, cloudSaid>>

\* The adapter has only a placeholder for it.
NotImplementedLocally(c) ==
    /\ Want(c, Placeholder)
    /\ handed' = handed \cup {c}
    /\ UNCHANGED <<vars, cloudDid, cloudSaid>>

\* A call under way in the client goes on.
Local(c) ==
    /\ ClientNext(c)
    /\ UNCHANGED router

\* The cloud carries a call out on the gateway.
CloudActs(c) ==
    /\ AtCloud(c)
    /\ wanted[c] \in InCloud \cup {Placeholder}
    /\ c \notin cloudDid
    /\ cloudSaid[c] = "none"
    /\ cloudDid' = cloudDid \cup {c}
    /\ event' = CASE wanted[c] = "schedule" -> Others
                  [] wanted[c] = "cancel" -> NoCall
                  [] OTHER -> event
    /\ clean' = IF wanted[c] \in EventOps THEN {} ELSE clean
    /\ CASE wanted[c] = "dispatch" ->
              \E d \in DurationsOf("dispatch") :
                 setpoint' = [call |-> Others, until |-> now + d]
         [] wanted[c] = "resume" -> setpoint' = NoSetpoint
         [] OTHER -> UNCHANGED setpoint
    /\ CASE wanted[c] = "offGrid" -> contactor' = "open"
         [] wanted[c] = "reconnect" -> contactor' = "closed"
         [] wanted[c] = "otherMode" -> contactor' \in {"open", "closed"}
         [] OTHER -> UNCHANGED contactor
    /\ UNCHANGED <<now, inPlay, executed, wire, caller, endedAt, settled,
                   wanted, handed, cloudSaid, steady>>

\* The cloud answers.
CloudAnswers(c) ==
    /\ AtCloud(c)
    /\ cloudSaid[c] = "none"
    /\ cloudSaid' = [cloudSaid EXCEPT ![c] =
                        IF c \in cloudDid THEN "ok" ELSE "failed"]
    /\ UNCHANGED <<vars, wanted, handed, cloudDid, steady>>

\* What c's family writes is as it was.
Untouched(c) ==
    CASE wanted[c] \in Members("event") -> event' = event
      [] wanted[c] \in Members("setpoint") -> setpoint' = setpoint
      [] wanted[c] \in Members("contactor") -> contactor' = contactor
      [] OTHER -> TRUE

\* A request is the last one of a steady call: what the router may have had
\* done twice.
Repeats(m) == m.call \in steady /\ m.type = Final(op[m.call])

\* The gateway, the network, the clock, everybody else.
Surroundings ==
    /\ \/ \E m \in wire :
             /\ GatewayNext(m)
             /\ steady' = IF Straggles(m) /\ ~ Repeats(m)
                          THEN {c \in steady : Untouched(c)} ELSE steady
       \/ /\ Tick \/ Outside
          /\ steady' = {c \in steady : Untouched(c)}
    /\ UNCHANGED <<wanted, handed, cloudDid, cloudSaid>>

SiteNext ==
    \/ \E c \in Calls :
          \/ \E o \in Ops : \/ \E d \in Asked \cup {0} :
                                  Forward(c, o, d) \/ Direct(c, o, d)
                            \/ Unhealthy(c, o)
          \/ NotImplementedLocally(c)
          \/ Local(c)
          \/ CloudActs(c)
          \/ CloudAnswers(c)
    \/ Surroundings

SiteSpec == SiteInit /\ [][SiteNext]_siteVars

-----------------------------------------------------------------------------
(* Properties                                                              *)

\* A call is carried out both by the local path and by the cloud only when the
\* local one gave no answer at all: an error that names a reply is failed over
\* only if the gateway did nothing, "gave no usable answer".
TwiceOnlyUnanswered ==
    \A c \in cloudDid :
        c \in handed \/ Final(wanted[c]) \notin executed[c] \/ result[c] = "connection"

\* A call was carried out, on one path or on both.
CarriedOut(c) == c \in cloudDid \/ (op[c] # "none" /\ Final(op[c]) \in executed[c])

\* What it leaves in force.
InForce(c) == CASE wanted[c] = "schedule" -> event \in {c, Others}
                [] wanted[c] = "cancel" -> event = NoCall
                [] wanted[c] = "dispatch" -> setpoint.call \in {c, Others}
                [] wanted[c] = "resume" -> setpoint = NoSetpoint
                [] wanted[c] \in {"offGrid", "trigger"} -> contactor = "open"
                [] wanted[c] = "reconnect" -> contactor = "closed"
                [] OTHER -> TRUE

\* What a command has done, on one path or on both, stays in force until
\* another command of its family is asked for, somebody else acts, its time is
\* over, or a request that an earlier call had given up arrives: doing it twice
\* does no harm, and a late request of before can cross it for the life of a
\* signature and the lag after the end of its call, not later.
DoneStands ==
    \A c \in steady :
        CarriedOut(c) => InForce(c)

\* "falling through to the cloud when the local path is unavailable": a command
\* whose caller is told that it succeeded was carried out on some path, or is
\* still on its way.
UnavailableFallsThrough ==
    \A c \in Calls : Told(c) = "ok" =>
        CarriedOut(c) \/ \E m \in wire : m.call = c
=============================================================================
