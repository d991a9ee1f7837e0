----------------------------- MODULE ConfigStore ----------------------------
(***************************************************************************)
(* PowerwallClient.write_config: a read-modify-write of the whole          *)
(* config.json over two signed v1r requests, guarded only by the hash that *)
(* came with the read.  Calls of any number of tasks interleave at every   *)
(* await, the Tesla app and the cloud write the same file, requests and    *)
(* replies are lost, a signed update may reach the gateway after its       *)
(* caller gave up (its signature stays valid for some seconds), and every  *)
(* await may end in a timeout, a transport error or a cancellation.        *)
(*                                                                         *)
(* The gateway's hash is represented by the document it is the hash of.  A *)
(* hash that also covers a version accepts no more updates than this one.  *)
(***************************************************************************)
EXTENDS SiteConfig

CONSTANTS Calls,          \* the calls of write_config, by any task
          Asks,           \* the updates they may be given
          ForeignAsks,    \* the updates made by the Tesla app or the cloud
          FactoryConfigs  \* the documents the gateway may start from

ASSUME AsksAssumption == \A u \in Asks \cup ForeignAsks : IsUpdate(u)

ASSUME FactoryAssumption ==
    \A d \in FactoryConfigs : d \in Config /\ Stored(d) = d

VARIABLES config,   \* the document the gateway holds
          asked,    \* the update each call was given
          phase,    \* how far each call is
          wire,     \* the messages in flight between client and gateway
          applied   \* history: the calls whose update the gateway merged

vars == <<config, asked, phase, wire, applied>>

(***************************************************************************)
(* A call is "reading" while it awaits _read_filestore and "writing" from  *)
(* the moment it has computed the new document.  It ends "returned";       *)
(* "failed" when it raised before it posted the update or because the      *)
(* gateway refused it; "unknown" when it raised with the update posted and *)
(* no reply.                                                               *)
(***************************************************************************)
Ended  == {"returned", "failed", "unknown"}
Phases == {"new", "reading", "writing"} \cup Ended

ReadRequest(c) == [type |-> "readRequest", call |-> c]
ReadReply(c, document) ==
    [type |-> "readReply", call |-> c, blob |-> document, hash |-> document]
UpdateRequest(c, document, hash) ==
    [type |-> "updateRequest", call |-> c, blob |-> document, hash |-> hash]
UpdateReply(c, accepted) ==
    [type |-> "updateReply", call |-> c, accepted |-> accepted]

Messages ==
    [type : {"readRequest"}, call : Calls]
      \cup [type : {"readReply", "updateRequest"}, call : Calls,
            blob : Config, hash : Config]
      \cup [type : {"updateReply"}, call : Calls, accepted : BOOLEAN]

TypeOK == /\ config \in Config
          /\ asked \in [Calls -> Asks \cup {NoUpdate}]
          /\ phase \in [Calls -> Phases]
          /\ wire \subseteq Messages
          /\ applied \subseteq Calls

Init == /\ config \in FactoryConfigs
        /\ asked = [c \in Calls |-> NoUpdate]
        /\ phase = [c \in Calls |-> "new"]
        /\ wire = {}
        /\ applied = {}

-----------------------------------------------------------------------------
(* The client's steps, one per stretch of code between two awaits.         *)

\* write_config is called (the DIN is known) and posts the read.
Begin(c, u) ==
    /\ phase[c] = "new"
    /\ asked' = [asked EXCEPT ![c] = u]
    /\ phase' = [phase EXCEPT ![c] = "reading"]
    /\ wire' = wire \cup {ReadRequest(c)}
    /\ UNCHANGED <<config, applied>>

\* Mistakes for the runs to find: the update goes out under the hash the file
\* has by then, or under the hash of the new document.
SendUnderHash(m, hash) ==
    LET c == m.call
    IN  /\ m.type = "readReply"
        /\ phase' = [phase EXCEPT ![c] = "writing"]
        /\ wire' = (wire \ {m})
                     \cup {UpdateRequest(c, ApplyUpdates(m.blob, asked[c]), hash)}
        /\ UNCHANGED <<config, asked, applied>>

SendUnderFreshHash(m) == SendUnderHash(m, config)

SendUnderNewHash(m) == SendUnderHash(m, ApplyUpdates(m.blob, asked[m.call]))

\* The blob and its hash are back: merge, and post the whole document under
\* the hash that came with the blob.
SendUpdate(m) ==
    /\ m.type = "readReply"
    /\ phase' = [phase EXCEPT ![m.call] = "writing"]
    /\ wire' = (wire \ {m})
                 \cup {UpdateRequest(m.call,
                                     ApplyUpdates(m.blob, asked[m.call]),
                                     m.hash)}
    /\ UNCHANGED <<config, asked, applied>>

\* Mistakes for the runs to find: any reply is a success; a reply without a
\* payload is skipped.
FinishAnyReply(m) ==
    /\ m.type = "updateReply"
    /\ phase' = [phase EXCEPT ![m.call] = "returned"]
    /\ wire' = wire \ {m}
    /\ UNCHANGED <<config, asked, applied>>

FinishAcceptedOnly(m) == m.type = "updateReply" /\ m.accepted /\ FinishAnyReply(m)

\* The reply is a success only if it has a filestore payload.
Finish(m) ==
    /\ m.type = "updateReply"
    /\ phase' = [phase EXCEPT ![m.call] =
                    IF m.accepted THEN "returned" ELSE "failed"]
    /\ wire' = wire \ {m}
    /\ UNCHANGED <<config, asked, applied>>

\* A timeout, a transport error, an unusable reply or a cancellation.  What
\* was on its way to the client is gone, a posted update is not.
GiveUp(c) ==
    /\ phase[c] \in {"reading", "writing"}
    /\ phase' = [phase EXCEPT ![c] =
                    IF @ = "reading" THEN "failed" ELSE "unknown"]
    /\ wire' = {m \in wire : m.call # c \/ m.type = "updateRequest"}
    /\ UNCHANGED <<config, asked, applied>>

-----------------------------------------------------------------------------
(* The gateway's steps, and the network's.                                 *)

Answer(c, accepted) ==
    IF phase[c] = "writing" THEN {UpdateReply(c, accepted)} ELSE {}

GatewayRead(m) ==
    /\ m.type = "readRequest"
    /\ wire' = (wire \ {m}) \cup {ReadReply(m.call, config)}
    /\ UNCHANGED <<config, asked, phase, applied>>

GatewayAccept(m) ==
    /\ m.type = "updateRequest"
    /\ m.hash = config
    /\ config' = Stored(m.blob)
    /\ applied' = applied \cup {m.call}
    /\ wire' = (wire \ {m}) \cup Answer(m.call, TRUE)
    /\ UNCHANGED <<asked, phase>>

\* The hash is out of date, or the gateway refuses for another reason.
GatewayRefuse(m) ==
    /\ m.type = "updateRequest"
    /\ wire' = (wire \ {m}) \cup Answer(m.call, FALSE)
    /\ UNCHANGED <<config, asked, phase, applied>>

\* A message is lost, or an update reaches the gateway with an expired
\* signature.
Lose(m) ==
    /\ wire' = wire \ {m}
    /\ UNCHANGED <<config, asked, phase, applied>>

\* Another client of the gateway changes the file.
Foreign(u) ==
    /\ config' = Stored(ApplyUpdates(config, u))
    /\ UNCHANGED <<asked, phase, wire, applied>>

-----------------------------------------------------------------------------
Next == \/ \E c \in Calls, u \in Asks : Begin(c, u)
        \/ \E c \in Calls : GiveUp(c)
        \/ \E m \in wire : \/ SendUpdate(m)
                           \/ Finish(m)
                           \/ GatewayRead(m)
                           \/ GatewayAccept(m)
                           \/ GatewayRefuse(m)
                           \/ Lose(m)
        \/ \E u \in ForeignAsks : Foreign(u)

Spec == Init /\ [][Next]_vars

(***************************************************************************)
(* The same client when the environment is kind: nothing is lost, nobody   *)
(* gives up, no one else writes, and the gateway refuses only an update    *)
(* whose hash is out of date.  Every enabled step is eventually taken.     *)
(***************************************************************************)
Conflict(m) == m.hash # config /\ GatewayRefuse(m)

KindNext == \/ \E c \in Calls, u \in Asks : Begin(c, u)
            \/ \E m \in wire : \/ SendUpdate(m)
                               \/ Finish(m)
                               \/ GatewayRead(m)
                               \/ GatewayAccept(m)
                               \/ m.type = "updateRequest" /\ Conflict(m)

KindSpec == Init /\ [][KindNext]_vars /\ WF_vars(KindNext)

-----------------------------------------------------------------------------
(* Properties                                                              *)

\* What the caller is told is true: a call that returned was applied, and a
\* call that failed before posting, or on a refusal, was not and never will
\* be, whatever is still in flight.
OutcomeIsTrue ==
    \A c \in Calls :
        /\ phase[c] = "returned" => c \in applied
        /\ phase[c] = "failed" =>
             /\ c \notin applied
             /\ \A m \in wire : m.call # c

\* Why it is true, as an inductive invariant: a call has at most one message
\* in flight, of the kind its phase awaits or the update it left behind; an
\* update in flight is not yet applied and is the merge of what was asked into
\* the document its hash stands for; a reply reports what happened.
MessagesFit ==
    \A m \in wire :
        /\ m.type \in {"readRequest", "readReply"} => phase[m.call] = "reading"
        /\ m.type = "readReply" => m.blob = m.hash
        /\ m.type = "updateRequest" =>
             /\ phase[m.call] \in {"writing", "unknown"}
             /\ m.call \notin applied
             /\ m.blob = ApplyUpdates(m.hash, asked[m.call])
        /\ m.type = "updateReply" =>
             /\ phase[m.call] = "writing"
             /\ m.accepted <=> m.call \in applied

OneMessagePerCall == \A m, n \in wire : m.call = n.call => m = n

AppliedFits == \A c \in Calls : phase[c] \in {"new", "reading"} => c \notin applied

\* The gateway never holds a flag that is false.
FalseFlagsDropped == Stored(config) = config

StoreInv == /\ TypeOK
            /\ FalseFlagsDropped
            /\ MessagesFit
            /\ OneMessagePerCall
            /\ AppliedFits
            /\ OutcomeIsTrue

\* When the gateway merges a call's update, the settings the call did not
\* name keep the value they have at that moment, including what another
\* task or the app wrote since the call read the file.
OthersSettingsSurvive ==
    [][ applied' # applied =>
          \A k \in Keys : config'[k] # config[k] =>
              \E c \in applied' \ applied : k \in DOMAIN asked[c] ]_vars

\* Every call is one atomic merge at one moment: ConfigStore implements
\* ConfigRegister.
Register == INSTANCE ConfigRegister
    WITH outcome <- [c \in Calls |-> IF phase[c] \in {"reading", "writing"}
                                     THEN "open" ELSE phase[c]]

AtomicMerge == Register!Spec

\* In a kind environment the optimistic lock costs no progress: a call loses
\* the race only to a call that won it, so of any number of racing calls at
\* least one is applied.
LoserHasWinner ==
    \A c \in Calls : phase[c] = "failed" =>
        \E d \in applied : d # c

\* Why: what a call has read is out of date only if another call was applied,
\* and only then is it refused.
StaleHasWinner ==
    \A m \in wire :
        \/ m.type \in {"readReply", "updateRequest"} /\ m.hash # config
        \/ m.type = "updateReply" /\ ~ m.accepted
        => \E d \in applied : d # m.call

\* In a kind environment every call ends, with an answer from the gateway.
EveryCallEnds ==
    \A c \in Calls : phase[c] = "reading" ~> phase[c] \in {"returned", "failed"}

=============================================================================
