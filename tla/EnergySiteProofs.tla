--------------------------- MODULE EnergySiteProofs -------------------------
(***************************************************************************)
(* Proofs about the commands behind an energy router: the router and the   *)
(* cloud are, to the commands, somebody else; and what the router's caller *)
(* is told holds for any number of calls.                                  *)
(***************************************************************************)
EXTENDS EnergySite, CommandsProofs

\* A call is the client's own unless it was handed over; the cloud acts on the
\* ones it was asked for, and says so only then.
WantsFit ==
    \A c \in Calls :
        /\ op[c] # "none" => wanted[c] = op[c] /\ c \notin handed
        /\ wanted[c] = "none" => c \notin handed /\ cloudSaid[c] = "none"
        /\ wanted[c] # "none" /\ c \notin handed => op[c] = wanted[c]
        /\ wanted[c] \in Ops => \E family \in inPlay : wanted[c] \in Members(family)
        /\ c \in cloudDid => AtCloud(c)
        /\ cloudSaid[c] = "ok" => c \in cloudDid

\* While a call is steady no other one of its family is under way, and what it
\* has done is in force.
SteadyFit ==
    \A c \in steady :
        /\ wanted[c] # "none"
        /\ \A d \in Calls \ {c} : SameFamily(wanted[d], wanted[c]) =>
              Told(d) # "none" /\ d \notin steady
        /\ CarriedOut(c) => InForce(c)

SiteInv == CommandsInv /\ SiteTypeOK /\ WantsFit /\ SteadyFit

-----------------------------------------------------------------------------
(* Facts.                                                                  *)

LEMMA FamilyFacts ==
    /\ Members("event") = {"schedule", "cancel"}
    /\ Members("setpoint") = {"dispatch", "resume"}
    /\ Members("contactor") = {"offGrid", "reconnect", "otherMode", "trigger"}
    /\ Members("other") = {"remove", "configure"}
    /\ Placeholder \notin Ops \cup {"none"}
    /\ InCloud \subseteq Offered /\ Offered \subseteq Ops
    /\ InCloud = {"schedule", "cancel", "dispatch", "resume", "offGrid", "reconnect",
                  "otherMode"}
    /\ \A family \in Families : \A o \in Members(family) : o \in Ops
    /\ \A family \in Families : \A o \in Members(family) :
          /\ o \in Members("event") => family = "event"
          /\ o \in Members("setpoint") => family = "setpoint"
          /\ o \in Members("contactor") => family = "contactor"
    /\ \A o, p : SameFamily(o, p) <=> \/ {o, p} \subseteq Members("event")
                                      \/ {o, p} \subseteq Members("setpoint")
                                      \/ {o, p} \subseteq Members("contactor")
                                      \/ {o, p} \subseteq Members("other")
  <1>1. /\ Members("event") = {"schedule", "cancel"}
        /\ Members("setpoint") = {"dispatch", "resume"}
        /\ Members("contactor") = {"offGrid", "reconnect", "otherMode", "trigger"}
        /\ Members("other") = {"remove", "configure"}
    BY DEF Members
  <1>2. Placeholder \notin Ops \cup {"none"}
    BY OpFacts DEF Placeholder
  <1>3. /\ InCloud \subseteq Offered /\ Offered \subseteq Ops
        /\ InCloud = {"schedule", "cancel", "dispatch", "resume", "offGrid", "reconnect",
                      "otherMode"}
    BY OpFacts DEF InCloud, Offered
  <1>4. \A family \in Families : \A o \in Members(family) : o \in Ops
    BY <1>1, OpFacts DEF Families
  <1>5. \A family \in Families : \A o \in Members(family) :
          /\ o \in Members("event") => family = "event"
          /\ o \in Members("setpoint") => family = "setpoint"
          /\ o \in Members("contactor") => family = "contactor"
    BY <1>1 DEF Families
  <1>6. \A o, p : SameFamily(o, p) <=> \/ {o, p} \subseteq Members("event")
                                      \/ {o, p} \subseteq Members("setpoint")
                                      \/ {o, p} \subseteq Members("contactor")
                                      \/ {o, p} \subseteq Members("other")
    BY DEF SameFamily, Families
  <1> QED
    BY <1>1, <1>2, <1>3, <1>4, <1>5, <1>6

\* The last request of each operation.
LEMMA FinalFacts ==
    /\ Final("schedule") = "scheduleEvent" /\ Final("cancel") = "cancelEvent"
    /\ Final("dispatch") = "dispatch" /\ Final("resume") = "resume"
    /\ Final("offGrid") = "open" /\ Final("reconnect") = "close"
    /\ Final("otherMode") = "otherMode"
    /\ Final("trigger") = "blackStart" /\ Final("remove") = "removeKey"
    /\ Final("configure") = "configure"
  BY DEF Final, Requests

\* A step of a call under way: nothing of the gateway moves.
LEMMA ClientStep ==
    ASSUME CommandsInv, NEW c \in Calls, ClientNext(c)
    PROVE  /\ now' = now /\ inPlay' = inPlay /\ op' = op /\ executed' = executed
           /\ event' = event /\ setpoint' = setpoint /\ contactor' = contactor
           /\ Open(c)
           /\ \A x \in Calls \ {c} : result'[x] = result[x]
  <1>1. CASE Post(c)
    <2>1. stage[c] = "post" /\ UNCHANGED <<now, inPlay, gateway, op, result>>
      BY <1>1 DEF Post
    <2> QED
      BY <1>1, <2>1 DEF CommandsInv, CallsFit, gateway
  <1>2. CASE Answered(c) \/ Fails(c) \/ TimesOut(c) \/ Cancel(c)
             \/ \E e \in ConnectErrors : ConnectFails(c, e)
    <2>1. UNCHANGED <<now, inPlay, wire, gateway, op>>
      BY <1>2 DEF Answered, Fails, TimesOut, Cancel, ConnectFails
    <2>2. Open(c)
      BY <1>2 DEF Answered, Fails, TimesOut, Cancel, ConnectFails, CommandsInv, CallsFit
    <2>3. \E how : result' = [result EXCEPT ![c] = how]
      <3>1. (\E how : End(c, how)) \/ Advance(c)
        BY <1>2 DEF Answered, Fails, TimesOut, Cancel, ConnectFails
      <3>2. result = [result EXCEPT ![c] = result[c]]
        BY DEF CommandsInv, TypeOK
      <3> QED
        BY <3>1, <3>2 DEF Advance, End
    <2>4. \A x \in Calls \ {c} : result'[x] = result[x]
      BY <2>3 DEF CommandsInv, TypeOK
    <2> QED
      BY <2>1, <2>2, <2>4 DEF gateway
  <1> QED
    BY <1>1, <1>2 DEF ClientNext

LEMMA GatewayStep ==
    ASSUME NEW m \in wire, GatewayNext(m)
    PROVE  /\ now' = now /\ inPlay' = inPlay /\ op' = op /\ result' = result
           /\ \/ UNCHANGED gateway
              \/ \E how \in {"done"} \cup Unusable : Execute(m, how)
  <1>1. CASE \E how \in {"done"} \cup (Mishaps \cap Unusable) : Execute(m, how)
    BY <1>1 DEF Execute
  <1>2. CASE \E how \in Mishaps : Refuse(m, how)
    BY <1>2 DEF Refuse
  <1>3. CASE Lose(m)
    BY <1>3 DEF Lose, caller
  <1> QED
    BY <1>1, <1>2, <1>3 DEF GatewayNext

-----------------------------------------------------------------------------
(* Behind the router nothing happens that the commands do not allow for.   *)

LEMMA SiteImplements ==
    ASSUME SiteInv, [SiteNext]_siteVars
    PROVE  [Next]_vars
  <1>1. ASSUME NEW c \in Calls, NEW o \in Ops, NEW d \in Asked \cup {0}, Forward(c, o, d)
        PROVE  Next
    BY <1>1 DEF Forward, Next
  <1>9. ASSUME NEW c \in Calls, NEW o \in Ops, NEW d \in Asked \cup {0}, Direct(c, o, d)
        PROVE  Next
    BY <1>9 DEF Direct, Next
  <1>2. ASSUME NEW c \in Calls, NEW o \in Ops, Unhealthy(c, o)
        PROVE  UNCHANGED vars
    BY <1>2 DEF Unhealthy
  <1>3. ASSUME NEW c \in Calls, NotImplementedLocally(c)
        PROVE  UNCHANGED vars
    BY <1>3 DEF NotImplementedLocally
  <1>4. ASSUME NEW c \in Calls, Local(c)
        PROVE  Next
    BY <1>4 DEF Local, Next
  <1>5. ASSUME NEW c \in Calls, CloudActs(c)
        PROVE  [Next]_vars
    <2>1. /\ now' = now /\ inPlay' = inPlay /\ executed' = executed /\ wire' = wire
          /\ UNCHANGED caller /\ endedAt' = endedAt /\ settled' = settled
      BY <1>5 DEF CloudActs
    <2>2. wanted[c] \in InCloud \cup {Placeholder} /\ inPlay \subseteq Families
      BY <1>5 DEF CloudActs, SiteInv, SiteTypeOK, TypeOK
    <2>3. wanted[c] \in Ops => \E family \in inPlay : wanted[c] \in Members(family)
      BY DEF SiteInv, WantsFit
    <2>4. CASE wanted[c] \in {"schedule", "cancel"}
      <3>1. "event" \in inPlay
        BY <2>2, <2>3, <2>4, FamilyFacts, OpFacts
      <3>2. event' \in {NoCall, Others} /\ clean' = {}
        BY <1>5, <2>4, OpFacts DEF CloudActs
      <3>3. setpoint' = setpoint /\ contactor' = contactor
        BY <1>5, <2>4 DEF CloudActs
      <3> QED
        BY <2>1, <3>1, <3>2, <3>3 DEF Next, Outside
    <2>5. CASE wanted[c] \in {"dispatch", "resume"}
      <3>1. "setpoint" \in inPlay
        BY <2>2, <2>3, <2>5, FamilyFacts, OpFacts
      <3>2. event' = event /\ clean' = clean /\ contactor' = contactor
        BY <1>5, <2>5, OpFacts DEF CloudActs
      <3>3. setpoint' \in {NoSetpoint} \cup {[call |-> Others, until |-> now + d] :
                                               d \in DurationsOf("dispatch")}
        BY <1>5, <2>5 DEF CloudActs
      <3> QED
        BY <2>1, <3>1, <3>2, <3>3 DEF Next, Outside, history
    <2>6. CASE wanted[c] \in {"offGrid", "reconnect", "otherMode"}
      <3>1. "contactor" \in inPlay
        BY <2>2, <2>3, <2>6, FamilyFacts, OpFacts
      <3>2. event' = event /\ clean' = clean /\ setpoint' = setpoint
        BY <1>5, <2>6, OpFacts DEF CloudActs
      <3>3. contactor' \in {"open", "closed"}
        BY <1>5, <2>6 DEF CloudActs
      <3> QED
        BY <2>1, <3>1, <3>2, <3>3 DEF Next, Outside, history
    <2>7. CASE wanted[c] = Placeholder
      <3>1. event' = event /\ clean' = clean /\ setpoint' = setpoint /\ contactor' = contactor
        BY <1>5, <2>7, OpFacts DEF CloudActs, Placeholder
      <3> QED
        BY <2>1, <3>1 DEF vars, gateway, history
    <2> QED
      BY <2>2, <2>4, <2>5, <2>6, <2>7, FamilyFacts
  <1>6. ASSUME NEW c \in Calls, CloudAnswers(c)
        PROVE  UNCHANGED vars
    BY <1>6 DEF CloudAnswers
  <1>7. CASE Surroundings
    BY <1>7 DEF Surroundings, Next
  <1>8. CASE UNCHANGED siteVars
    BY <1>8 DEF siteVars
  <1> QED
    BY <1>1, <1>2, <1>3, <1>4, <1>5, <1>6, <1>7, <1>8, <1>9 DEF SiteNext

-----------------------------------------------------------------------------
(* The invariant, one lemma per kind of step.                              *)

\* A call that has an answer is not under way, here or at the cloud.
LEMMA ToldIsOver ==
    ASSUME SiteInv, NEW c \in Calls
    PROVE  /\ Told(c) = "none" <=> \/ AtCloud(c) /\ cloudSaid[c] = "none"
                                   \/ ~ AtCloud(c) /\ result[c] = "none"
           /\ Open(c) => Told(c) = "none" /\ ~ AtCloud(c)
           /\ wanted[c] = "none" => /\ op[c] = "none" /\ result[c] = "none"
                                    /\ executed[c] = {}
                                    /\ c \notin handed /\ c \notin cloudDid
                                    /\ cloudSaid[c] = "none"
           /\ AtCloud(c) => wanted[c] # "none"
           /\ op[c] = "none" => result[c] = "none" /\ executed[c] = {}
  <1>1. /\ op[c] \in Ops \cup {"none"} /\ "none" \notin Ops /\ "none" \notin FailoverSafe
        /\ op[c] = "none" => result[c] = "none" /\ executed[c] = {}
    BY OpFacts DEF SiteInv, CommandsInv, TypeOK, CallsFit, FailoverSafe
  <1>2. WantsFit!(c)
    BY DEF SiteInv, WantsFit
  <1> QED
    BY <1>1, <1>2 DEF Told, AtCloud, Open

\* What is in force stays so as long as nobody touches it.
LEMMA ForceUntouched ==
    ASSUME NEW c, wanted'[c] = wanted[c], Untouched(c), InForce(c)
    PROVE  InForce(c)'
  BY FamilyFacts DEF InForce, Untouched

\* So does what a call that has done nothing more left.
LEMMA StandsUntouched ==
    ASSUME NEW c, wanted'[c] = wanted[c], Untouched(c), op'[c] = op[c],
           executed'[c] = executed[c], c \in cloudDid' => c \in cloudDid,
           CarriedOut(c) => InForce(c)
    PROVE  (CarriedOut(c) => InForce(c))'
  <1>1. CarriedOut(c)' => CarriedOut(c)
    BY DEF CarriedOut
  <1> QED
    BY <1>1, ForceUntouched

\* The client or the cloud is asked for something: its family's steady calls
\* give way, and it becomes steady itself if none of them is under way.
LEMMA WantFits ==
    ASSUME SiteInv, NEW c \in Calls, NEW o \in Ops \cup {Placeholder}, Want(c, o),
           UNCHANGED <<event, setpoint, contactor, executed, cloudDid, cloudSaid>>,
           \A x \in Calls \ {c} : Told(x)' = Told(x) /\ op'[x] = op[x]
    PROVE  /\ wanted' \in [Calls -> Ops \cup {"none", Placeholder}]
           /\ steady' \subseteq Calls
           /\ SteadyFit'
  <1> DEFINE Family == {x \in Calls : SameFamily(wanted[x], o)}
  <1>1. /\ wanted[c] = "none" /\ wanted' = [wanted EXCEPT ![c] = o]
        /\ steady' = (steady \ Family) \cup
                     IF \A x \in Family : Told(x) # "none" THEN {c} ELSE {}
    BY DEF Want
  <1>2. /\ \A x \in Calls \ {c} : wanted'[x] = wanted[x]
        /\ wanted'[c] = o
        /\ wanted' \in [Calls -> Ops \cup {"none", Placeholder}]
        /\ steady \subseteq Calls /\ steady' \subseteq Calls
    BY <1>1 DEF SiteInv, SiteTypeOK
  <1>3. c \notin steady
    BY <1>1 DEF SiteInv, SteadyFit
  <1>4. executed[c] = {} /\ c \notin cloudDid
    BY <1>1, ToldIsOver
  <1>5. o # "none"
    BY OpFacts, FamilyFacts
  <1>6. \A p, q : SameFamily(p, q) <=> SameFamily(q, p)
    BY DEF SameFamily
  <1>7. ASSUME NEW x \in steady', x # c
        PROVE  SteadyFit!(x)'
    <2>1. x \in steady /\ x \in Calls /\ ~ SameFamily(wanted[x], o) /\ SteadyFit!(x)
      BY <1>1, <1>2, <1>7 DEF SiteInv, SteadyFit
    <2>2. \A d \in Calls \ {x} : SameFamily(wanted'[d], wanted'[x]) =>
             d # c /\ Told(d)' # "none" /\ d \notin steady'
      BY <1>1, <1>2, <1>6, <1>7, <2>1
    <2>3. Untouched(x)
      BY DEF Untouched
    <2> QED
      BY <1>2, <1>7, <2>1, <2>2, <2>3, StandsUntouched
  <1>8. ASSUME c \in steady'
        PROVE  SteadyFit!(c)'
    <2>1. \A x \in Family : Told(x) # "none"
      BY <1>1, <1>3, <1>8
    <2>2. \A d \in Calls \ {c} : SameFamily(wanted'[d], wanted'[c]) =>
             Told(d)' # "none" /\ d \notin steady'
      BY <1>1, <1>2, <2>1
    <2>3. ~ CarriedOut(c)'
      BY <1>4 DEF CarriedOut
    <2> QED
      BY <1>2, <1>5, <2>2, <2>3
  <1> QED
    BY <1>2, <1>7, <1>8 DEF SteadyFit

\* The router, or a caller of its own, gives a call to the client.
LEMMA CallFits ==
    ASSUME SiteInv, NEW c \in Calls, NEW o \in Ops, NEW d \in Asked \cup {0},
           Want(c, o), Call(c, o, d), UNCHANGED <<handed, cloudDid, cloudSaid>>
    PROVE  SiteTypeOK' /\ WantsFit' /\ SteadyFit'
  <1>1. CommandsInv'
    BY CallInv DEF SiteInv
  <1>2. /\ wanted[c] = "none" /\ wanted' = [wanted EXCEPT ![c] = o]
        /\ op' = [op EXCEPT ![c] = o]
        /\ \E family \in inPlay : o \in Members(family)
        /\ UNCHANGED <<handed, cloudDid, cloudSaid, inPlay, event, setpoint, contactor,
                       executed, result>>
    BY DEF Want, Call, gateway
  <1>3. /\ \A x \in Calls \ {c} : wanted'[x] = wanted[x] /\ op'[x] = op[x]
        /\ wanted'[c] = o /\ op'[c] = o
    BY <1>2 DEF SiteInv, SiteTypeOK, TypeOK
  <1>4. /\ op[c] = "none" /\ result[c] = "none"
        /\ c \notin handed /\ c \notin cloudDid /\ cloudSaid[c] = "none"
    BY <1>2, ToldIsOver
  <1>5. \A x \in Calls \ {c} : Told(x)' = Told(x)
    BY <1>2, <1>3 DEF Told, AtCloud
  <1>6. wanted' \in [Calls -> Ops \cup {"none", Placeholder}] /\ steady' \subseteq Calls
        /\ SteadyFit'
    BY <1>2, <1>3, <1>5, WantFits
  <1>7. SiteTypeOK'
    BY <1>1, <1>2, <1>6 DEF SiteInv, SiteTypeOK, CommandsInv
  <1>8. WantsFit'
    BY <1>2, <1>3, <1>4, OpFacts DEF SiteInv, WantsFit, AtCloud, FailoverSafe
  <1> QED
    BY <1>6, <1>7, <1>8

\* A call is given to the cloud at once.
LEMMA HandedFits ==
    ASSUME SiteInv, NEW c \in Calls, NEW o \in Ops \cup {Placeholder},
           o \in Ops => \E family \in inPlay : o \in Members(family),
           Want(c, o), handed' = handed \cup {c},
           UNCHANGED <<vars, cloudDid, cloudSaid>>
    PROVE  SiteTypeOK' /\ WantsFit' /\ SteadyFit'
  <1>1. UNCHANGED <<inPlay, now, wire, event, setpoint, contactor, executed>>
    BY DEF vars, gateway
  <1>2. UNCHANGED <<op, duration, todo, stage, answer, result, endedAt, settled, clean>>
    BY DEF vars, caller, history
  <1>3. /\ wanted[c] = "none" /\ wanted' = [wanted EXCEPT ![c] = o]
        /\ \A x \in Calls \ {c} : wanted'[x] = wanted[x]
        /\ wanted'[c] = o
    BY DEF Want, SiteInv, SiteTypeOK
  <1>4. /\ op[c] = "none" /\ result[c] = "none"
        /\ c \notin cloudDid /\ cloudSaid[c] = "none"
    BY <1>3, ToldIsOver
  <1>5. \A x \in Calls \ {c} : Told(x)' = Told(x)
    BY <1>2, <1>3 DEF Told, AtCloud
  <1>6. wanted' \in [Calls -> Ops \cup {"none", Placeholder}] /\ steady' \subseteq Calls
        /\ SteadyFit'
    BY <1>1, <1>2, <1>5, WantFits
  <1>7. SiteTypeOK'
    <2>1. TypeOK'
      BY <1>1, <1>2 DEF SiteInv, SiteTypeOK, TypeOK
    <2> QED
      BY <1>6, <2>1 DEF SiteInv, SiteTypeOK
  <1>8. WantsFit'
    BY <1>1, <1>2, <1>3, <1>4, OpFacts, FamilyFacts DEF SiteInv, WantsFit, AtCloud
  <1> QED
    BY <1>6, <1>7, <1>8

\* The client goes on with a call.
LEMMA LocalFits ==
    ASSUME SiteInv, NEW c \in Calls, Local(c)
    PROVE  SiteTypeOK' /\ WantsFit' /\ SteadyFit'
  <1>1. /\ now' = now /\ inPlay' = inPlay /\ op' = op /\ executed' = executed
        /\ event' = event /\ setpoint' = setpoint /\ contactor' = contactor
        /\ Open(c)
        /\ \A x \in Calls \ {c} : result'[x] = result[x]
    BY ClientStep DEF SiteInv, Local
  <1>2. UNCHANGED <<wanted, handed, cloudDid, cloudSaid, steady>>
    BY DEF Local, router
  <1>3. Told(c) = "none" /\ ~ AtCloud(c)
    BY <1>1, ToldIsOver
  <1>4. c \notin cloudDid
    BY <1>3 DEF SiteInv, WantsFit
  <1>5. SiteTypeOK'
    <2>1. TypeOK'
      BY ClientNextInv DEF SiteInv, Local, CommandsInv
    <2> QED
      BY <1>2, <2>1 DEF SiteInv, SiteTypeOK
  <1>6. WantsFit'
    BY <1>1, <1>2, <1>4 DEF SiteInv, WantsFit, AtCloud
  <1>7. SteadyFit'
    <2>1. \A x \in Calls : Told(x) # "none" => Told(x)' # "none"
      BY <1>1, <1>2, <1>3 DEF Told, AtCloud
    <2> SUFFICES ASSUME NEW x \in steady
                 PROVE  SteadyFit!(x)'
      BY <1>2 DEF SteadyFit
    <2>2. SteadyFit!(x) /\ Untouched(x)
      BY <1>1 DEF SiteInv, SteadyFit, Untouched
    <2> QED
      BY <1>1, <1>2, <2>1, <2>2, StandsUntouched
  <1> QED
    BY <1>5, <1>6, <1>7

\* The cloud carries a call out.
LEMMA CloudActsFits ==
    ASSUME SiteInv, NEW c \in Calls, CloudActs(c)
    PROVE  SiteTypeOK' /\ WantsFit' /\ SteadyFit'
  <1>1. /\ AtCloud(c) /\ cloudSaid[c] = "none"
        /\ wanted[c] \in InCloud \cup {Placeholder}
        /\ cloudDid' = cloudDid \cup {c}
        /\ UNCHANGED <<now, inPlay, executed, wire, caller, wanted, handed, cloudSaid,
                       steady>>
    BY DEF CloudActs
  <1>2. op' = op /\ result' = result
    BY <1>1 DEF caller
  <1>3. Told(c) = "none"
    BY <1>1, ToldIsOver
  <1>4. SiteTypeOK'
    <2>1. [SiteNext]_siteVars
      BY DEF SiteNext
    <2>2. [Next]_vars
      BY <2>1, SiteImplements
    <2>3. TypeOK'
      BY <2>2, StepInv DEF SiteInv, CommandsInv
    <2> QED
      BY <1>1, <2>3 DEF SiteInv, SiteTypeOK
  <1>5. WantsFit'
    BY <1>1, <1>2 DEF SiteInv, WantsFit, AtCloud
  <1>6. SteadyFit'
    <2> SUFFICES ASSUME NEW x \in steady
                 PROVE  SteadyFit!(x)'
      BY <1>1 DEF SteadyFit
    <2>1. SteadyFit!(x) /\ x \in Calls
      BY DEF SiteInv, SteadyFit, SiteTypeOK
    <2>2. \A d \in Calls : Told(d)' = Told(d)
      BY <1>1, <1>2 DEF Told, AtCloud
    <2>3. /\ wanted[c] \in {"schedule", "cancel"} \/ event' = event
          /\ wanted[c] \in {"dispatch", "resume"} \/ setpoint' = setpoint
          /\ wanted[c] \in {"offGrid", "reconnect", "otherMode"}
                \/ contactor' = contactor
      BY DEF CloudActs
    <2>4. CASE x = c
      <3>1. /\ wanted[c] = "schedule" => event' = Others
            /\ wanted[c] = "cancel" => event' = NoCall
            /\ wanted[c] = "offGrid" => contactor' = "open"
            /\ wanted[c] = "reconnect" => contactor' = "closed"
        BY DEF CloudActs
      <3>2. /\ wanted[c] = "dispatch" => setpoint'.call = Others
            /\ wanted[c] = "resume" => setpoint' = NoSetpoint
        BY DEF CloudActs
      <3>3. wanted[c] # "trigger"
        BY <1>1, FamilyFacts, OpFacts
      <3>4. InForce(c)'
        BY <1>1, <3>1, <3>2, <3>3 DEF InForce, NoSetpoint
      <3> QED
        BY <1>1, <2>1, <2>2, <2>4, <3>4
    <2>5. CASE x # c
      <3>1. ~ SameFamily(wanted[c], wanted[x])
        BY <1>3, <2>1, <2>5
      <3>2. Untouched(x)
        BY <2>3, <3>1, FamilyFacts DEF Untouched
      <3> QED
        BY <1>1, <1>2, <2>1, <2>2, <2>5, <3>2, StandsUntouched
    <2> QED
      BY <2>4, <2>5
  <1> QED
    BY <1>4, <1>5, <1>6

LEMMA CloudAnswersFits ==
    ASSUME SiteInv, NEW c \in Calls, CloudAnswers(c)
    PROVE  SiteTypeOK' /\ WantsFit' /\ SteadyFit'
  <1>1. /\ AtCloud(c)
        /\ cloudSaid' = [cloudSaid EXCEPT ![c] = IF c \in cloudDid THEN "ok" ELSE "failed"]
        /\ UNCHANGED <<vars, wanted, handed, cloudDid, steady>>
    BY DEF CloudAnswers
  <1>2. UNCHANGED <<inPlay, now, wire, event, setpoint, contactor, executed>>
    BY <1>1 DEF vars, gateway
  <1>3. UNCHANGED <<op, duration, todo, stage, answer, result, endedAt, settled, clean>>
    BY <1>1 DEF vars, caller, history
  <1>4. /\ \A x \in Calls \ {c} : cloudSaid'[x] = cloudSaid[x]
        /\ cloudSaid'[c] = IF c \in cloudDid THEN "ok" ELSE "failed"
        /\ cloudSaid' \in [Calls -> {"none", "ok", "failed"}]
    BY <1>1 DEF SiteInv, SiteTypeOK
  <1>5. SiteTypeOK'
    <2>1. TypeOK'
      BY <1>2, <1>3 DEF SiteInv, SiteTypeOK, TypeOK
    <2> QED
      BY <1>1, <1>4, <2>1 DEF SiteInv, SiteTypeOK
  <1>6. wanted[c] # "none"
    BY <1>1, ToldIsOver
  <1>7. WantsFit'
    BY <1>1, <1>2, <1>3, <1>4, <1>6 DEF SiteInv, WantsFit, AtCloud
  <1>8. SteadyFit'
    <2>1. \A x \in Calls : Told(x) # "none" => Told(x)' # "none"
      BY <1>1, <1>3, <1>4 DEF Told, AtCloud
    <2> SUFFICES ASSUME NEW x \in steady
                 PROVE  SteadyFit!(x)'
      BY <1>1 DEF SteadyFit
    <2>2. SteadyFit!(x) /\ Untouched(x)
      BY <1>2 DEF SiteInv, SteadyFit, Untouched
    <2> QED
      BY <1>1, <1>2, <1>3, <2>1, <2>2, StandsUntouched
  <1> QED
    BY <1>5, <1>7, <1>8

\* A request touches what its family writes and nothing else.
LEMMA ExecuteTouches ==
    ASSUME SiteInv, NEW m \in wire, NEW how, Execute(m, how), wanted' = wanted
    PROVE  /\ m.call \in Calls /\ op[m.call] \in Ops /\ wanted[m.call] = op[m.call]
           /\ m.type \in TypesOf(op[m.call])
           /\ op[m.call] \in {"schedule", "cancel"} \/ event' = event
           /\ op[m.call] \in {"dispatch", "resume"} \/ setpoint' = setpoint
           /\ op[m.call] \in Members("contactor") \/ contactor' = contactor
           /\ m.type = Final(op[m.call]) => InForce(m.call)'
  <1>1. /\ m.call \in Calls /\ op[m.call] \in Ops /\ m.type \in TypesOf(op[m.call])
    BY InFlight DEF SiteInv
  <1>2. wanted[m.call] = op[m.call]
    BY <1>1, OpFacts DEF SiteInv, WantsFit
  <1>3. \A o \in Ops :
           /\ o \notin {"schedule", "cancel"} =>
                 TypesOf(o) \cap {"scheduleEvent", "cancelEvent"} = {}
           /\ o \notin {"dispatch", "resume"} => TypesOf(o) \cap {"dispatch", "resume"} = {}
           /\ o \notin Members("contactor") =>
                 TypesOf(o) \cap {"open", "close", "otherMode", "blackStart"} = {}
    BY OpFacts, FinalFacts, FamilyFacts DEF TypesOf
  <1>4. /\ event' = IF m.type = "cancelEvent" THEN NoCall
                    ELSE IF m.type = "scheduleEvent" THEN m.call ELSE event
        /\ m.type \notin {"dispatch", "resume"} => setpoint' = setpoint
        /\ m.type = "dispatch" => setpoint'.call = m.call
        /\ m.type = "resume" => setpoint' = NoSetpoint
    BY DEF Execute
  <1>5. /\ m.type \in {"open", "blackStart"} => contactor' = "open"
        /\ m.type = "close" => contactor' = "closed"
        /\ m.type \notin {"open", "close", "otherMode", "blackStart"} =>
              contactor' = contactor
    BY DEF Execute
  <1>6. ASSUME m.type = Final(op[m.call])
        PROVE  InForce(m.call)'
    BY <1>1, <1>2, <1>4, <1>5, <1>6, OpFacts, FinalFacts DEF InForce
  <1> QED
    BY <1>1, <1>2, <1>3, <1>4, <1>5, <1>6

\* A request is carried out: a call of its family that is steady is its own.
LEMMA ExecuteFits ==
    ASSUME SiteInv, NEW m \in wire, NEW how, Execute(m, how), wanted' = wanted,
           cloudDid' = cloudDid, handed' = handed, cloudSaid' = cloudSaid,
           steady' = IF Straggles(m) /\ ~ Repeats(m)
                     THEN {c \in steady : Untouched(c)} ELSE steady
    PROVE  SteadyFit'
  <1> DEFINE o == m.call
  <1>1. /\ o \in Calls /\ op[o] \in Ops /\ wanted[o] = op[o]
        /\ op[o] \in Members("event") \/ event' = event
        /\ op[o] \in Members("setpoint") \/ setpoint' = setpoint
        /\ op[o] \in Members("contactor") \/ contactor' = contactor
        /\ m.type = Final(op[o]) => InForce(o)'
    BY ExecuteTouches, FamilyFacts
  <1>2. /\ Live(m) /\ UNCHANGED <<now, op, result>>
        /\ executed' = [executed EXCEPT ![o] = @ \cup {m.type}]
    BY DEF Execute
  <1>3. /\ \A x \in Calls \ {o} : executed'[x] = executed[x]
        /\ executed'[o] = executed[o] \cup {m.type}
    BY <1>1, <1>2 DEF SiteInv, SiteTypeOK, TypeOK
  <1>4. \A x \in Calls : Told(x)' = Told(x)
    BY <1>2 DEF Told, AtCloud
  <1>5. \A x \in steady : x \in Calls /\ SteadyFit!(x)
    BY DEF SiteInv, SiteTypeOK, SteadyFit
  <1>6. \A x \in Calls : ~ SameFamily(wanted[o], wanted[x]) => Untouched(x)
    BY <1>1, FamilyFacts DEF Untouched
  <1>7. steady' \subseteq steady
    OBVIOUS
  <1> SUFFICES ASSUME NEW x \in steady'
               PROVE  (CarriedOut(x) => InForce(x))'
    BY <1>4, <1>5, <1>7 DEF SteadyFit
  <1>8. x \in steady /\ x \in Calls /\ SteadyFit!(x)
    BY <1>5, <1>7
  <1>9. ASSUME x # o, Untouched(x)
        PROVE  (CarriedOut(x) => InForce(x))'
    BY <1>2, <1>3, <1>8, <1>9, StandsUntouched
  <1>10. CASE Straggles(m) /\ ~ Repeats(m)
    <2>1. Untouched(x)
      BY <1>10
    <2>2. CASE x = o
      <3>1. m.type # Final(op[x])
        BY <1>8, <1>10, <2>2 DEF Repeats
      <3>2. CarriedOut(x)' => CarriedOut(x)
        BY <1>2, <1>3, <2>2, <3>1 DEF CarriedOut
      <3> QED
        BY <1>8, <2>1, <3>2, ForceUntouched
    <2> QED
      BY <1>9, <2>1, <2>2
  <1>11. CASE Straggles(m) /\ Repeats(m)
    <2>1. o \in steady /\ m.type = Final(op[o])
      BY <1>11 DEF Repeats
    <2>2. CASE x # o
      <3>1. ~ SameFamily(wanted[o], wanted[x])
        BY <1>1, <1>8, <2>1, <2>2
      <3> QED
        BY <1>6, <1>8, <1>9, <2>2, <3>1
    <2> QED
      BY <1>1, <2>1, <2>2
  <1>12. CASE ~ Straggles(m)
    <2>1. Awaited(m)
      <3>1. /\ m.expires \in Nat /\ now \in Nat /\ endedAt[o] \in Nat
            /\ result[o] # "none" => m.expires <= endedAt[o] + TTL
        BY <1>1 DEF SiteInv, CommandsInv, TypeOK, SetpointsFit
      <3>2. now <= m.expires + Lag
        BY <1>2 DEF Live
      <3>3. \A e, f, t \in Nat : t <= e + Lag /\ e <= f + TTL => t <= f + TTL + Lag
        BY CommandsAssumption
      <3>4. result[o] # "none" => now <= endedAt[o] + TTL + Lag
        BY <3>1, <3>2, <3>3
      <3> QED
        BY <1>12, <3>4 DEF Straggles
    <2>2. stage[o] # "idle" /\ Head(todo[o]) = m.type
      BY <2>1 DEF Awaited
    <2>3. /\ Open(o)
          /\ \/ m.type = Final(op[o])
             \/ op[o] = "schedule" /\ Len(todo[o]) = 2 /\ m.type = "cancelEvent"
      BY <1>1, <2>2, InHand DEF SiteInv, CommandsInv
    <2>4. Told(o) = "none" /\ o \notin cloudDid
      BY <1>1, <2>3, ToldIsOver DEF SiteInv, WantsFit
    <2>5. CASE x # o
      <3>1. ~ SameFamily(wanted[o], wanted[x])
        BY <1>1, <1>8, <2>4, <2>5
      <3> QED
        BY <1>6, <1>8, <1>9, <2>5, <3>1
    <2>6. CASE x = o /\ m.type = Final(op[o])
      BY <1>1, <2>6
    <2>7. CASE x = o /\ op[o] = "schedule" /\ Len(todo[o]) = 2 /\ m.type = "cancelEvent"
      <3>1. "scheduleEvent" \notin executed[o]
        BY <1>1, <2>7 DEF SiteInv, CommandsInv, RequestsFit
      <3>2. ~ CarriedOut(x)'
        BY <1>2, <1>3, <2>4, <2>7, <3>1, FinalFacts DEF CarriedOut
      <3> QED
        BY <3>2
    <2> QED
      BY <2>3, <2>5, <2>6, <2>7
  <1> QED
    BY <1>10, <1>11, <1>12

\* What anybody else touches is no longer steady.
LEMMA TouchedFits ==
    ASSUME SiteInv, steady' \subseteq steady, \A x \in steady' : Untouched(x),
           UNCHANGED <<op, result, executed, wanted, handed, cloudDid, cloudSaid>>
    PROVE  SteadyFit'
  <1>1. \A x \in Calls : Told(x)' = Told(x)
    BY DEF Told, AtCloud
  <1>2. \A x \in steady : x \in Calls /\ SteadyFit!(x)
    BY DEF SiteInv, SiteTypeOK, SteadyFit
  <1> SUFFICES ASSUME NEW x \in steady'
               PROVE  SteadyFit!(x)'
    BY DEF SteadyFit
  <1>3. (CarriedOut(x) => InForce(x))'
    BY <1>2, StandsUntouched
  <1> QED
    BY <1>1, <1>2, <1>3

\* The gateway, the network, the clock, everybody else.
LEMMA SurroundingsFit ==
    ASSUME SiteInv, Surroundings
    PROVE  SiteTypeOK' /\ WantsFit' /\ SteadyFit'
  <1>1. TypeOK'
    <2>1. [SiteNext]_siteVars
      BY DEF SiteNext
    <2> QED
      BY <2>1, SiteImplements, StepInv DEF SiteInv, CommandsInv
  <1>2. /\ UNCHANGED <<wanted, handed, cloudDid, cloudSaid>>
        /\ steady' \subseteq steady
    BY DEF Surroundings
  <1>3. op' = op /\ result' = result /\ inPlay' = inPlay
    BY GatewayStep DEF Surroundings, Tick, Outside, caller
  <1>4. SiteTypeOK'
    BY <1>1, <1>2 DEF SiteInv, SiteTypeOK
  <1>5. WantsFit'
    BY <1>2, <1>3 DEF SiteInv, WantsFit, AtCloud
  <1>6. ASSUME NEW m \in wire, GatewayNext(m),
               steady' = IF Straggles(m) /\ ~ Repeats(m)
                         THEN {c \in steady : Untouched(c)} ELSE steady
        PROVE  SteadyFit'
    <2>1. CASE UNCHANGED gateway
      <3>1. UNCHANGED <<event, setpoint, contactor, executed>>
        BY <2>1 DEF gateway
      <3>2. \A x : Untouched(x)
        BY <3>1 DEF Untouched
      <3> QED
        BY <1>2, <1>3, <3>1, <3>2, TouchedFits
    <2>2. ASSUME NEW how \in {"done"} \cup Unusable, Execute(m, how)
          PROVE  SteadyFit'
      BY <1>2, <1>6, <2>2, ExecuteFits
    <2> QED
      BY <1>6, <2>1, <2>2, GatewayStep
  <1>7. ASSUME Tick \/ Outside, steady' = {c \in steady : Untouched(c)}
        PROVE  SteadyFit'
    <2>1. executed' = executed
      BY <1>7 DEF Tick, Outside
    <2> QED
      BY <1>2, <1>3, <1>7, <2>1, TouchedFits
  <1> QED
    BY <1>4, <1>5, <1>6, <1>7 DEF Surroundings

LEMMA SiteInitInv == SiteInit => SiteInv
  <1> SUFFICES ASSUME SiteInit
               PROVE  SiteInv
    OBVIOUS
  <1>1. CommandsInv
    BY InitInv DEF SiteInit
  <1>2. SiteTypeOK
    BY <1>1 DEF SiteInit, SiteTypeOK, CommandsInv
  <1>3. WantsFit /\ SteadyFit
    BY FamilyFacts, OpFacts DEF SiteInit, Init, WantsFit, SteadyFit, AtCloud, Offered
  <1> QED
    BY <1>1, <1>2, <1>3 DEF SiteInv

LEMMA SiteStepInv == SiteInv /\ [SiteNext]_siteVars => SiteInv'
  <1> SUFFICES ASSUME SiteInv, [SiteNext]_siteVars
               PROVE  SiteInv'
    OBVIOUS
  <1>1. CommandsInv'
    BY SiteImplements, StepInv DEF SiteInv
  <1>2. ASSUME NEW c \in Calls, NEW o \in Ops, NEW d \in Asked \cup {0},
               Forward(c, o, d) \/ Direct(c, o, d)
        PROVE  SiteTypeOK' /\ WantsFit' /\ SteadyFit'
    BY <1>2, CallFits DEF Forward, Direct
  <1>3. ASSUME NEW c \in Calls, NEW o \in Ops, Unhealthy(c, o)
        PROVE  SiteTypeOK' /\ WantsFit' /\ SteadyFit'
    <2>1. /\ \E family \in inPlay : o \in Members(family)
          /\ Want(c, o) /\ handed' = handed \cup {c}
          /\ UNCHANGED <<vars, cloudDid, cloudSaid>>
      BY <1>3 DEF Unhealthy
    <2> QED
      BY <2>1, HandedFits
  <1>4. ASSUME NEW c \in Calls, NotImplementedLocally(c)
        PROVE  SiteTypeOK' /\ WantsFit' /\ SteadyFit'
    <2>1. /\ Want(c, Placeholder) /\ handed' = handed \cup {c}
          /\ UNCHANGED <<vars, cloudDid, cloudSaid>>
      BY <1>4 DEF NotImplementedLocally
    <2> QED
      BY <2>1, FamilyFacts, HandedFits
  <1>5. ASSUME NEW c \in Calls, Local(c)
        PROVE  SiteTypeOK' /\ WantsFit' /\ SteadyFit'
    BY <1>5, LocalFits
  <1>6. ASSUME NEW c \in Calls, CloudActs(c) \/ CloudAnswers(c)
        PROVE  SiteTypeOK' /\ WantsFit' /\ SteadyFit'
    BY <1>6, CloudActsFits, CloudAnswersFits
  <1>7. ASSUME Surroundings
        PROVE  SiteTypeOK' /\ WantsFit' /\ SteadyFit'
    BY <1>7, SurroundingsFit
  <1>8. ASSUME UNCHANGED siteVars
        PROVE  SiteTypeOK' /\ WantsFit' /\ SteadyFit'
    <2>1. /\ UNCHANGED <<now, inPlay, event, setpoint, contactor, wire, executed>>
          /\ UNCHANGED <<op, duration, todo, stage, answer, result>>
          /\ UNCHANGED <<endedAt, settled, clean>>
          /\ UNCHANGED <<wanted, handed, cloudDid, cloudSaid, steady>>
      BY <1>8 DEF siteVars, router, vars, gateway, caller, history
    <2>2. SiteTypeOK'
      BY <1>1, <2>1 DEF CommandsInv, SiteInv, SiteTypeOK
    <2>3. WantsFit'
      BY <2>1 DEF SiteInv, WantsFit, AtCloud
    <2>5. SteadyFit'
      BY <2>1, TouchedFits DEF Untouched
    <2> QED
      BY <2>2, <2>3, <2>5
  <1>9. SiteTypeOK' /\ WantsFit' /\ SteadyFit'
    BY <1>2, <1>3, <1>4, <1>5, <1>6, <1>7, <1>8 DEF SiteNext
  <1> QED
    BY <1>1, <1>9 DEF SiteInv

LEMMA SiteInvariance == SiteSpec => []SiteInv
  BY SiteInitInv, SiteStepInv, PTL DEF SiteSpec

-----------------------------------------------------------------------------
(* What the invariant says of the router's caller.                         *)

LEMMA InvTwice == SiteInv => TwiceOnlyUnanswered
  <1> SUFFICES ASSUME SiteInv, NEW c \in cloudDid, c \notin handed,
                      result[c] # "connection"
               PROVE  Final(wanted[c]) \notin executed[c]
    BY DEF TwiceOnlyUnanswered
  <1>1. c \in Calls /\ AtCloud(c)
    BY DEF SiteInv, SiteTypeOK, WantsFit
  <1>2. result[c] \in Refused
    BY <1>1 DEF AtCloud, FailoverSafe, Refused
  <1>3. Final(op[c]) \notin executed[c]
    BY <1>1, <1>2 DEF SiteInv, CommandsInv, OutcomeIsTrue
  <1>4. wanted[c] = op[c]
    BY <1>1, ToldIsOver DEF SiteInv, WantsFit
  <1> QED
    BY <1>3, <1>4

LEMMA InvDoneStands == SiteInv => DoneStands
  BY DEF SiteInv, SteadyFit, DoneStands

-----------------------------------------------------------------------------
(* Theorems.                                                               *)

\* Behind the router every step is one the commands allow for: the cloud acts
\* as somebody else, and what is proved of Spec holds here too.
THEOREM RouterImplements == SiteSpec => Spec
  <1>1. SiteInit => Init
    BY DEF SiteInit
  <1>2. SiteInv /\ [SiteNext]_siteVars => [Next]_vars
    BY SiteImplements
  <1> QED
    BY <1>1, <1>2, SiteInvariance, PTL DEF SiteSpec, Spec

\* The router's bookkeeping, and the client's under it, keep their types.
THEOREM SiteTypeCorrect == SiteSpec => []SiteTypeOK
  <1>1. SiteInv => SiteTypeOK
    BY DEF SiteInv
  <1> QED
    BY <1>1, SiteInvariance, PTL

\* A failover doubles only a call that had no answer at all.
THEOREM OnlyUnansweredTwice == SiteSpec => []TwiceOnlyUnanswered
  BY InvTwice, SiteInvariance, PTL

\* What a call has done, once or on both paths, stays in force until somebody
\* else acts on it, or a request of an earlier call arrives that can be late.
THEOREM WhatIsDoneStands == SiteSpec => []DoneStands
  BY InvDoneStands, SiteInvariance, PTL

\* Behind a router too what returned was carried out and what was refused was
\* not, no setpoint outlasts its caller for long, what a resume released stays
\* released, and a clean schedule's event stands: the four invariants the runs
\* check of these commands, under the specification the runs use.
THEOREM CommandsKeepTheirPromises ==
    SiteSpec => [](OutcomeIsTrue /\ StaleSetpointEnds /\ ResumeReleases /\ EventStands)
  BY OutcomesAreTrue, StaleSetpointsEnd, ResumesRelease, EventsStand, RouterImplements,
     PTL
=============================================================================
