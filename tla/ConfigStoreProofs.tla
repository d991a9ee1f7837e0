-------------------------- MODULE ConfigStoreProofs -------------------------
(***************************************************************************)
(* Proofs about write_config, for any number of calls, any updates and any *)
(* traffic between client, gateway and app.                                *)
(***************************************************************************)
EXTENDS ConfigStore, TLAPS

-----------------------------------------------------------------------------
(* Documents and updates.                                                  *)

\* A value is a string, a number, a flag or Absent, so a flag that is false
\* is a value and the Absent it turns into is one too.
LEMMA ValuesFacts ==
    /\ Absent \in Values
    /\ \A s \in Strings : Str(s) \in Values
    /\ \A n \in Int : Num(n) \in Values
    /\ \A b \in BOOLEAN : Bool(b) \in Values
  BY DEF Values, Absent, Str, Num, Bool

\* Merging an update into a document gives a document.
LEMMA ApplyUpdatesType ==
    ASSUME NEW d \in Config, NEW u, IsUpdate(u)
    PROVE  ApplyUpdates(d, u) \in Config
  BY DEF ApplyUpdates, Config, IsUpdate

\* The gateway keeps a document of the document it accepts.
LEMMA StoredType ==
    ASSUME NEW d \in Config
    PROVE  Stored(d) \in Config
  BY ValuesFacts DEF Stored, Config

\* What the gateway keeps of a document it keeps unchanged.
LEMMA StoredIdempotent ==
    ASSUME NEW d
    PROVE  Stored(Stored(d)) = Stored(d)
  <1>1. Absent # Bool(FALSE)
    BY DEF Absent, Bool
  <1> QED
    BY <1>1 DEF Stored

\* No update at all is an update of nothing.
LEMMA NoUpdateIsUpdate == IsUpdate(NoUpdate)
  BY DEF IsUpdate, NoUpdate

\* What a setter hands to write_config, for any arguments that it does not
\* refuse, assigns JSON values to settings of the document.
THEOREM SettersWellFormed ==
    ASSUME Percents \subseteq Int, Kilowatts \subseteq Int
    PROVE  \A u \in SetterUpdates : IsUpdate(u)
  <1>1. \A k \in Keys, v \in Values : IsUpdate(Set(k, v))
    BY DEF IsUpdate, Set
  <1>2. \A u \in SetBackupReserve \cup SetBackupReserveRaw : IsUpdate(u)
    BY <1>1, ValuesFacts
       DEF SetBackupReserve, SetBackupReserveRaw, ScaledToRawReserve, Keys, SiteInfoKeys
  <1>3. \A u \in SetOperationMode \cup SetTouMode \cup SetExportRule : IsUpdate(u)
    <2>1. \A mode \in OperationModes \cup GridExportRules : Str(mode) \in Values
      BY ValuesFacts DEF Strings
    <2>2. \A mode \in TouModes \ {""} : Str(mode) \in Values
      BY ValuesFacts DEF Strings
    <2> QED
      BY <1>1, <2>1, <2>2
         DEF SetOperationMode, SetTouMode, SetExportRule, Keys, SiteInfoKeys
  <1>4. \A u \in SetGridCharging \cup SetOnGridSolarCurtailment : IsUpdate(u)
    BY <1>1, ValuesFacts
       DEF SetGridCharging, SetOnGridSolarCurtailment, Keys, SiteInfoKeys
  <1>5. \A u \in SetImportLimit \cup SetExportLimit : IsUpdate(u)
    BY <1>1, ValuesFacts DEF SetImportLimit, SetExportLimit, Keys, SiteInfoKeys
  <1>6. \A u \in SetGridImportExport : IsUpdate(u)
    <2>1. ASSUME NEW given \in SUBSET GridKeys, NEW rule \in GridExportRules,
                 NEW disallow \in BOOLEAN
          PROVE  IsUpdate(GridImportExport(given, rule, disallow))
      <3>1. Str(rule) \in Values /\ Bool(disallow) \in Values
        BY ValuesFacts DEF Strings
      <3>2. GridKeys \subseteq Keys
        BY DEF GridKeys, Keys, SiteInfoKeys
      <3> QED
        BY <3>1, <3>2 DEF IsUpdate, GridImportExport
    <2> QED
      BY <2>1 DEF SetGridImportExport
  <1> QED
    BY <1>2, <1>3, <1>4, <1>5, <1>6 DEF SetterUpdates

-----------------------------------------------------------------------------
(* Messages.                                                               *)

\* Every message has a type and a call, and those that carry a document
\* carry documents.
LEMMA MessageFields ==
    ASSUME NEW m \in Messages
    PROVE  /\ m.call \in Calls
           /\ m.type \in {"readRequest", "readReply", "updateRequest", "updateReply"}
           /\ m.type \in {"readReply", "updateRequest"} =>
                m.blob \in Config /\ m.hash \in Config
           /\ m.type = "updateReply" => m.accepted \in BOOLEAN
  BY DEF Messages

\* What client and gateway send are messages.
LEMMA MessagesSent ==
    ASSUME NEW c \in Calls, NEW d \in Config, NEW h \in Config, NEW b \in BOOLEAN
    PROVE  /\ ReadRequest(c) \in Messages
           /\ ReadReply(c, d) \in Messages
           /\ UpdateRequest(c, d, h) \in Messages
           /\ UpdateReply(c, b) \in Messages
  BY DEF Messages, ReadRequest, ReadReply, UpdateRequest, UpdateReply

\* What a call was asked is always an update.
LEMMA AskedIsUpdate ==
    ASSUME TypeOK, NEW c \in Calls
    PROVE  IsUpdate(asked[c])
  BY AsksAssumption, NoUpdateIsUpdate DEF TypeOK

-----------------------------------------------------------------------------
(* The invariant of write_config, one lemma per kind of step.              *)

\* A fresh gateway and calls not yet made.
LEMMA InitInv == Init => StoreInv
  BY FactoryAssumption
     DEF Init, StoreInv, FalseFlagsDropped, TypeOK, Phases, MessagesFit, OneMessagePerCall,
         AppliedFits, OutcomeIsTrue

\* The call has no message yet, so its request is its only one.
LEMMA BeginInv ==
    ASSUME StoreInv, NEW c \in Calls, NEW u \in Asks, Begin(c, u)
    PROVE  StoreInv'
  <1> USE DEF StoreInv
  <1>1. \A m \in wire : m.call # c
    BY MessageFields DEF TypeOK, MessagesFit, Begin
  <1>2. /\ wire' = wire \cup {ReadRequest(c)}
        /\ ReadRequest(c) \in Messages
        /\ ReadRequest(c).type = "readRequest" /\ ReadRequest(c).call = c
    BY DEF Begin, ReadRequest, Messages
  <1>3. /\ phase' = [phase EXCEPT ![c] = "reading"]
        /\ asked' = [asked EXCEPT ![c] = u]
        /\ phase[c] = "new" /\ config' = config /\ applied' = applied
    BY DEF Begin
  <1>4. TypeOK'
    BY <1>2, <1>3 DEF TypeOK, Phases
  <1>5. MessagesFit'
    BY <1>1, <1>2, <1>3, MessageFields DEF TypeOK, MessagesFit
  <1>6. OneMessagePerCall'
    BY <1>1, <1>2 DEF OneMessagePerCall
  <1>7. FalseFlagsDropped' /\ AppliedFits' /\ OutcomeIsTrue'
    BY <1>1, <1>2, <1>3 DEF FalseFlagsDropped, TypeOK, AppliedFits, OutcomeIsTrue
  <1> QED
    BY <1>4, <1>5, <1>6, <1>7

\* The reply that was read is replaced by the one update of the call.
LEMMA SendUpdateInv ==
    ASSUME StoreInv, NEW m \in wire, SendUpdate(m)
    PROVE  StoreInv'
  <1> USE DEF StoreInv
  <1> DEFINE c == m.call
             r == UpdateRequest(c, ApplyUpdates(m.blob, asked[c]), m.hash)
  <1>1. /\ m \in Messages /\ m.type = "readReply" /\ c \in Calls
        /\ m.blob \in Config /\ m.hash \in Config /\ m.blob = m.hash
        /\ phase[c] = "reading" /\ c \notin applied
    BY MessageFields DEF TypeOK, MessagesFit, AppliedFits, SendUpdate
  <1>2. r \in Messages
    BY <1>1, AskedIsUpdate, ApplyUpdatesType, MessagesSent
  <1>3. /\ r.type = "updateRequest" /\ r.call = c /\ r.hash = m.hash
        /\ r.blob = ApplyUpdates(m.blob, asked[c])
    BY DEF UpdateRequest
  <1>4. /\ wire' = (wire \ {m}) \cup {r}
        /\ phase' = [phase EXCEPT ![c] = "writing"]
        /\ config' = config /\ asked' = asked /\ applied' = applied
    BY DEF SendUpdate
  <1>5. \A n \in wire \ {m} : n.call # c
    BY DEF OneMessagePerCall
  <1> HIDE DEF c, r
  <1>6. TypeOK'
    BY <1>1, <1>2, <1>4 DEF TypeOK, Phases
  <1>7. MessagesFit'
    BY <1>1, <1>3, <1>4, <1>5, MessageFields DEF TypeOK, MessagesFit
  <1>8. OneMessagePerCall'
    BY <1>3, <1>4, <1>5 DEF OneMessagePerCall
  <1>9. FalseFlagsDropped' /\ AppliedFits' /\ OutcomeIsTrue'
    BY <1>1, <1>3, <1>4 DEF FalseFlagsDropped, TypeOK, AppliedFits, OutcomeIsTrue
  <1> QED
    BY <1>6, <1>7, <1>8, <1>9

\* A reply says whether the update was applied, and so does the outcome.
LEMMA FinishInv ==
    ASSUME StoreInv, NEW m \in wire, Finish(m)
    PROVE  StoreInv'
  <1> USE DEF StoreInv
  <1> DEFINE c == m.call
  <1>1. /\ m.type = "updateReply" /\ c \in Calls /\ m.accepted \in BOOLEAN
        /\ phase[c] = "writing" /\ (m.accepted <=> c \in applied)
    BY MessageFields DEF TypeOK, MessagesFit, Finish
  <1>2. /\ wire' = wire \ {m}
        /\ phase' = [phase EXCEPT ![c] = IF m.accepted THEN "returned" ELSE "failed"]
        /\ config' = config /\ asked' = asked /\ applied' = applied
    BY DEF Finish
  <1>3. \A n \in wire' : n \in wire /\ n.call # c
    BY <1>2 DEF OneMessagePerCall
  <1> HIDE DEF c
  <1>4. TypeOK'
    BY <1>1, <1>2 DEF TypeOK, Phases, Ended
  <1>5. MessagesFit'
    BY <1>1, <1>2, <1>3, MessageFields DEF TypeOK, MessagesFit
  <1>6. OneMessagePerCall'
    BY <1>3 DEF OneMessagePerCall
  <1>7. FalseFlagsDropped' /\ AppliedFits' /\ OutcomeIsTrue'
    BY <1>1, <1>2, <1>3 DEF FalseFlagsDropped, TypeOK, AppliedFits, OutcomeIsTrue
  <1> QED
    BY <1>4, <1>5, <1>6, <1>7

\* A caller that gives up before posting leaves nothing behind, one that
\* gives up after it leaves at most the posted update.
LEMMA GiveUpInv ==
    ASSUME StoreInv, NEW c \in Calls, GiveUp(c)
    PROVE  StoreInv'
  <1> USE DEF StoreInv
  <1>1. /\ phase[c] \in {"reading", "writing"}
        /\ phase' = [phase EXCEPT ![c] =
                        IF phase[c] = "reading" THEN "failed" ELSE "unknown"]
        /\ wire' = {m \in wire : m.call # c \/ m.type = "updateRequest"}
        /\ config' = config /\ asked' = asked /\ applied' = applied
    BY DEF GiveUp
  <1>2. phase[c] = "reading" => \A m \in wire' : m.call # c
    BY <1>1 DEF MessagesFit
  <1>3. TypeOK'
    BY <1>1 DEF TypeOK, Phases, Ended
  <1>4. MessagesFit'
    BY <1>1, <1>2, MessageFields DEF TypeOK, MessagesFit
  <1>5. OneMessagePerCall'
    BY <1>1 DEF OneMessagePerCall
  <1>6. FalseFlagsDropped' /\ AppliedFits' /\ OutcomeIsTrue'
    BY <1>1, <1>2 DEF FalseFlagsDropped, TypeOK, AppliedFits, OutcomeIsTrue
  <1> QED
    BY <1>3, <1>4, <1>5, <1>6

\* The gateway answers a read with one document and its hash.
LEMMA GatewayReadInv ==
    ASSUME StoreInv, NEW m \in wire, GatewayRead(m)
    PROVE  StoreInv'
  <1> USE DEF StoreInv
  <1> DEFINE c == m.call
             r == ReadReply(c, config)
  <1>1. /\ m.type = "readRequest" /\ c \in Calls /\ phase[c] = "reading"
    BY MessageFields DEF TypeOK, MessagesFit, GatewayRead
  <1>2. /\ r \in Messages /\ r.type = "readReply" /\ r.call = c /\ r.blob = r.hash
    BY <1>1, MessagesSent DEF TypeOK, ReadReply
  <1>3. /\ wire' = (wire \ {m}) \cup {r}
        /\ config' = config /\ asked' = asked /\ phase' = phase /\ applied' = applied
    BY DEF GatewayRead
  <1>4. \A n \in wire \ {m} : n.call # c
    BY DEF OneMessagePerCall
  <1> HIDE DEF c, r
  <1>5. TypeOK'
    BY <1>2, <1>3 DEF TypeOK
  <1>6. MessagesFit'
    BY <1>1, <1>2, <1>3 DEF MessagesFit
  <1>7. OneMessagePerCall'
    BY <1>2, <1>3, <1>4 DEF OneMessagePerCall
  <1>8. FalseFlagsDropped' /\ AppliedFits' /\ OutcomeIsTrue'
    BY <1>1, <1>2, <1>3 DEF FalseFlagsDropped, AppliedFits, OutcomeIsTrue
  <1> QED
    BY <1>5, <1>6, <1>7, <1>8

\* Accepted or refused, the update is consumed and a caller that still waits
\* gets one reply that says which.
LEMMA GatewayUpdateInv ==
    ASSUME StoreInv, NEW m \in wire, GatewayAccept(m) \/ GatewayRefuse(m)
    PROVE  StoreInv'
  <1> USE DEF StoreInv
  <1> DEFINE c == m.call
  <1>1. /\ m.type = "updateRequest" /\ c \in Calls /\ m.blob \in Config
        /\ phase[c] \in {"writing", "unknown"} /\ c \notin applied
    BY MessageFields DEF TypeOK, MessagesFit, GatewayAccept, GatewayRefuse
  <1>2. PICK accepted \in BOOLEAN :
           /\ accepted <=> c \in applied'
           /\ wire' = (wire \ {m}) \cup Answer(c, accepted)
    <2>1. CASE GatewayAccept(m)
      <3>1. c \in applied' /\ wire' = (wire \ {m}) \cup Answer(c, TRUE)
        BY <2>1 DEF GatewayAccept
      <3> WITNESS TRUE \in BOOLEAN
      <3> QED
        BY <3>1
    <2>2. CASE GatewayRefuse(m)
      <3>1. c \notin applied' /\ wire' = (wire \ {m}) \cup Answer(c, FALSE)
        BY <1>1, <2>2 DEF GatewayRefuse
      <3> WITNESS FALSE \in BOOLEAN
      <3> QED
        BY <3>1
    <2> QED
      BY <2>1, <2>2
  <1> DEFINE r == UpdateReply(c, accepted)
  <1>3. /\ r \in Messages /\ r.type = "updateReply" /\ r.call = c
        /\ r.accepted <=> c \in applied'
    BY <1>1, <1>2 DEF UpdateReply, Messages
  <1>4. /\ asked' = asked /\ phase' = phase
        /\ applied' \in {applied, applied \cup {c}}
        /\ config' \in Config /\ FalseFlagsDropped'
    BY <1>1, StoredType, StoredIdempotent
       DEF FalseFlagsDropped, TypeOK, GatewayAccept, GatewayRefuse
  <1>5. /\ phase[c] = "writing" => wire' = (wire \ {m}) \cup {r}
        /\ phase[c] # "writing" => wire' = wire \ {m}
    BY <1>2 DEF Answer
  <1>6. \A n \in wire \ {m} : n.call # c
    BY DEF OneMessagePerCall
  <1> HIDE DEF c, r
  <1>7. TypeOK'
    BY <1>1, <1>3, <1>4, <1>5 DEF TypeOK
  <1>8. MessagesFit'
    BY <1>1, <1>3, <1>4, <1>5, <1>6 DEF MessagesFit
  <1>9. OneMessagePerCall'
    BY <1>3, <1>5, <1>6 DEF OneMessagePerCall
  <1>10. AppliedFits' /\ OutcomeIsTrue'
    BY <1>1, <1>3, <1>4, <1>5 DEF AppliedFits, OutcomeIsTrue
  <1> QED
    BY <1>4, <1>7, <1>8, <1>9, <1>10

\* Losing a message and a write of the app disturb no call.
LEMMA EnvironmentInv ==
    ASSUME StoreInv,
           \/ \E m \in wire : Lose(m)
           \/ \E u \in ForeignAsks : Foreign(u)
    PROVE  StoreInv'
  <1> USE DEF StoreInv
  <1>1. /\ wire' \subseteq wire
        /\ asked' = asked /\ phase' = phase /\ applied' = applied
    BY DEF Lose, Foreign
  <1>2. config' \in Config /\ FalseFlagsDropped'
    BY AsksAssumption, ApplyUpdatesType, StoredType, StoredIdempotent
       DEF TypeOK, FalseFlagsDropped, Lose, Foreign
  <1> QED
    BY <1>1, <1>2
       DEF TypeOK, MessagesFit, OneMessagePerCall, AppliedFits, OutcomeIsTrue

\* Every step, and every stutter, keeps the invariant.
LEMMA NextInv == StoreInv /\ [Next]_vars => StoreInv'
  <1> SUFFICES ASSUME StoreInv, [Next]_vars PROVE StoreInv'
    OBVIOUS
  <1>1. CASE \E c \in Calls, u \in Asks : Begin(c, u)
    BY <1>1, BeginInv
  <1>2. CASE \E c \in Calls : GiveUp(c)
    BY <1>2, GiveUpInv
  <1>3. CASE \E m \in wire : SendUpdate(m)
    BY <1>3, SendUpdateInv
  <1>4. CASE \E m \in wire : Finish(m)
    BY <1>4, FinishInv
  <1>5. CASE \E m \in wire : GatewayRead(m)
    BY <1>5, GatewayReadInv
  <1>6. CASE \E m \in wire : GatewayAccept(m) \/ GatewayRefuse(m)
    BY <1>6, GatewayUpdateInv
  <1>7. CASE \/ \E m \in wire : Lose(m)
             \/ \E u \in ForeignAsks : Foreign(u)
    BY <1>7, EnvironmentInv
  <1>8. CASE UNCHANGED vars
    BY <1>8 DEF vars, StoreInv, FalseFlagsDropped, TypeOK, MessagesFit, OneMessagePerCall,
                AppliedFits, OutcomeIsTrue
  <1> QED
    BY <1>1, <1>2, <1>3, <1>4, <1>5, <1>6, <1>7, <1>8 DEF Next

\* The invariant holds in every reachable state.
THEOREM StoreInvariant == Spec => []StoreInv
  BY InitInv, NextInv, PTL DEF Spec

\* Documents, updates, phases and messages stay within their types.
THEOREM TypeCorrect == Spec => []TypeOK
  BY StoreInvariant, PTL DEF StoreInv

\* A call of write_config that returned was merged by the gateway, and one
\* that failed was not and never will be.
THEOREM OutcomesAreTrue == Spec => []OutcomeIsTrue
  BY StoreInvariant, PTL DEF StoreInv

-----------------------------------------------------------------------------
(* What a step does to the settings.                                       *)

\* Merging an update into a document the gateway holds, and keeping what it
\* keeps, changes only the settings that the update names.
LEMMA MergeTouchesOnlyAsked ==
    ASSUME NEW d, Stored(d) = d, NEW u,
           NEW k \in Keys, Stored(ApplyUpdates(d, u))[k] # d[k]
    PROVE  k \in DOMAIN u
  <1>1. d[k] = IF k \in FlagKeys /\ d[k] = Bool(FALSE) THEN Absent ELSE d[k]
    BY DEF Stored
  <1> QED
    BY <1>1 DEF Stored, ApplyUpdates

\* An accepted update is the atomic merge of what the call was asked into the
\* document the gateway holds at that moment, not into the one it had read.
LEMMA AcceptIsMerge ==
    ASSUME StoreInv, NEW m \in wire, GatewayAccept(m)
    PROVE  /\ m.call \in Calls /\ m.call \notin applied
           /\ phase[m.call] \in {"writing", "unknown"}
           /\ config' = Stored(ApplyUpdates(config, asked[m.call]))
           /\ applied' = applied \cup {m.call}
  BY MessageFields DEF StoreInv, TypeOK, MessagesFit, GatewayAccept

\* The only steps that apply a call are accepted updates.
LEMMA OnlyAcceptApplies ==
    ASSUME [Next]_vars, applied' # applied
    PROVE  \E m \in wire : GatewayAccept(m)
  BY DEF Next, vars, Begin, GiveUp, SendUpdate, Finish, GatewayRead,
         GatewayRefuse, Lose, Foreign

\* No merge of a call's update undoes a setting that another task or the app
\* wrote since the call read the file.
THEOREM NoLostSettings == Spec => OthersSettingsSurvive
  <1> DEFINE Kept == applied' # applied =>
                 \A k \in Keys : config'[k] # config[k] =>
                     \E c \in applied' \ applied : k \in DOMAIN asked[c]
  <1>1. StoreInv /\ [Next]_vars => Kept
    <2> SUFFICES ASSUME StoreInv, [Next]_vars, applied' # applied,
                        NEW k \in Keys, config'[k] # config[k]
                 PROVE  \E c \in applied' \ applied : k \in DOMAIN asked[c]
      OBVIOUS
    <2>1. PICK m \in wire : GatewayAccept(m)
      BY OnlyAcceptApplies
    <2>2. /\ m.call \in applied' \ applied
          /\ config' = Stored(ApplyUpdates(config, asked[m.call]))
      BY <2>1, AcceptIsMerge
    <2>3. k \in DOMAIN asked[m.call]
      BY <2>2, MergeTouchesOnlyAsked DEF StoreInv, FalseFlagsDropped
    <2> QED
      BY <2>2, <2>3
  <1>2. StoreInv /\ [Next]_vars => [Kept]_vars
    BY <1>1
  <1> QED
    BY <1>2, StoreInvariant, PTL DEF Spec, OthersSettingsSurvive

-----------------------------------------------------------------------------
(* write_config implements an atomic register.                             *)

\* The two modules merge and keep alike.
LEMMA SameMerge ==
    \A d, u : Register!Stored(Register!ApplyUpdates(d, u)) = Stored(ApplyUpdates(d, u))
  BY DEF Register!Stored, Register!ApplyUpdates, Stored, ApplyUpdates,
         Register!Keys, Keys, Register!SiteInfoKeys, SiteInfoKeys,
         Register!FlagKeys, FlagKeys, Register!Absent, Absent,
         Register!Bool, Bool

\* Each step of write_config is a step of the register, or none.
LEMMA StepRefines ==
    ASSUME StoreInv, [Next]_vars
    PROVE  [Register!Next]_(Register!registerVars)
  <1> DEFINE seen  == [c \in Calls |-> IF phase[c] \in {"reading", "writing"}
                                       THEN "open" ELSE phase[c]]
             seenNext == [c \in Calls |-> IF phase'[c] \in {"reading", "writing"}
                                       THEN "open" ELSE phase'[c]]
  <1> USE DEF StoreInv, Register!Next, Register!registerVars
  <1>1. ASSUME NEW c \in Calls, NEW u \in Asks, Begin(c, u)
        PROVE  Register!Begin(c, u)
    <2>1. seenNext = [seen EXCEPT ![c] = "open"] /\ seen[c] = "new"
      BY <1>1 DEF Begin, TypeOK
    <2> QED
      BY <1>1, <2>1 DEF Begin, Register!Begin
  <1>2. ASSUME NEW c \in Calls, GiveUp(c)
        PROVE  Register!Fail(c) \/ Register!GiveUp(c)
    <2>1. CASE phase[c] = "reading"
      <3>1. seenNext = [seen EXCEPT ![c] = "failed"] /\ seen[c] = "open" /\ c \notin applied
        BY <1>2, <2>1 DEF GiveUp, TypeOK, AppliedFits
      <3> QED
        BY <1>2, <3>1 DEF GiveUp, Register!Fail, Register!End
    <2>2. CASE phase[c] = "writing"
      <3>1. seenNext = [seen EXCEPT ![c] = "unknown"] /\ seen[c] = "open"
        BY <1>2, <2>2 DEF GiveUp, TypeOK
      <3> QED
        BY <1>2, <3>1 DEF GiveUp, Register!GiveUp, Register!End
    <2> QED
      BY <1>2, <2>1, <2>2 DEF GiveUp
  <1>3. ASSUME NEW m \in wire, SendUpdate(m)
        PROVE  UNCHANGED Register!registerVars
    <2>1. m.call \in Calls /\ phase[m.call] = "reading"
      BY <1>3, MessageFields DEF SendUpdate, TypeOK, MessagesFit
    <2>2. seenNext = seen
      BY <1>3, <2>1 DEF SendUpdate, TypeOK
    <2> QED
      BY <1>3, <2>2 DEF SendUpdate
  <1>4. ASSUME NEW m \in wire, Finish(m)
        PROVE  Register!Return(m.call) \/ Register!Fail(m.call)
    <2>1. /\ m.call \in Calls /\ phase[m.call] = "writing"
          /\ m.accepted <=> m.call \in applied
      BY <1>4, MessageFields DEF Finish, TypeOK, MessagesFit
    <2>2. CASE m.accepted
      <3>1. seenNext = [seen EXCEPT ![m.call] = "returned"] /\ seen[m.call] = "open"
        BY <1>4, <2>1, <2>2 DEF Finish, TypeOK
      <3> QED
        BY <1>4, <2>1, <2>2, <3>1 DEF Finish, Register!Return, Register!End
    <2>3. CASE ~ m.accepted
      <3>1. seenNext = [seen EXCEPT ![m.call] = "failed"] /\ seen[m.call] = "open"
        BY <1>4, <2>1, <2>3 DEF Finish, TypeOK
      <3> QED
        BY <1>4, <2>1, <2>3, <3>1 DEF Finish, Register!Fail, Register!End
    <2> QED
      BY <2>2, <2>3
  <1>5. ASSUME NEW m \in wire, GatewayAccept(m)
        PROVE  m.call \in Calls /\ Register!Apply(m.call)
    <2>1. seen[m.call] \in {"open", "unknown"} /\ phase' = phase /\ asked' = asked
      BY <1>5, AcceptIsMerge DEF GatewayAccept
    <2> QED
      BY <1>5, <2>1, AcceptIsMerge, SameMerge DEF Register!Apply
  <1>6. ASSUME NEW m \in wire, GatewayRead(m) \/ GatewayRefuse(m) \/ Lose(m)
        PROVE  UNCHANGED Register!registerVars
    BY <1>6 DEF GatewayRead, GatewayRefuse, Lose
  <1>7. ASSUME NEW u \in ForeignAsks, Foreign(u)
        PROVE  Register!Foreign(u)
    BY <1>7, SameMerge DEF Foreign, Register!Foreign
  <1>8. CASE UNCHANGED vars
    BY <1>8 DEF vars
  <1>9. ASSUME NEW m \in wire, Finish(m)
        PROVE  m.call \in Calls
    BY MessageFields DEF TypeOK
  <1> QED
    BY <1>1, <1>2, <1>3, <1>4, <1>5, <1>6, <1>7, <1>8, <1>9 DEF Next

\* write_config implements an atomic register, for any number of calls and any
\* updates: each call is at most one merge, at one moment, of what it asked
\* into the document of that moment, and its outcome tells the truth about it.
THEOREM ImplementsRegister == Spec => AtomicMerge
  <1>1. Init => Register!Init
    BY DEF Init, Register!Init, NoUpdate, Register!NoUpdate, Absent, Register!Absent
  <1> QED
    BY <1>1, StepRefines, StoreInvariant, PTL
       DEF Spec, AtomicMerge, Register!Spec

-----------------------------------------------------------------------------
(* Losing a race, when nothing else can go wrong.                          *)

LEMMA KindStepsAreSteps == [KindNext]_vars => [Next]_vars
  BY DEF KindNext, Next, Conflict

LEMMA KindInvariant == KindSpec => []StoreInv
  <1>1. StoreInv /\ [KindNext]_vars => StoreInv'
    BY NextInv, KindStepsAreSteps
  <1> QED
    BY InitInv, <1>1, PTL DEF KindSpec

\* A document goes out of date, and an update is refused, only when another
\* call's update was merged.
LEMMA StaleStep ==
    ASSUME StoreInv, StaleHasWinner, LoserHasWinner, [KindNext]_vars
    PROVE  StaleHasWinner' /\ LoserHasWinner'
  <1> USE DEF StoreInv
  <1>1. ASSUME NEW c \in Calls, NEW u \in Asks, Begin(c, u)
        PROVE  StaleHasWinner' /\ LoserHasWinner'
    BY <1>1 DEF Begin, ReadRequest, TypeOK, StaleHasWinner, LoserHasWinner
  <1>2. ASSUME NEW m \in wire, SendUpdate(m)
        PROVE  StaleHasWinner' /\ LoserHasWinner'
    BY <1>2, MessageFields
       DEF SendUpdate, UpdateRequest, TypeOK, StaleHasWinner, LoserHasWinner
  <1>3. ASSUME NEW m \in wire, Finish(m)
        PROVE  StaleHasWinner' /\ LoserHasWinner'
    BY <1>3, MessageFields DEF Finish, TypeOK, StaleHasWinner, LoserHasWinner
  <1>4. ASSUME NEW m \in wire, GatewayRead(m)
        PROVE  StaleHasWinner' /\ LoserHasWinner'
    BY <1>4 DEF GatewayRead, ReadReply, StaleHasWinner, LoserHasWinner
  <1>5. ASSUME NEW m \in wire, GatewayAccept(m)
        PROVE  StaleHasWinner' /\ LoserHasWinner'
    <2>1. /\ applied' = applied \cup {m.call} /\ phase' = phase
          /\ wire' = (wire \ {m}) \cup Answer(m.call, TRUE)
          /\ m.call \notin applied /\ phase[m.call] # "failed"
      BY <1>5, AcceptIsMerge DEF GatewayAccept
    <2>2. \A n \in wire \ {m} : n.call # m.call
      BY DEF OneMessagePerCall
    <2>3. \A n \in Answer(m.call, TRUE) : n.type = "updateReply" /\ n.accepted
      BY DEF Answer, UpdateReply
    <2>4. StaleHasWinner'
      BY <2>1, <2>2, <2>3 DEF StaleHasWinner
    <2> QED
      BY <2>1, <2>4 DEF LoserHasWinner
  <1>6. ASSUME NEW m \in wire, m.type = "updateRequest", Conflict(m)
        PROVE  StaleHasWinner' /\ LoserHasWinner'
    <2>1. PICK d \in applied : d # m.call
      BY <1>6 DEF Conflict, StaleHasWinner
    <2>2. \A n \in Answer(m.call, FALSE) : n.call = m.call
      BY DEF Answer, UpdateReply
    <2> QED
      BY <1>6, <2>1, <2>2
         DEF Conflict, GatewayRefuse, StaleHasWinner, LoserHasWinner, Answer, UpdateReply
  <1>7. CASE UNCHANGED vars
    BY <1>7 DEF vars, StaleHasWinner, LoserHasWinner
  <1> QED
    BY <1>1, <1>2, <1>3, <1>4, <1>5, <1>6, <1>7 DEF KindNext

\* When nothing is lost and no one else writes, a call of write_config is
\* refused only if another call was applied, however many calls race.
THEOREM LosersHaveWinners == KindSpec => []LoserHasWinner
  <1>1. Init => StaleHasWinner /\ LoserHasWinner
    BY DEF Init, StaleHasWinner, LoserHasWinner
  <1>2. StoreInv /\ StaleHasWinner /\ LoserHasWinner /\ [KindNext]_vars
            => StaleHasWinner' /\ LoserHasWinner'
    BY StaleStep
  <1> QED
    BY <1>1, <1>2, KindInvariant, PTL DEF KindSpec
=============================================================================
