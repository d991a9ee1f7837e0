-------------------------- MODULE CurtailmentProofs -------------------------
(***************************************************************************)
(* Proofs about curtail and restore_from_curtailment for a careful caller: *)
(* any number of calls, lost replies and late writes, and an owner who may *)
(* have any settings and write them at any time.                           *)
(***************************************************************************)
EXTENDS Curtailment, TLAPS

-----------------------------------------------------------------------------
(* The settings.                                                           *)

LEMMA ValueFacts ==
    /\ Mode # Reserve /\ SavedKeys = {Mode, Reserve} /\ SavedKeys \subseteq Keys
    /\ SavedKeys \cap FlagKeys = {}
    /\ \A s : Str(s) # Absent
    /\ \A n : Num(n) # Absent
    /\ NoValue = Absent
    /\ Str("self_consumption") \in ModeNames /\ Str("backup") \in ModeNames
    /\ Absent \in Values /\ ModeNames \subseteq Values
    /\ \A n \in Int : Num(n) \in Values
    /\ \A s, t : Str(s) # Num(t)
  BY DEF Mode, Reserve, SavedKeys, Keys, SiteInfoKeys, FlagKeys, Str, Num, Absent,
         NoValue, ModeNames, OperationModes, Values, Strings

LEMMA OwnersFacts ==
    /\ \A v : OwnersValue(Mode, v) <=> v = Absent \/ v \in ModeNames
    /\ \A v : OwnersValue(Reserve, v) <=> v = Absent \/ v \in Reserves
    /\ \A v \in Reserves : v # Absent
    /\ \A v \in ModeNames : v # Absent
  <1>1. Mode # Reserve
    BY DEF Mode, Reserve
  <1>2. \A v : OwnersValue(Mode, v) <=> v = Absent \/ v \in ModeNames
    BY DEF OwnersValue
  <1>3. \A v : OwnersValue(Reserve, v) <=> v = Absent \/ v \in Reserves
    BY <1>1 DEF OwnersValue
  <1>4. \A v \in Reserves : v # Absent
    <2> SUFFICES ASSUME NEW v \in Reserves
                 PROVE  v # Absent
      OBVIOUS
    <2>1. (\E n \in 0 .. 10000 : v = Num(n)) \/ (\E s \in Strings : v = Str(s))
      BY DEF Reserves
    <2> QED
      BY <2>1 DEF Num, Str, Absent
  <1>5. \A v \in ModeNames : v # Absent
    BY ValueFacts DEF ModeNames
  <1> QED
    BY <1>2, <1>3, <1>4, <1>5

\* int() leaves a whole percentage alone and makes one of any reserve.
LEMMA WholeFacts ==
    /\ \A v \in Reserves : IsWholePercent(Whole(v))
    /\ \A v : IsWholePercent(v) => Whole(v) = v /\ v \in Reserves /\ v # Absent
  <1>1. ASSUME NEW v \in Reserves
        PROVE  IsWholePercent(Whole(v))
    <2>1. CASE \E n \in 0 .. 10000 : v = Num(n)
      <3>1. PICK n \in 0 .. 10000 : v = <<"num", n>>
        BY <2>1 DEF Num
      <3>2. v[1] = "num" /\ v[2] = n
        BY <3>1
      <3>3. PICK p \in 0 .. 100 : p = n \div 100
        <4>1. n \div 100 \in 0 .. 100
          BY <3>1
        <4> QED
          BY <4>1
      <3> QED
        BY <3>2, <3>3 DEF IsWholePercent, Whole, Num
    <2>2. CASE \E s \in Strings : v = Str(s)
      <3>1. v[1] = "str"
        BY <2>2 DEF Str
      <3>2. Whole(v) = Num(100 * 5)
        BY <3>1 DEF Whole
      <3> QED
        BY <3>2 DEF IsWholePercent
    <2> QED
      BY <2>1, <2>2 DEF Reserves
  <1>2. ASSUME NEW v, IsWholePercent(v)
        PROVE  Whole(v) = v /\ v \in Reserves /\ v # Absent
    <2>1. PICK p \in 0 .. 100 : v = <<"num", 100 * p>>
      BY <1>2 DEF IsWholePercent, Num
    <2>2. v[1] = "num" /\ v[2] = 100 * p /\ (100 * p) \div 100 = p
      BY <2>1
    <2>3. Whole(v) = v
      BY <2>1, <2>2 DEF Whole, Num
    <2>4. 100 * p \in 0 .. 10000
      OBVIOUS
    <2>5. v \in Reserves
      BY <2>1, <2>4 DEF Reserves, Num
    <2> QED
      BY <2>1, <2>3, <2>5 DEF Absent
  <1> QED
    BY <1>1, <1>2

OwnersDocument(d) == \A k \in SavedKeys : OwnersValue(k, d[k])

\* What is saved of an owner's settings is a mode and a whole percentage, and
\* saving what was saved changes nothing.
LEMMA SavedFacts ==
    ASSUME NEW d, OwnersDocument(d)
    PROVE  /\ SavedMode(d) \in ModeNames /\ IsWholePercent(SavedReserve(d))
           /\ SavedMode(d) # Absent /\ SavedReserve(d) # Absent
           /\ Whole(SavedReserve(d)) = SavedReserve(d)
           /\ \A k \in SavedKeys :
                 OwnersValue(k, IF k = Mode THEN SavedMode(d) ELSE SavedReserve(d))
  <1>1. OwnersValue(Mode, d[Mode]) /\ OwnersValue(Reserve, d[Reserve])
    BY ValueFacts DEF OwnersDocument
  <1>2. SavedMode(d) \in ModeNames
    BY <1>1, ValueFacts, OwnersFacts DEF SavedMode
  <1>3. IsWholePercent(SavedReserve(d))
    <2>1. CASE d[Reserve] = Absent
      <3>1. SavedReserve(d) = Num(100 * 5)
        BY <2>1 DEF SavedReserve
      <3> QED
        BY <3>1 DEF IsWholePercent
    <2>2. CASE d[Reserve] # Absent
      <3>1. d[Reserve] \in Reserves
        BY <1>1, <2>2, OwnersFacts
      <3> QED
        BY <2>2, <3>1, WholeFacts DEF SavedReserve
    <2> QED
      BY <2>1, <2>2
  <1>4. Whole(SavedReserve(d)) = SavedReserve(d) /\ SavedReserve(d) # Absent
    BY <1>3, WholeFacts
  <1>5. SavedMode(d) # Absent
    BY <1>2, ValueFacts DEF ModeNames
  <1>6. OwnersValue(Mode, SavedMode(d)) /\ OwnersValue(Reserve, SavedReserve(d))
    BY <1>2, <1>3, WholeFacts, OwnersFacts
  <1>7. \A k \in SavedKeys :
           OwnersValue(k, IF k = Mode THEN SavedMode(d) ELSE SavedReserve(d))
    BY <1>6, ValueFacts
  <1> QED
    BY <1>2, <1>3, <1>4, <1>5, <1>7

LEMMA UpdateFacts ==
    /\ \A u \in CurtailUpdates \cup RestoreUpdates :
          DOMAIN u = SavedKeys /\ IsUpdate(u) /\ OwnersDocument(u)
    /\ NoUpdate \notin CurtailUpdates \cup RestoreUpdates
  <1>1. ASSUME NEW mode \in ModeNames, NEW p \in 0 .. 100
        PROVE  /\ DOMAIN ModeAndReserve(mode, Num(100 * p)) = SavedKeys
               /\ IsUpdate(ModeAndReserve(mode, Num(100 * p)))
               /\ OwnersDocument(ModeAndReserve(mode, Num(100 * p)))
    <2> DEFINE u == ModeAndReserve(mode, Num(100 * p))
    <2>1. /\ u = [k \in SavedKeys |-> IF k = Mode THEN mode ELSE Num(100 * p)]
          /\ 100 * p \in 0 .. 10000
      BY DEF ModeAndReserve, SavedKeys, Mode, Reserve
    <2> HIDE DEF u
    <2>2. DOMAIN u = SavedKeys /\ u[Mode] = mode /\ u[Reserve] = Num(100 * p)
      BY <2>1, ValueFacts
    <2>3. IsUpdate(u)
      BY <2>1, <2>2, ValueFacts DEF IsUpdate
    <2>4. OwnersDocument(u)
      <3>1. Num(100 * p) \in Reserves
        BY <2>1 DEF Reserves, Num
      <3>2. OwnersValue(Mode, u[Mode]) /\ OwnersValue(Reserve, u[Reserve])
        BY <2>2, <3>1, OwnersFacts
      <3> QED
        BY <3>2 DEF OwnersDocument, SavedKeys
    <2> QED
      BY <2>2, <2>3, <2>4 DEF u
  <1>2. \A u \in CurtailUpdates : \E p \in 0 .. 100 :
           u = ModeAndReserve(Str("backup"), Num(100 * p))
    <2>1. \A p \in {q \in Percents : IsPercent(q)} : p \in 0 .. 100
      BY CurtailmentAssumption DEF IsPercent
    <2> QED
      BY <2>1 DEF CurtailUpdates
  <1>3. \A u \in RestoreUpdates : \E mode \in ModeNames, p \in 0 .. 100 :
           u = ModeAndReserve(mode, Num(100 * p))
    BY ValueFacts DEF RestoreUpdates, PutBack, ModeNames
  <1>4. DOMAIN NoUpdate = {} /\ SavedKeys # {}
    BY DEF NoUpdate, SavedKeys
  <1>5. ASSUME NEW u \in CurtailUpdates \cup RestoreUpdates
        PROVE  DOMAIN u = SavedKeys /\ IsUpdate(u) /\ OwnersDocument(u)
    <2>1. PICK mode \in ModeNames, p \in 0 .. 100 : u = ModeAndReserve(mode, Num(100 * p))
      BY <1>2, <1>3, ValueFacts
    <2> QED
      BY <1>1, <2>1
  <1> QED
    BY <1>4, <1>5

\* A merge of an owner's update leaves an owner's document, changed where the
\* update says.
LEMMA MergeFacts ==
    ASSUME NEW d \in Config, NEW u, IsUpdate(u)
    PROVE  /\ Stored(ApplyUpdates(d, u)) \in Config
           /\ \A k \in SavedKeys :
                 Stored(ApplyUpdates(d, u))[k] = IF k \in DOMAIN u THEN u[k] ELSE d[k]
  <1>1. ApplyUpdates(d, u) \in Config
    BY DEF ApplyUpdates, IsUpdate, Config
  <1>2. Stored(ApplyUpdates(d, u)) \in Config
    BY <1>1, ValueFacts DEF Stored, Config
  <1>3. \A k \in SavedKeys : Stored(ApplyUpdates(d, u))[k] = ApplyUpdates(d, u)[k]
    BY ValueFacts DEF Stored
  <1> QED
    BY <1>2, <1>3, ValueFacts DEF ApplyUpdates

\* The register merges as the configuration store does.
LEMMA RegisterFacts ==
    ASSUME NEW d, NEW u
    PROVE  Register!Stored(Register!ApplyUpdates(d, u)) = Stored(ApplyUpdates(d, u))
  <1>1. Register!ApplyUpdates(d, u) = ApplyUpdates(d, u)
    BY DEF Register!ApplyUpdates, ApplyUpdates, Register!Keys, Keys,
           Register!SiteInfoKeys, SiteInfoKeys
  <1>2. \A e : Register!Stored(e) = Stored(e)
    BY DEF Register!Stored, Stored, Register!Keys, Keys, Register!SiteInfoKeys,
           SiteInfoKeys, Register!FlagKeys, FlagKeys, Register!Bool, Bool,
           Register!Absent, Absent
  <1> QED
    BY <1>1, <1>2

\* What restore_from_curtailment writes back is what was saved.
LEMMA PutBackFacts ==
    /\ \A mode \in ModeNames, p \in 0 .. 100 :
          PutBack(mode, Num(100 * p)) \in RestoreUpdates
    /\ \A mode, reserve :
          /\ mode \in ModeNames \cup {NoValue}
          /\ reserve = NoValue \/ IsWholePercent(reserve)
          => PutBack(mode, reserve) \in RestoreUpdates
    /\ \A mode, reserve : mode # Absent /\ reserve # Absent =>
          /\ PutBack(mode, reserve)[Mode] = mode
          /\ PutBack(mode, reserve)[Reserve] = reserve
  <1>1. \A mode \in ModeNames, p \in 0 .. 100 :
           PutBack(mode, Num(100 * p)) \in RestoreUpdates
    BY DEF RestoreUpdates
  <1>2. ASSUME NEW mode \in ModeNames \cup {NoValue}, NEW reserve,
               reserve = NoValue \/ IsWholePercent(reserve)
        PROVE  PutBack(mode, reserve) \in RestoreUpdates
    <2> DEFINE m == IF mode = NoValue THEN Str("self_consumption") ELSE mode
               r == IF reserve = NoValue THEN Num(500) ELSE reserve
    <2>1. m \in ModeNames /\ m # NoValue /\ r # NoValue
      <3>1. \A x \in ModeNames : x # NoValue
        BY ValueFacts DEF ModeNames
      <3>2. IsWholePercent(reserve) => reserve # NoValue
        BY ValueFacts DEF IsWholePercent
      <3> QED
        BY <1>2, <3>1, <3>2, ValueFacts
    <2>2. \E p \in 0 .. 100 : r = Num(100 * p)
      <3>1. Num(500) = Num(100 * 5)
        OBVIOUS
      <3> QED
        BY <1>2, <3>1 DEF IsWholePercent
    <2>3. PutBack(mode, reserve) = PutBack(m, r)
      BY <2>1 DEF PutBack
    <2> HIDE DEF m, r
    <2> QED
      BY <1>1, <2>1, <2>2, <2>3
  <1>3. ASSUME NEW mode, NEW reserve, mode # Absent, reserve # Absent
        PROVE  /\ PutBack(mode, reserve)[Mode] = mode
               /\ PutBack(mode, reserve)[Reserve] = reserve
    BY <1>3, ValueFacts DEF PutBack, ModeAndReserve, Mode, Reserve
  <1> QED
    BY <1>1, <1>2, <1>3

-----------------------------------------------------------------------------
(* What is saved of a document.                                            *)

\* Of an owner's document a mode and a whole percentage.
LEMMA SavedDocument ==
    ASSUME NEW d, OwnersDocument(d)
    PROVE  /\ Saved(d) \in RestoreUpdates /\ OwnersDocument(Saved(d))
           /\ Saved(d)[Mode] = SavedMode(d) /\ Saved(d)[Reserve] = SavedReserve(d)
  <1>1. /\ SavedMode(d) \in ModeNames /\ IsWholePercent(SavedReserve(d))
        /\ SavedMode(d) # Absent /\ SavedReserve(d) # Absent
    BY SavedFacts
  <1> QED
    BY <1>1, PutBackFacts, UpdateFacts DEF Saved

\* Each setting is saved by itself, and saving it again changes nothing.
LEMMA SavedByKey ==
    ASSUME NEW d, OwnersDocument(d), NEW e, OwnersDocument(e), NEW k \in SavedKeys,
           e[k] \in {d[k], Saved(d)[k]}
    PROVE  Saved(e)[k] = Saved(d)[k]
  <1>1. /\ Saved(d)[Mode] = SavedMode(d) /\ Saved(d)[Reserve] = SavedReserve(d)
        /\ Saved(e)[Mode] = SavedMode(e) /\ Saved(e)[Reserve] = SavedReserve(e)
    BY SavedDocument
  <1>2. /\ SavedMode(d) # Absent /\ SavedReserve(d) # Absent
        /\ Whole(SavedReserve(d)) = SavedReserve(d)
    BY SavedFacts
  <1>3. CASE k = Mode
    BY <1>1, <1>2, <1>3 DEF SavedMode
  <1>4. CASE k = Reserve
    BY <1>1, <1>2, <1>4 DEF SavedReserve
  <1> QED
    BY <1>3, <1>4, ValueFacts

-----------------------------------------------------------------------------
(* The invariant of a careful caller.                                      *)

\* A call that is running, or whose write may still come.
Pending(c) == Running(c) \/ (outcome[c] = "unknown" /\ c \notin applied \cup expired)

\* A curtail's write has begun, and its merge may still come.
PostedCurtail(c) == /\ op[c] = "curtail"
                    /\ outcome[c] \in {"open", "unknown"}
                    /\ c \notin applied \cup expired

\* No call's merge is in doubt, but for one that was posted and not yet merged.
Settled == ~ doubt /\ \A c \in Calls : outcome[c] = "open" => c \notin applied

\* The settings the owner has not written since a curtail read them.
Captured == SavedKeys \ later

\* What a call can be, and what of it is merged; a write that may still come is
\* in doubt.
CallsFit ==
    \A c \in Calls :
        /\ op[c] \in {"none", "aborted"} => outcome[c] = "new"
        /\ op[c] = "restore" => outcome[c] # "new"
        /\ outcome[c] \in {"new", "failed"} => c \notin applied
        /\ seen[c] # NoDocument => Reading(c)
        /\ outcome[c] # "new" => asked[c] \in CurtailUpdates \cup RestoreUpdates
        /\ outcome[c] = "unknown" /\ c \notin applied \cup expired => doubt

\* One call at a time, until no more can come of it.
OneAtATime == \A c, d \in Calls : Pending(c) /\ Pending(d) => c = d

\* The settings, wherever they are kept, are ones an owner may have.
OwnersEverywhere ==
    /\ OwnersDocument(config)
    /\ normal = [k \in SavedKeys |-> normal[k]] /\ OwnersDocument(normal)
    /\ \A c \in Calls : seen[c] # NoDocument => OwnersDocument(seen[c])
    /\ seen = [c \in Calls |-> seen[c]]

\* Nothing is in force, or in doubt, while a curtail reads; what it has read is
\* what it should save.
ReadsFit ==
    \A c \in Calls : Reading(c) =>
        /\ ~ active /\ ~ doubt
        /\ \A d \in Calls : outcome[d] # "open"
        /\ seen[c] # NoDocument =>
              \A k \in Captured : Saved(seen[c])[k] = Saved(normal)[k]

\* Once a write may have been posted the snapshot is the owner's settings; what a
\* restore writes is the snapshot.
SnapshotFits ==
    /\ active \/ doubt \/ (\E c \in Calls : outcome[c] = "open") =>
          \A k \in Captured : PutBack(savedMode, savedReserve)[k] = Saved(normal)[k]
    /\ \A c \in Calls : op[c] = "restore" /\ outcome[c] = "open" =>
          asked[c] = PutBack(savedMode, savedReserve)

\* The owner's settings are in force, as they left them or put back.
OwnersInForce == \A k \in Captured : config[k] \in {normal[k], Saved(normal)[k]}

\* The settings in force: the owner's also until a curtail's merge comes.
InForce ==
    /\ \A c \in applied : outcome[c] = "open" =>
          \A k \in Captured : config[k] = asked[c][k]
    /\ ~ active /\ Settled => OwnersInForce
    /\ (\E c \in Calls : PostedCurtail(c)) => OwnersInForce
    /\ active /\ Settled =>
          \E c \in applied :
              op[c] = "curtail" /\ \A k \in Captured : config[k] = asked[c][k]

CarefulInv == /\ TypeOK /\ CallsFit /\ OneAtATime /\ OwnersEverywhere
              /\ ReadsFit /\ SnapshotFits /\ InForce

-----------------------------------------------------------------------------
(* Parts of the invariant that several kinds of steps leave alone.         *)

\* While the owner's settings are settled, and nothing runs, they are in force.
LEMMA IdleFacts ==
    ASSUME CarefulInv, ~ active, ~ doubt, \A c \in Calls : outcome[c] # "open"
    PROVE  /\ OwnersInForce
           /\ \A c \in Calls : ~ PostedCurtail(c)
           /\ \A c \in Calls : outcome[c] = "unknown" => c \in applied \cup expired
  <1>1. Settled
    BY DEF Settled
  <1>2. \A c \in Calls : outcome[c] = "unknown" => c \in applied \cup expired
    BY DEF CarefulInv, CallsFit
  <1>3. \A c \in Calls : ~ PostedCurtail(c)
    BY <1>2 DEF PostedCurtail
  <1> QED
    BY <1>1, <1>2, <1>3 DEF CarefulInv, InForce

\* The settings and whose they are stay.
SameSettings == UNCHANGED <<config, normal, later>>

LEMMA SameSettingsFacts ==
    ASSUME SameSettings
    PROVE  /\ Captured' = Captured
           /\ \A k : Saved(normal)'[k] = Saved(normal)[k]
           /\ OwnersInForce' <=> OwnersInForce
  <1>1. config' = config /\ normal' = normal /\ later' = later
    BY DEF SameSettings
  <1>2. Saved(normal)' = Saved(normal)
    BY <1>1 DEF Saved, SavedMode, SavedReserve, PutBack, ModeAndReserve
  <1>3. Captured' = Captured
    BY <1>1 DEF Captured
  <1> QED
    BY <1>1, <1>2, <1>3 DEF OwnersInForce

\* What was saved stays.
LEMMA SameSnapshot ==
    ASSUME UNCHANGED snapshot
    PROVE  PutBack(savedMode, savedReserve)' = PutBack(savedMode, savedReserve)
  BY DEF snapshot, PutBack, ModeAndReserve

LEMMA InitInv == Init => CarefulInv
  <1> SUFFICES ASSUME Init
               PROVE  CarefulInv
    OBVIOUS
  <1> USE DEF Register!Init
  <1>1. config \in Config /\ OwnersDocument(config)
    BY CurtailmentAssumption DEF Init, OwnersDocument
  <1>2. normal = [k \in SavedKeys |-> config[k]] /\ OwnersDocument(normal)
    BY <1>1 DEF Init, OwnersDocument
  <1>3. TypeOK
    <2>1. op \in [Calls -> {"none", "curtail", "restore", "aborted"}]
      BY DEF Init
    <2>6. outcome \in [Calls -> Register!Outcomes]
      BY DEF Init, Register!Outcomes
    <2>7. asked \in [Calls -> CurtailUpdates \cup RestoreUpdates \cup {NoUpdate}]
      <3>1. asked = [c \in Calls |-> NoUpdate]
        BY DEF Init, NoUpdate, Register!NoUpdate, Absent, Register!Absent
      <3> QED
        BY <3>1
    <2>2. \A c \in Calls : seen[c] \in Config \cup {NoDocument}
      BY DEF Init
    <2>3. /\ applied \subseteq Calls /\ expired \subseteq Calls /\ active \in BOOLEAN
          /\ later \subseteq SavedKeys /\ doubt \in BOOLEAN
      BY DEF Init
    <2>4. DOMAIN normal = SavedKeys
      BY <1>2
    <2>5. savedMode = NoValue /\ savedReserve = NoValue
      BY DEF Init
    <2> QED
      BY <1>1, <2>1, <2>2, <2>3, <2>4, <2>5, <2>6, <2>7 DEF TypeOK
  <1>4. CallsFit /\ OneAtATime
    BY DEF Init, CallsFit, OneAtATime, Pending, Running, Reading
  <1>5. OwnersEverywhere
    BY <1>1, <1>2 DEF Init, OwnersEverywhere
  <1>6. ReadsFit /\ SnapshotFits
    BY DEF Init, ReadsFit, SnapshotFits, Reading
  <1>7. InForce
    BY <1>2 DEF Init, InForce, OwnersInForce, PostedCurtail, Captured
  <1> QED
    BY <1>3, <1>4, <1>5, <1>6, <1>7 DEF CarefulInv

-----------------------------------------------------------------------------
(* The invariant, one lemma per kind of step.                              *)

LEMMA CurtailInv ==
    ASSUME CarefulInv, NEW c \in Calls, ~ Engaged, Curtail(c)
    PROVE  CarefulInv'
  <1>1. /\ op[c] = "none" /\ op' = [op EXCEPT ![c] = "curtail"]
        /\ UNCHANGED <<config, asked, outcome, applied, seen, snapshot, savedMode,
                       savedReserve, active, expired, normal, later, doubt>>
    BY DEF Curtail, registerVars, snapshot, history
  <1>2. /\ \A x \in Calls \ {c} : op'[x] = op[x]
        /\ op'[c] = "curtail"
    BY <1>1 DEF CarefulInv, TypeOK
  <1>3. /\ ~ active /\ ~ doubt
        /\ \A x \in Calls : ~ Running(x) /\ outcome[x] # "open"
    BY DEF Engaged, Running
  <1>4. outcome[c] = "new" /\ c \notin applied /\ seen[c] = NoDocument
    BY <1>1 DEF CarefulInv, CallsFit, Reading
  <1>5. /\ OwnersInForce
        /\ \A x \in Calls : outcome[x] = "unknown" => x \in applied \cup expired
    BY <1>3, IdleFacts
  <1>6. SameSettings
    BY <1>1 DEF SameSettings
  <1>7. TypeOK'
    BY <1>1 DEF CarefulInv, TypeOK
  <1>8. CallsFit'
    BY <1>1, <1>2, <1>4 DEF CarefulInv, CallsFit, Reading
  <1>9. OneAtATime'
    BY <1>1, <1>2, <1>3, <1>5 DEF OneAtATime, Running, Reading, Pending
  <1>10. OwnersEverywhere'
    BY <1>1 DEF CarefulInv, OwnersEverywhere, OwnersDocument
  <1>11. ReadsFit'
    <2>1. \A x \in Calls : Reading(x)' => seen'[x] = NoDocument
      BY <1>1, <1>2, <1>3, <1>4 DEF Running, Reading
    <2> QED
      BY <1>1, <1>3, <2>1 DEF ReadsFit
  <1>12. SnapshotFits'
    BY <1>1, <1>3 DEF SnapshotFits
  <1>13. InForce'
    BY <1>1, <1>3, <1>5, <1>6, SameSettingsFacts DEF CarefulInv, TypeOK, InForce
  <1> QED
    BY <1>7, <1>8, <1>9, <1>10, <1>11, <1>12, <1>13 DEF CarefulInv

\* What the read brings is the owner's settings; those they have written since an
\* earlier curtail are now taken as they are.
LEMMA ReadConfigInv ==
    ASSUME CarefulInv, NEW c \in Calls, ReadConfig(c)
    PROVE  CarefulInv'
  <1>1. /\ Reading(c) /\ seen[c] = NoDocument /\ seen' = [seen EXCEPT ![c] = config]
        /\ normal' = [k \in SavedKeys |-> IF k \in later THEN config[k] ELSE normal[k]]
        /\ later' = {}
        /\ UNCHANGED <<config, asked, outcome, applied, op, snapshot, savedMode,
                       savedReserve, active, expired, doubt>>
    BY DEF ReadConfig, registerVars, snapshot
  <1>2. /\ \A x \in Calls \ {c} : seen'[x] = seen[x]
        /\ seen'[c] = config
        /\ seen' = [x \in Calls |-> seen'[x]]
    BY <1>1 DEF CarefulInv, OwnersEverywhere
  <1>3. /\ config \in Config /\ config # NoDocument
        /\ OwnersDocument(config) /\ OwnersDocument(normal)
    <2>1. DOMAIN config = Keys /\ DOMAIN NoDocument = {} /\ Mode \in Keys
      BY DEF CarefulInv, TypeOK, Config, NoDocument, NoUpdate, Mode, Keys
    <2> QED
      BY <2>1 DEF CarefulInv, TypeOK, OwnersEverywhere
  <1>4. /\ ~ active /\ ~ doubt /\ \A x \in Calls : outcome[x] # "open"
        /\ OwnersInForce /\ \A x \in Calls : ~ PostedCurtail(x)
    BY <1>1, IdleFacts DEF CarefulInv, ReadsFit
  <1>5. OwnersDocument(normal')
    BY <1>1, <1>3 DEF OwnersDocument
  <1>6. \A k \in SavedKeys : config[k] \in {normal'[k], Saved(normal')[k]}
    <2> SUFFICES ASSUME NEW k \in SavedKeys, k \notin later
                 PROVE  config[k] \in {normal'[k], Saved(normal')[k]}
      BY <1>1
    <2>1. normal'[k] = normal[k]
      BY <1>1
    <2>2. Saved(normal')[k] = Saved(normal)[k]
      BY <1>3, <1>5, <2>1, SavedByKey
    <2> QED
      BY <1>4, <2>1, <2>2 DEF OwnersInForce, Captured
  <1>7. \A k \in SavedKeys : Saved(config)[k] = Saved(normal')[k]
    BY <1>3, <1>5, <1>6, SavedByKey
  <1>8. /\ Saved(normal)' = Saved(normal')
        /\ Captured' = SavedKeys
        /\ \A x \in Calls : ~ PostedCurtail(x)'
    BY <1>1, <1>4 DEF Saved, SavedMode, SavedReserve, PutBack, ModeAndReserve, Captured,
                      PostedCurtail
  <1>9. TypeOK'
    BY <1>1, <1>2, <1>3 DEF CarefulInv, TypeOK
  <1>10. CallsFit'
    BY <1>1, <1>2 DEF CarefulInv, CallsFit, Reading
  <1>11. OneAtATime'
    BY <1>1 DEF CarefulInv, OneAtATime, Running, Reading, Pending
  <1>12. OwnersEverywhere'
    <2>1. OwnersDocument(config)' /\ OwnersDocument(normal)'
      BY <1>1, <1>3, <1>5 DEF OwnersDocument
    <2>2. normal' = [k \in SavedKeys |-> normal'[k]]
      BY <1>1
    <2>3. \A x \in Calls : seen'[x] # NoDocument => OwnersDocument(seen'[x])
      BY <1>2, <1>3 DEF CarefulInv, OwnersEverywhere
    <2> QED
      BY <1>2, <2>1, <2>2, <2>3 DEF OwnersEverywhere, OwnersDocument
  <1>13. ReadsFit'
    <2>1. \A x \in Calls : Reading(x) => x = c
      BY <1>1 DEF CarefulInv, OneAtATime, Pending, Running
    <2>2. \A x : Reading(x)' <=> Reading(x)
      BY <1>1 DEF Reading
    <2>3. Saved(seen[c])' = Saved(config)
      BY <1>2 DEF Saved, SavedMode, SavedReserve, PutBack, ModeAndReserve
    <2> QED
      BY <1>1, <1>4, <1>7, <1>8, <2>1, <2>2, <2>3 DEF ReadsFit
  <1>14. SnapshotFits'
    BY <1>1, <1>4 DEF SnapshotFits
  <1>15. InForce'
    <2>1. OwnersInForce'
      BY <1>1, <1>6, <1>8 DEF OwnersInForce
    <2> QED
      BY <1>1, <1>4, <1>8, <2>1 DEF CarefulInv, TypeOK, InForce
  <1> QED
    BY <1>9, <1>10, <1>11, <1>12, <1>13, <1>14, <1>15 DEF CarefulInv

LEMMA ReadFailsInv ==
    ASSUME CarefulInv, NEW c \in Calls, ReadFails(c)
    PROVE  CarefulInv'
  <1>1. /\ Reading(c) /\ seen' = [seen EXCEPT ![c] = NoDocument]
        /\ op' = [op EXCEPT ![c] = "aborted"]
        /\ UNCHANGED <<config, asked, outcome, applied, snapshot, savedMode,
                       savedReserve, active, expired, normal, later, doubt>>
    BY DEF ReadFails, registerVars, snapshot, history
  <1>2. /\ \A x \in Calls \ {c} : seen'[x] = seen[x] /\ op'[x] = op[x]
        /\ seen'[c] = NoDocument /\ op'[c] = "aborted"
        /\ seen' = [x \in Calls |-> seen'[x]]
    BY <1>1 DEF CarefulInv, OwnersEverywhere, TypeOK
  <1>3. outcome[c] = "new" /\ c \notin applied
    BY <1>1 DEF CarefulInv, CallsFit, Reading
  <1>4. /\ ~ active /\ ~ doubt /\ \A x \in Calls : outcome[x] # "open"
        /\ OwnersInForce
    BY <1>1, IdleFacts DEF CarefulInv, ReadsFit
  <1>5. SameSettings
    BY <1>1 DEF SameSettings
  <1>6. TypeOK'
    BY <1>1, <1>2 DEF CarefulInv, TypeOK
  <1>7. CallsFit'
    BY <1>1, <1>2, <1>3 DEF CarefulInv, CallsFit, Reading
  <1>8. OneAtATime'
    BY <1>1, <1>2 DEF CarefulInv, OneAtATime, Running, Reading, Pending
  <1>9. OwnersEverywhere'
    BY <1>1, <1>2 DEF CarefulInv, OwnersEverywhere, OwnersDocument
  <1>10. ReadsFit'
    <2>1. \A x \in Calls : ~ Reading(x)'
      BY <1>1, <1>2 DEF CarefulInv, OneAtATime, Pending, Running, Reading
    <2> QED
      BY <2>1 DEF ReadsFit
  <1>11. SnapshotFits' /\ InForce'
    BY <1>1, <1>4, <1>5, SameSettingsFacts DEF CarefulInv, TypeOK, SnapshotFits, InForce
  <1> QED
    BY <1>6, <1>7, <1>8, <1>9, <1>10, <1>11 DEF CarefulInv

\* The snapshot is taken of settings that are the owner's.
LEMMA SaveInv ==
    ASSUME CarefulInv, NEW c \in Calls, NEW u \in CurtailUpdates, Save(c, u)
    PROVE  CarefulInv'
  <1>1. /\ Reading(c) /\ seen[c] # NoDocument
        /\ savedMode' = SavedMode(seen[c]) /\ savedReserve' = SavedReserve(seen[c])
        /\ seen' = [seen EXCEPT ![c] = NoDocument]
        /\ asked' = [asked EXCEPT ![c] = u]
        /\ outcome' = [outcome EXCEPT ![c] = "open"]
        /\ UNCHANGED <<config, applied, op, active, expired, normal, later, doubt>>
    BY DEF Save, Register!Begin, history
  <1>2. /\ \A x \in Calls \ {c} : /\ seen'[x] = seen[x] /\ asked'[x] = asked[x]
                                  /\ outcome'[x] = outcome[x]
        /\ seen'[c] = NoDocument /\ asked'[c] = u /\ outcome'[c] = "open"
        /\ seen' = [x \in Calls |-> seen'[x]]
    BY <1>1 DEF CarefulInv, OwnersEverywhere, TypeOK
  <1>3. /\ op[c] = "curtail" /\ outcome[c] = "new" /\ c \notin applied
        /\ ~ active /\ ~ doubt /\ \A x \in Calls : outcome[x] # "open"
        /\ \A k \in Captured : Saved(seen[c])[k] = Saved(normal)[k]
        /\ OwnersDocument(seen[c])
    BY <1>1 DEF CarefulInv, CallsFit, Reading, ReadsFit, OwnersEverywhere
  <1>4. OwnersInForce
    BY <1>3, IdleFacts
  <1>5. SameSettings
    BY <1>1 DEF SameSettings
  <1>6. TypeOK'
    <2>1. savedMode' \in ModeNames /\ IsWholePercent(savedReserve')
      BY <1>1, <1>3, SavedFacts
    <2>2. /\ asked' \in [Calls -> CurtailUpdates \cup RestoreUpdates \cup {NoUpdate}]
          /\ outcome' \in [Calls -> Register!Outcomes]
      BY <1>1 DEF CarefulInv, TypeOK, Register!Outcomes
    <2>3. \A x \in Calls : seen'[x] \in Config \cup {NoDocument}
      BY <1>2 DEF CarefulInv, TypeOK
    <2> QED
      BY <1>1, <2>1, <2>2, <2>3 DEF CarefulInv, TypeOK
  <1>7. CallsFit'
    BY <1>1, <1>2, <1>3 DEF CarefulInv, CallsFit, Reading
  <1>8. OneAtATime'
    BY <1>1, <1>2 DEF CarefulInv, OneAtATime, Running, Reading, Pending
  <1>9. OwnersEverywhere'
    BY <1>1, <1>2 DEF CarefulInv, OwnersEverywhere, OwnersDocument
  <1>10. ReadsFit'
    <2>1. \A x \in Calls \ {c} : ~ Reading(x)
      BY <1>1 DEF CarefulInv, OneAtATime, Running, Pending
    <2> QED
      BY <1>1, <1>2, <2>1 DEF ReadsFit, Reading
  <1>11. SnapshotFits'
    <2>1. PutBack(savedMode, savedReserve)' = Saved(seen[c])
      BY <1>1 DEF Saved, PutBack, ModeAndReserve
    <2>2. \A x \in Calls : ~ (op'[x] = "restore" /\ outcome'[x] = "open")
      BY <1>1, <1>2, <1>3
    <2>3. \A k \in Captured' : PutBack(savedMode, savedReserve)'[k] = Saved(normal)'[k]
      BY <1>3, <1>5, <2>1, SameSettingsFacts
    <2> QED
      BY <2>2, <2>3 DEF SnapshotFits
  <1>12. InForce'
    <2>1. \A x \in applied' : outcome'[x] # "open"
      BY <1>1, <1>2, <1>3 DEF CarefulInv, TypeOK
    <2> QED
      BY <1>1, <1>3, <1>4, <1>5, <2>1, SameSettingsFacts DEF InForce
  <1> QED
    BY <1>6, <1>7, <1>8, <1>9, <1>10, <1>11, <1>12 DEF CarefulInv

\* A restore writes what the snapshot holds.
LEMMA RestoreInv ==
    ASSUME CarefulInv, NEW c \in Calls, Engaged, Quiet, Restore(c)
    PROVE  CarefulInv'
  <1> DEFINE u == PutBack(savedMode, savedReserve)
  <1>1. /\ op[c] = "none" /\ op' = [op EXCEPT ![c] = "restore"]
        /\ asked' = [asked EXCEPT ![c] = u]
        /\ outcome' = [outcome EXCEPT ![c] = "open"]
        /\ UNCHANGED <<config, applied, seen, snapshot, savedMode, savedReserve, active,
                       expired, normal, later, doubt>>
    BY DEF Restore, Register!Begin, snapshot, history
  <1>2. /\ \A x \in Calls : ~ Pending(x) /\ ~ Reading(x) /\ outcome[x] # "open"
        /\ active \/ doubt
    BY DEF Quiet, Engaged, Pending, Running
  <1>3. u \in RestoreUpdates
    BY PutBackFacts DEF CarefulInv, TypeOK
  <1>4. u' = u
    BY <1>1, SameSnapshot
  <1> HIDE DEF u
  <1>5. /\ \A x \in Calls \ {c} : /\ op'[x] = op[x] /\ asked'[x] = asked[x]
                                  /\ outcome'[x] = outcome[x]
        /\ op'[c] = "restore" /\ asked'[c] = u /\ outcome'[c] = "open"
    BY <1>1 DEF CarefulInv, TypeOK
  <1>6. outcome[c] = "new" /\ c \notin applied /\ seen[c] = NoDocument
    BY <1>1, <1>2 DEF CarefulInv, CallsFit
  <1>7. SameSettings
    BY <1>1 DEF SameSettings
  <1>8. TypeOK'
    <2>1. /\ asked' \in [Calls -> CurtailUpdates \cup RestoreUpdates \cup {NoUpdate}]
          /\ outcome' \in [Calls -> Register!Outcomes]
          /\ op' \in [Calls -> {"none", "curtail", "restore", "aborted"}]
      BY <1>1, <1>3 DEF CarefulInv, TypeOK, Register!Outcomes
    <2> QED
      BY <1>1, <2>1 DEF CarefulInv, TypeOK
  <1>9. CallsFit'
    BY <1>1, <1>2, <1>3, <1>5, <1>6 DEF CarefulInv, CallsFit, Reading
  <1>10. OneAtATime'
    <2>1. \A x \in Calls \ {c} : ~ Pending(x)'
      BY <1>1, <1>2, <1>5 DEF Pending, Running, Reading
    <2> QED
      BY <2>1 DEF OneAtATime
  <1>11. OwnersEverywhere'
    BY <1>1 DEF CarefulInv, OwnersEverywhere, OwnersDocument
  <1>12. ReadsFit'
    BY <1>2, <1>5 DEF ReadsFit, Reading
  <1>13. SnapshotFits'
    <2>1. \A k \in Captured : u[k] = Saved(normal)[k]
      BY <1>2 DEF CarefulInv, SnapshotFits, u
    <2>2. \A x \in Calls : op'[x] = "restore" /\ outcome'[x] = "open" => asked'[x] = u
      BY <1>2, <1>5
    <2> QED
      BY <1>4, <1>7, <2>1, <2>2, SameSettingsFacts DEF SnapshotFits, u
  <1>14. InForce'
    <2>1. Settled' => Settled
      BY <1>1, <1>5, <1>6 DEF Settled
    <2>2. \A x \in applied : x # c /\ outcome[x] # "open"
      BY <1>2, <1>6 DEF CarefulInv, TypeOK
    <2>3. \A x \in applied : /\ op'[x] = op[x] /\ asked'[x] = asked[x]
                             /\ outcome'[x] = outcome[x]
      BY <1>5, <2>2 DEF CarefulInv, TypeOK
    <2>4. \A x \in Calls : ~ PostedCurtail(x)'
      BY <1>1, <1>2, <1>5 DEF PostedCurtail, Pending
    <2> QED
      BY <1>1, <1>7, <2>1, <2>2, <2>3, <2>4, SameSettingsFacts DEF CarefulInv, InForce
  <1> QED
    BY <1>8, <1>9, <1>10, <1>11, <1>12, <1>13, <1>14 DEF CarefulInv

\* The flag follows the write that returned, whose settings are in force.
LEMMA ReturnInv ==
    ASSUME CarefulInv, NEW c \in Calls, Return(c)
    PROVE  CarefulInv'
  <1>1. /\ c \in applied /\ outcome[c] = "open"
        /\ outcome' = [outcome EXCEPT ![c] = "returned"]
        /\ active' = (op[c] = "curtail")
        /\ doubt' = (doubt /\ op[c] = "curtail")
        /\ UNCHANGED <<config, asked, applied, op, seen, snapshot, savedMode,
                       savedReserve, expired, normal, later>>
    BY DEF Return, Register!Return, Register!End, snapshot
  <1>2. /\ \A x \in Calls \ {c} : outcome'[x] = outcome[x]
        /\ outcome'[c] = "returned"
    BY <1>1 DEF CarefulInv, TypeOK
  <1>3. \A x \in Calls \ {c} : ~ Reading(x) /\ outcome[x] # "open" /\ ~ Pending(x)
    BY <1>1 DEF CarefulInv, OneAtATime, Running, Pending
  <1>4. op[c] \in {"curtail", "restore"}
    BY <1>1 DEF CarefulInv, CallsFit, TypeOK
  <1>5. SameSettings
    BY <1>1 DEF SameSettings
  <1>6. TypeOK'
    <2>1. /\ outcome' \in [Calls -> Register!Outcomes] /\ active' \in BOOLEAN
          /\ doubt' \in BOOLEAN
      BY <1>1 DEF CarefulInv, TypeOK, Register!Outcomes
    <2> QED
      BY <1>1, <2>1 DEF CarefulInv, TypeOK
  <1>7. CallsFit'
    <2>1. \A x \in Calls : outcome'[x] = "unknown" => x \in applied' \cup expired'
      BY <1>1, <1>2, <1>3 DEF Pending
    <2> QED
      BY <1>1, <1>2, <2>1 DEF CarefulInv, CallsFit, Reading
  <1>8. OneAtATime'
    BY <1>1, <1>2 DEF CarefulInv, OneAtATime, Running, Reading, Pending
  <1>9. OwnersEverywhere'
    BY <1>1 DEF CarefulInv, OwnersEverywhere, OwnersDocument
  <1>10. ReadsFit'
    BY <1>1, <1>2, <1>3 DEF ReadsFit, Reading
  <1>11. \A k \in Captured : PutBack(savedMode, savedReserve)[k] = Saved(normal)[k]
    BY <1>1 DEF CarefulInv, SnapshotFits
  <1>12. SnapshotFits'
    <2>1. \A x \in Calls : outcome'[x] # "open"
      BY <1>2, <1>3
    <2>2. PutBack(savedMode, savedReserve)' = PutBack(savedMode, savedReserve)
      BY <1>1, SameSnapshot
    <2> QED
      BY <1>5, <1>11, <2>1, <2>2, SameSettingsFacts DEF SnapshotFits
  <1>13. InForce'
    <2>1. \A k \in Captured' : config'[k] = asked'[c][k]
      BY <1>1, <1>5, SameSettingsFacts DEF CarefulInv, InForce
    <2>2. \A x \in applied' : outcome'[x] # "open"
      BY <1>1, <1>2, <1>3 DEF CarefulInv, TypeOK
    <2>3. \A x \in Calls : ~ PostedCurtail(x)'
      BY <1>1, <1>2, <1>3 DEF PostedCurtail, Pending
    <2>4. op'[c] = op[c] /\ c \in applied'
      BY <1>1
    <2>5. CASE op[c] = "curtail"
      <3>1. active' = TRUE
        BY <1>1, <2>5
      <3> QED
        BY <2>1, <2>2, <2>3, <2>4, <2>5, <3>1 DEF InForce
    <2>6. CASE op[c] = "restore"
      <3>1. active' = FALSE
        BY <1>1, <2>6
      <3>2. asked'[c] = PutBack(savedMode, savedReserve)
        BY <1>1, <2>6 DEF CarefulInv, SnapshotFits
      <3>3. OwnersInForce'
        BY <1>5, <1>11, <2>1, <3>2, SameSettingsFacts DEF OwnersInForce
      <3> QED
        BY <2>2, <2>3, <3>1, <3>3 DEF InForce
    <2> QED
      BY <1>4, <2>5, <2>6
  <1> QED
    BY <1>6, <1>7, <1>8, <1>9, <1>10, <1>12, <1>13 DEF CarefulInv

\* A write that raised with nothing merged leaves all as it was; any other leaves
\* it in doubt.
LEMMA RaiseInv ==
    ASSUME CarefulInv, NEW c \in Calls, Raise(c)
    PROVE  CarefulInv'
  <1>1. /\ outcome[c] = "open"
        /\ \/ /\ c \notin applied /\ outcome' = [outcome EXCEPT ![c] = "failed"]
              /\ doubt' = doubt
           \/ outcome' = [outcome EXCEPT ![c] = "unknown"] /\ doubt' = TRUE
        /\ UNCHANGED <<config, asked, applied, op, seen, snapshot, savedMode,
                       savedReserve, active, expired, normal, later>>
    BY DEF Raise, Register!Fail, Register!GiveUp, Register!End, snapshot
  <1>2. /\ \A x \in Calls \ {c} : outcome'[x] = outcome[x]
        /\ \/ c \notin applied /\ outcome'[c] = "failed" /\ doubt' = doubt
           \/ outcome'[c] = "unknown" /\ doubt' = TRUE
    BY <1>1 DEF CarefulInv, TypeOK
  <1>3. \A x \in Calls \ {c} : ~ Reading(x) /\ outcome[x] # "open" /\ ~ Pending(x)
    BY <1>1 DEF CarefulInv, OneAtATime, Running, Pending
  <1>4. SameSettings
    BY <1>1 DEF SameSettings
  <1>5. TypeOK'
    <2>1. outcome' \in [Calls -> Register!Outcomes] /\ doubt' \in BOOLEAN
      BY <1>1 DEF CarefulInv, TypeOK, Register!Outcomes
    <2> QED
      BY <1>1, <2>1 DEF CarefulInv, TypeOK
  <1>6. CallsFit'
    BY <1>1, <1>2 DEF CarefulInv, CallsFit, Reading
  <1>7. OneAtATime'
    <2>1. \A x \in Calls \ {c} : ~ Pending(x)'
      BY <1>1, <1>2, <1>3 DEF Pending, Running, Reading
    <2> QED
      BY <2>1 DEF OneAtATime
  <1>8. OwnersEverywhere'
    BY <1>1 DEF CarefulInv, OwnersEverywhere, OwnersDocument
  <1>9. ReadsFit'
    BY <1>1, <1>2, <1>3 DEF ReadsFit, Reading
  <1>10. SnapshotFits'
    <2>1. \A k \in Captured : PutBack(savedMode, savedReserve)[k] = Saved(normal)[k]
      BY <1>1 DEF CarefulInv, SnapshotFits
    <2>2. PutBack(savedMode, savedReserve)' = PutBack(savedMode, savedReserve)
      BY <1>1, SameSnapshot
    <2>3. \A x \in Calls : outcome'[x] # "open"
      BY <1>2, <1>3
    <2> QED
      BY <1>4, <2>1, <2>2, <2>3, SameSettingsFacts DEF SnapshotFits
  <1>11. InForce'
    <2>1. \A x \in applied' : outcome'[x] # "open"
      BY <1>1, <1>2, <1>3 DEF CarefulInv, TypeOK
    <2>2. Settled' => Settled
      BY <1>1, <1>2 DEF Settled
    <2>3. \A x \in Calls : PostedCurtail(x)' => PostedCurtail(x)
      BY <1>1, <1>2 DEF PostedCurtail
    <2> QED
      BY <1>1, <1>4, <2>1, <2>2, <2>3, SameSettingsFacts DEF CarefulInv, InForce
  <1> QED
    BY <1>5, <1>6, <1>7, <1>8, <1>9, <1>10, <1>11 DEF CarefulInv

\* A merge is the one pending call's; after it nothing is settled until a call
\* returns.
LEMMA ApplyInv ==
    ASSUME CarefulInv, NEW c \in Calls, Apply(c)
    PROVE  CarefulInv'
  <1>1. /\ c \notin expired /\ c \notin applied /\ outcome[c] \in {"open", "unknown"}
        /\ config' = Stored(ApplyUpdates(config, asked[c]))
        /\ applied' = applied \cup {c}
        /\ UNCHANGED <<asked, outcome, op, seen, snapshot, savedMode, savedReserve,
                       active, expired, normal, later, doubt>>
    <2>1. c \notin expired /\ Register!Apply(c)
      BY DEF Apply
    <2>2. UNCHANGED <<op, seen, snapshot, savedMode, savedReserve, active, expired,
                      normal, later, doubt>>
      BY DEF Apply, snapshot, history
    <2> QED
      BY <2>1, <2>2, RegisterFacts DEF Register!Apply
  <1>2. \A x \in Calls \ {c} : ~ Running(x) /\ ~ Pending(x)
    BY <1>1 DEF CarefulInv, OneAtATime, Running, Pending
  <1>3. asked[c] \in CurtailUpdates \cup RestoreUpdates
    BY <1>1 DEF CarefulInv, CallsFit
  <1>4. DOMAIN asked[c] = SavedKeys /\ IsUpdate(asked[c]) /\ OwnersDocument(asked[c])
    BY <1>3, UpdateFacts
  <1>5. config' \in Config /\ \A k \in SavedKeys : config'[k] = asked[c][k]
    BY <1>1, <1>4, MergeFacts DEF CarefulInv, TypeOK
  <1>6. TypeOK'
    BY <1>1, <1>5 DEF CarefulInv, TypeOK
  <1>7. CallsFit'
    BY <1>1 DEF CarefulInv, CallsFit, Reading
  <1>8. OneAtATime'
    BY <1>1 DEF CarefulInv, OneAtATime, Running, Reading, Pending
  <1>9. OwnersEverywhere'
    BY <1>1, <1>4, <1>5 DEF CarefulInv, OwnersEverywhere, OwnersDocument
  <1>10. ReadsFit'
    <2>1. ~ Reading(c)
      BY <1>1 DEF Reading
    <2> QED
      BY <1>1, <1>2, <2>1 DEF ReadsFit, Reading, Running
  <1>11. SnapshotFits'
    <2>1. /\ Saved(normal)' = Saved(normal) /\ Captured' = Captured
          /\ PutBack(savedMode, savedReserve)' = PutBack(savedMode, savedReserve)
      BY <1>1 DEF Saved, SavedMode, SavedReserve, PutBack, ModeAndReserve, Captured
    <2> QED
      BY <1>1, <2>1 DEF CarefulInv, SnapshotFits
  <1>12. InForce'
    <2>1. ~ Settled'
      BY <1>1 DEF CarefulInv, CallsFit, Settled
    <2>2. \A x \in applied' : outcome'[x] = "open" => x = c
      BY <1>1, <1>2 DEF CarefulInv, TypeOK, Running
    <2>3. \A x \in Calls : ~ PostedCurtail(x)'
      BY <1>1, <1>2 DEF PostedCurtail, Pending, Running
    <2>4. \A k \in Captured' : config'[k] = asked'[c][k]
      BY <1>1, <1>5 DEF Captured
    <2> QED
      BY <2>1, <2>2, <2>3, <2>4 DEF InForce
  <1> QED
    BY <1>6, <1>7, <1>8, <1>9, <1>10, <1>11, <1>12 DEF CarefulInv

\* A step that leaves all but the expired requests alone.
LEMMA StillInv ==
    ASSUME CarefulInv, expired \subseteq expired', expired' \subseteq Calls,
           UNCHANGED <<config, asked, outcome, applied, op, seen, snapshot, savedMode,
                       savedReserve, active, normal, later, doubt>>
    PROVE  CarefulInv'
  <1>1. SameSettings
    BY DEF SameSettings
  <1>2. TypeOK' /\ CallsFit' /\ OneAtATime'
    BY DEF CarefulInv, TypeOK, CallsFit, OneAtATime, Running, Reading, Pending
  <1>3. OwnersEverywhere'
    BY DEF CarefulInv, OwnersEverywhere, OwnersDocument
  <1>4. ReadsFit'
    <2>1. \A x \in Calls : Saved(seen[x])' = Saved(seen[x])
      BY DEF Saved, SavedMode, SavedReserve, PutBack, ModeAndReserve
    <2> QED
      BY <1>1, <2>1, SameSettingsFacts DEF CarefulInv, ReadsFit, Reading
  <1>5. SnapshotFits'
    BY <1>1, SameSettingsFacts, SameSnapshot DEF CarefulInv, SnapshotFits
  <1>6. InForce'
    <2>1. Settled' => Settled
      BY DEF Settled
    <2>2. \A x \in Calls : PostedCurtail(x)' => PostedCurtail(x)
      BY DEF PostedCurtail
    <2> QED
      BY <1>1, <2>1, <2>2, SameSettingsFacts DEF CarefulInv, InForce
  <1> QED
    BY <1>2, <1>3, <1>4, <1>5, <1>6 DEF CarefulInv

\* The owner, or anyone else, writes: a setting that nothing has captured is
\* theirs, and one that a curtail has captured is theirs since.
LEMMA ForeignInv ==
    ASSUME CarefulInv, NEW u \in ForeignAsks, Foreign(u)
    PROVE  CarefulInv'
  <1>1. /\ config' = Stored(ApplyUpdates(config, u))
        /\ normal' = [k \in SavedKeys |-> IF k \in DOMAIN u THEN u[k] ELSE normal[k]]
        /\ later' = IF Engaged THEN later \cup (DOMAIN u \cap SavedKeys)
                               ELSE later \ DOMAIN u
        /\ UNCHANGED <<asked, outcome, applied, op, seen, snapshot, savedMode,
                       savedReserve, active, expired, doubt>>
    <2>1. /\ Register!Foreign(u)
          /\ normal' = [k \in SavedKeys |-> IF k \in DOMAIN u THEN u[k] ELSE normal[k]]
          /\ later' = IF Engaged THEN later \cup (DOMAIN u \cap SavedKeys)
                                 ELSE later \ DOMAIN u
      BY DEF Foreign
    <2>2. UNCHANGED <<op, seen, snapshot, savedMode, savedReserve, active, expired, doubt>>
      BY DEF Foreign, snapshot
    <2> QED
      BY <2>1, <2>2, RegisterFacts DEF Register!Foreign
  <1>2. /\ IsUpdate(u)
        /\ \A k \in SavedKeys \cap DOMAIN u : OwnersValue(k, u[k])
    BY CurtailmentAssumption
  <1>3. /\ config' \in Config
        /\ \A k \in SavedKeys : config'[k] = IF k \in DOMAIN u THEN u[k] ELSE config[k]
    BY <1>1, <1>2, MergeFacts DEF CarefulInv, TypeOK
  <1>4. /\ OwnersDocument(config)' /\ OwnersDocument(normal)'
        /\ OwnersDocument(normal) /\ OwnersDocument(normal')
    BY <1>1, <1>2, <1>3 DEF CarefulInv, OwnersEverywhere, OwnersDocument
  <1>5. TypeOK'
    BY <1>1, <1>3 DEF CarefulInv, TypeOK
  <1>6. CallsFit' /\ OneAtATime'
    BY <1>1 DEF CarefulInv, CallsFit, OneAtATime, Running, Reading, Pending
  <1>7. OwnersEverywhere'
    BY <1>1, <1>4 DEF CarefulInv, OwnersEverywhere, OwnersDocument
  <1>8. /\ \A k : Saved(normal)'[k] = Saved(normal')[k]
        /\ \A x \in Calls : Saved(seen[x])' = Saved(seen[x])
        /\ PutBack(savedMode, savedReserve)' = PutBack(savedMode, savedReserve)
    BY <1>1 DEF Saved, SavedMode, SavedReserve, PutBack, ModeAndReserve
  <1>9. \A k \in SavedKeys \ DOMAIN u : /\ config'[k] = config[k]
                                        /\ normal'[k] = normal[k]
                                        /\ Saved(normal)'[k] = Saved(normal)[k]
    <2> SUFFICES ASSUME NEW k \in SavedKeys \ DOMAIN u
                 PROVE  /\ config'[k] = config[k]
                        /\ normal'[k] = normal[k]
                        /\ Saved(normal)'[k] = Saved(normal)[k]
      OBVIOUS
    <2>1. config'[k] = config[k] /\ normal'[k] = normal[k]
      BY <1>1, <1>3
    <2>2. Saved(normal')[k] = Saved(normal)[k]
      BY <1>4, <2>1, SavedByKey
    <2> QED
      BY <1>8, <2>1, <2>2
  <1>10. CASE Engaged
    <2>1. \A k \in Captured' : k \in Captured /\ k \in SavedKeys \ DOMAIN u
      BY <1>1, <1>10 DEF Captured
    <2>2. \A k \in Captured' : /\ config'[k] = config[k] /\ normal'[k] = normal[k]
                               /\ Saved(normal)'[k] = Saved(normal)[k]
      BY <1>9, <2>1
    <2>3. ReadsFit'
      BY <1>1, <1>8, <2>1, <2>2 DEF CarefulInv, ReadsFit, Reading
    <2>4. SnapshotFits'
      BY <1>1, <1>8, <2>1, <2>2 DEF CarefulInv, SnapshotFits
    <2>5. OwnersInForce => OwnersInForce'
      BY <2>1, <2>2 DEF OwnersInForce
    <2>6. (Settled' <=> Settled) /\ \A x \in Calls : PostedCurtail(x)' => PostedCurtail(x)
      BY <1>1 DEF Settled, PostedCurtail
    <2>7. InForce'
      BY <1>1, <2>1, <2>2, <2>5, <2>6 DEF CarefulInv, InForce
    <2> QED
      BY <1>5, <1>6, <1>7, <2>3, <2>4, <2>7 DEF CarefulInv
  <1>11. CASE ~ Engaged
    <2>1. /\ ~ active /\ ~ doubt
          /\ \A x \in Calls : ~ Reading(x) /\ outcome[x] # "open"
      BY <1>11 DEF Engaged, Running
    <2>2. OwnersInForce
      BY <2>1, IdleFacts
    <2>3. ReadsFit' /\ SnapshotFits'
      BY <1>1, <2>1 DEF ReadsFit, SnapshotFits, Reading
    <2>4. OwnersInForce'
      <3> SUFFICES ASSUME NEW k \in Captured'
                   PROVE  config'[k] \in {normal'[k], Saved(normal)'[k]}
        BY DEF OwnersInForce
      <3>1. k \in SavedKeys /\ (k \in DOMAIN u \/ k \in Captured)
        BY <1>1, <1>11 DEF Captured
      <3>2. CASE k \in DOMAIN u
        BY <1>1, <1>3, <3>1, <3>2
      <3>3. CASE k \notin DOMAIN u
        BY <1>9, <2>2, <3>1, <3>3 DEF OwnersInForce
      <3> QED
        BY <3>2, <3>3
    <2>5. InForce'
      BY <1>1, <2>1, <2>4 DEF CarefulInv, TypeOK, InForce
    <2> QED
      BY <1>5, <1>6, <1>7, <2>3, <2>5 DEF CarefulInv
  <1> QED
    BY <1>10, <1>11

LEMMA CarefulStep == CarefulInv /\ [CarefulNext]_vars => CarefulInv'
  <1> SUFFICES ASSUME CarefulInv, [CarefulNext]_vars
               PROVE  CarefulInv'
    OBVIOUS
  <1>1. ASSUME NEW c \in Calls, ~ Engaged, Curtail(c)
        PROVE  CarefulInv'
    BY <1>1, CurtailInv
  <1>2. ASSUME NEW c \in Calls, Engaged, Quiet, Restore(c)
        PROVE  CarefulInv'
    BY <1>2, RestoreInv
  <1>3. ASSUME NEW c \in Calls, Expire(c)
        PROVE  CarefulInv'
    <2>1. /\ expired' = expired \cup {c}
          /\ UNCHANGED <<config, asked, outcome, applied, op, seen, snapshot, savedMode,
                         savedReserve, active, normal, later, doubt>>
      BY <1>3 DEF Expire, registerVars, snapshot, history
    <2>2. expired' \subseteq Calls
      BY <2>1 DEF CarefulInv, TypeOK
    <2> QED
      BY <2>1, <2>2, StillInv
  <1>4. ASSUME NEW c \in Calls, Progress(c)
        PROVE  CarefulInv'
    BY <1>3, <1>4, ReadConfigInv, ReadFailsInv, SaveInv, ReturnInv, RaiseInv, ApplyInv
       DEF Progress
  <1>5. ASSUME NEW u \in ForeignAsks, Foreign(u)
        PROVE  CarefulInv'
    BY <1>5, ForeignInv
  <1>6. CASE UNCHANGED vars
    <2>1. /\ expired' = expired
          /\ UNCHANGED <<config, asked, outcome, applied, op, seen, snapshot, savedMode,
                         savedReserve, active, normal, later, doubt>>
      BY <1>6 DEF vars, registerVars, snapshot, history
    <2>2. expired' \subseteq Calls
      BY <2>1 DEF CarefulInv, TypeOK
    <2> QED
      BY <2>1, <2>2, StillInv
  <1> QED
    BY <1>1, <1>2, <1>4, <1>5, <1>6 DEF CarefulNext, CarefulCall

LEMMA CarefulInvariance == CarefulSpec => []CarefulInv
  BY InitInv, CarefulStep, PTL DEF CarefulSpec

-----------------------------------------------------------------------------
(* Theorems.                                                               *)

\* Every variable keeps its type: in particular the snapshot holds a mode and a
\* whole percentage, whatever the owner's settings are.
THEOREM TypeCorrect == CarefulSpec => []TypeOK
  <1>1. CarefulInv => TypeOK
    BY DEF CarefulInv
  <1> QED
    BY <1>1, CarefulInvariance, PTL

\* The flag of a careful caller's client tells whose settings are in force, also
\* after a call that raised, once a restore has returned.
THEOREM FlagIsTrue == CarefulSpec => []FlagTellsTheSettings
  <1>1. ASSUME CarefulInv
        PROVE  FlagTellsTheSettings
    <2> SUFFICES ASSUME ~ doubt, \A c \in Calls : ~ Running(c)
                 PROVE  IF active
                        THEN \E c \in applied : /\ op[c] = "curtail"
                                                /\ \A k \in SavedKeys \ later :
                                                      config[k] = asked[c][k]
                        ELSE \A k \in SavedKeys \ later :
                                 config[k] \in {normal[k], Normal[k]}
      BY DEF FlagTellsTheSettings
    <2>1. Settled
      BY DEF Settled, Running
    <2> QED
      BY <1>1, <2>1 DEF CarefulInv, InForce, OwnersInForce, Captured, Normal
  <1> QED
    BY <1>1, CarefulInvariance, PTL

\* For any number of calls, lost replies and late writes, and whenever the owner
\* writes: when restore_from_curtailment returns, the settings the owner has not
\* written since are in force again.
THEOREM RestoresPutBack == CarefulSpec => RestorePutsBack
  <1>1. ASSUME CarefulInv, NEW c \in Calls, RestoreReturns(c)
        PROVE  \A k \in SavedKeys \ later : config'[k] = Normal[k]
    <2>1. /\ op[c] = "restore" /\ c \in applied /\ outcome[c] = "open"
          /\ config' = config
      BY <1>1 DEF RestoreReturns, Return, Register!Return, Register!End
    <2>2. \A k \in Captured : asked[c][k] = Normal[k]
      BY <1>1, <2>1 DEF CarefulInv, SnapshotFits, Normal
    <2> QED
      BY <1>1, <2>1, <2>2 DEF CarefulInv, InForce, Captured
  <1>2. CarefulInv => [ \A c \in Calls : RestoreReturns(c) =>
                            \A k \in SavedKeys \ later : config'[k] = Normal[k] ]_vars
    BY <1>1
  <1> QED
    BY <1>2, CarefulInvariance, PTL DEF RestorePutsBack

\* However long a curtail's write_config takes, even if it raised before, and
\* though the owner may write between its two requests: what its merge replaces is
\* what the snapshot would put back, but for the settings so written.
THEOREM SavesTheReplaced == CarefulSpec => SavesWhatItReplaces
  <1>1. ASSUME CarefulInv, NEW c \in Calls, op[c] = "curtail", Apply(c),
               NEW k \in SavedKeys \ later
        PROVE  PutBack(savedMode, savedReserve)[k] = Saved(config)[k]
    <2>1. outcome[c] \in {"open", "unknown"} /\ c \notin applied \cup expired
      BY <1>1 DEF Apply, Register!Apply
    <2>2. config[k] \in {normal[k], Saved(normal)[k]}
      BY <1>1, <2>1 DEF CarefulInv, InForce, PostedCurtail, OwnersInForce, Captured
    <2>3. Saved(config)[k] = Saved(normal)[k]
      BY <1>1, <2>2, SavedByKey DEF CarefulInv, OwnersEverywhere
    <2>4. active \/ doubt \/ \E d \in Calls : outcome[d] = "open"
      BY <1>1, <2>1 DEF CarefulInv, CallsFit
    <2> QED
      BY <1>1, <2>3, <2>4 DEF CarefulInv, SnapshotFits, Captured
  <1>2. CarefulInv =>
            [ \A c \in Calls : op[c] = "curtail" /\ Apply(c) =>
                  \A k \in SavedKeys \ later :
                      PutBack(savedMode, savedReserve)[k] = Saved(config)[k] ]_vars
    BY <1>1
  <1> QED
    BY <1>2, CarefulInvariance, PTL DEF SavesWhatItReplaces

-----------------------------------------------------------------------------
(* The composition.                                                        *)

\* A restore asks for something it may ask for, whoever calls what and when.
LEMMA RestoreAsks ==
    ASSUME TypeOK
    PROVE  PutBack(savedMode, savedReserve) \in CurtailUpdates \cup RestoreUpdates
  BY PutBackFacts DEF TypeOK

\* Both calls use write_config as ConfigRegister lets them, which ConfigStore
\* implements: to the register every step is one of its own or none.
THEOREM UsesTheRegister == CarefulSpec => Register!Spec
  <1>1. Init => Register!Init
    BY DEF Init
  <1>2. ASSUME TypeOK, [CarefulNext]_vars
        PROVE  [Register!Next]_Register!registerVars
    <2>1. ASSUME NEW c \in Calls, Curtail(c) \/ ReadConfig(c) \/ ReadFails(c) \/ Expire(c)
          PROVE  UNCHANGED Register!registerVars
      BY <2>1 DEF Curtail, ReadConfig, ReadFails, Expire, registerVars,
                  Register!registerVars
    <2>2. ASSUME NEW c \in Calls, Restore(c)
          PROVE  Register!Next
      BY <1>2, <2>2, RestoreAsks DEF Restore, Register!Next
    <2>3. ASSUME NEW c \in Calls, NEW u \in CurtailUpdates, Save(c, u)
          PROVE  Register!Next
      BY <2>3 DEF Save, Register!Next
    <2>4. ASSUME NEW c \in Calls, Return(c) \/ Raise(c) \/ Apply(c)
          PROVE  Register!Next
      BY <2>4 DEF Return, Raise, Apply, Register!Next
    <2>5. ASSUME NEW u \in ForeignAsks, Foreign(u)
          PROVE  Register!Next
      BY <2>5 DEF Foreign, Register!Next
    <2>6. CASE UNCHANGED vars
      BY <2>6 DEF vars, registerVars, Register!registerVars
    <2>7. ASSUME NEW c \in Calls, CarefulCall(c)
          PROVE  [Register!Next]_Register!registerVars
      BY <2>1, <2>2, <2>3, <2>4, <2>7 DEF CarefulCall, Progress
    <2> QED
      BY <1>2, <2>5, <2>6, <2>7 DEF CarefulNext
  <1> QED
    BY <1>1, <1>2, TypeCorrect, PTL DEF CarefulSpec, Register!Spec
=============================================================================
