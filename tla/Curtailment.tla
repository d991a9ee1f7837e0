---------------------------- MODULE Curtailment -----------------------------
(***************************************************************************)
(* PowerwallClient.curtail and restore_from_curtailment: read the          *)
(* configuration, save its operation mode and reserve, write "backup" and  *)
(* a high reserve; later write back what was saved.  The snapshot and the  *)
(* flag curtailment_active live in the client, the settings on the         *)
(* gateway.                                                                *)
(*                                                                         *)
(* write_config is what ConfigRegister promises of it: one atomic merge,   *)
(* which a call that raised may still cause later, until the signature of  *)
(* its request expires.  Every write by others, an app or another setter   *)
(* of this client, is a Foreign merge.                                     *)
(***************************************************************************)
EXTENDS SiteConfig

CONSTANTS Calls,          \* the calls of curtail and restore_from_curtailment
          ForeignAsks,    \* the updates made by anyone else
          FactoryConfigs  \* the documents the gateway may start from

VARIABLES config,        \* the document the gateway holds
          asked,         \* the update each call handed to write_config
          outcome,       \* how far its write_config is
          applied,       \* the calls whose update was merged
          op,            \* what each call is
          seen,          \* the document get_config brings a curtail
          savedMode,     \* _saved_real_mode
          savedReserve,  \* _saved_reserve_percent
          active,        \* _curtailment_active
          expired,       \* the calls whose request can no longer be accepted
          normal,        \* history: the settings as their owner left them
          later,         \* history: those left so since a curtail read them
          doubt          \* history: a write raised that may have been merged

snapshot     == <<savedMode, savedReserve>>
registerVars == <<config, asked, outcome, applied>>
history      == <<normal, later, doubt>>
vars == <<registerVars, op, seen, snapshot, active, expired, history>>

Mode    == "default_real_mode"
Reserve == "backup_reserve_percent"
SavedKeys == {Mode, Reserve}

\* None, for a snapshot never taken and for a get_config not yet answered.
NoValue    == Absent
NoDocument == NoUpdate

ModeNames == {Str(mode) : mode \in OperationModes}

IsWholePercent(v) == v \in {Num(100 * p) : p \in 0 .. 100}

-----------------------------------------------------------------------------
(* The snapshot.                                                           *)

\* A mistake for the runs to find: the reserve is saved as it is.
AsItIs(v) == v

\* int() of the reserve: in hundredths, down to the whole percent; a default
\* for what is no number.
Whole(v) == IF v[1] = "num" THEN Num(100 * (v[2] \div 100)) ELSE Num(500)

\* A mode or a reserve that is not set is saved as a default.
SavedMode(document) ==
    IF document[Mode] = Absent THEN Str("self_consumption") ELSE document[Mode]

SavedReserve(document) ==
    IF document[Reserve] = Absent THEN Num(500) ELSE Whole(document[Reserve])

\* What restore_from_curtailment writes: the snapshot, or the defaults.
PutBack(mode, reserve) ==
    ModeAndReserve(IF mode = NoValue THEN Str("self_consumption") ELSE mode,
                   IF reserve = NoValue THEN Num(500) ELSE reserve)

CurtailUpdates ==
    {ModeAndReserve(Str("backup"), Num(100 * p)) :
        p \in {q \in Percents : IsPercent(q)}}

RestoreUpdates ==
    {PutBack(mode, Num(100 * p)) : mode \in ModeNames, p \in 0 .. 100}

\* What an owner may have: a mode, a reserve in hundredths of a percent or one
\* that is no number, or neither set.
Reserves == {Num(n) : n \in 0 .. 10000} \cup {Str(s) : s \in Strings}

OwnersValue(k, v) == v = Absent \/ v \in IF k = Mode THEN ModeNames ELSE Reserves

ASSUME CurtailmentAssumption ==
    /\ Percents \subseteq Int
    /\ \A document \in FactoryConfigs :
          document \in Config /\ \A k \in SavedKeys : OwnersValue(k, document[k])
    /\ \A u \in ForeignAsks :
          IsUpdate(u) /\ \A k \in SavedKeys \cap DOMAIN u : OwnersValue(k, u[k])

Register == INSTANCE ConfigRegister WITH Asks <- CurtailUpdates \cup RestoreUpdates

-----------------------------------------------------------------------------
TypeOK == /\ config \in Config
          /\ asked \in [Calls -> CurtailUpdates \cup RestoreUpdates \cup {NoUpdate}]
          /\ outcome \in [Calls -> Register!Outcomes]
          /\ applied \subseteq Calls
          /\ op \in [Calls -> {"none", "curtail", "restore", "aborted"}]
          /\ \A c \in Calls : seen[c] \in Config \cup {NoDocument}
          /\ savedMode \in ModeNames \cup {NoValue}
          /\ savedReserve = NoValue \/ IsWholePercent(savedReserve)
          /\ active \in BOOLEAN
          /\ expired \subseteq Calls
          /\ DOMAIN normal = SavedKeys
          /\ later \subseteq SavedKeys
          /\ doubt \in BOOLEAN

Init == /\ Register!Init
        /\ op = [c \in Calls |-> "none"]
        /\ seen = [c \in Calls |-> NoDocument]
        /\ savedMode = NoValue
        /\ savedReserve = NoValue
        /\ active = FALSE
        /\ expired = {}
        /\ normal = [k \in SavedKeys |-> config[k]]
        /\ later = {}
        /\ doubt = FALSE

-----------------------------------------------------------------------------
(* curtail()                                                               *)

Reading(c) == op[c] = "curtail" /\ outcome[c] = "new"

\* curtail is called and asks for the configuration.
Curtail(c) == /\ op[c] = "none"
              /\ op' = [op EXCEPT ![c] = "curtail"]
              /\ UNCHANGED <<registerVars, seen, snapshot, active, expired, history>>

\* The gateway answers get_config.
ReadConfig(c) == /\ Reading(c)
                 /\ seen[c] = NoDocument
                 /\ seen' = [seen EXCEPT ![c] = config]
                 /\ normal' = [k \in SavedKeys |->
                                  IF k \in later THEN config[k] ELSE normal[k]]
                 /\ later' = {}
                 /\ UNCHANGED <<registerVars, op, snapshot, active, expired, doubt>>

\* get_config raises: nothing was saved.
ReadFails(c) == /\ Reading(c)
                /\ op' = [op EXCEPT ![c] = "aborted"]
                /\ seen' = [seen EXCEPT ![c] = NoDocument]
                /\ UNCHANGED <<registerVars, snapshot, active, expired, history>>

\* A mistake for the runs to find: the flag is raised before the write.
SaveAndFlag(c, u) == /\ Reading(c)
                     /\ seen[c] # NoDocument
                     /\ savedMode' = SavedMode(seen[c])
                     /\ savedReserve' = SavedReserve(seen[c])
                     /\ seen' = [seen EXCEPT ![c] = NoDocument]
                     /\ active' = TRUE
                     /\ Register!Begin(c, u)
                     /\ UNCHANGED <<op, expired, history>>

\* A mistake for the runs to find: what was saved once is kept.
SaveOnce(c, u) == /\ Reading(c)
                  /\ seen[c] # NoDocument
                  /\ savedMode' = IF savedMode = NoValue THEN SavedMode(seen[c])
                                                         ELSE savedMode
                  /\ savedReserve' = IF savedReserve = NoValue
                                     THEN SavedReserve(seen[c]) ELSE savedReserve
                  /\ seen' = [seen EXCEPT ![c] = NoDocument]
                  /\ Register!Begin(c, u)
                  /\ UNCHANGED <<op, active, expired, history>>

\* Its answer is saved, and the write begins with the reserve curtail was
\* given.
Save(c, u) == /\ Reading(c)
              /\ seen[c] # NoDocument
              /\ savedMode' = SavedMode(seen[c])
              /\ savedReserve' = SavedReserve(seen[c])
              /\ seen' = [seen EXCEPT ![c] = NoDocument]
              /\ Register!Begin(c, u)
              /\ UNCHANGED <<op, active, expired, history>>

-----------------------------------------------------------------------------
(* restore_from_curtailment()                                              *)

\* A mistake for the runs to find: the snapshot counts only while the flag is
\* up.
RestoreIfActive(c) ==
    /\ op[c] = "none"
    /\ op' = [op EXCEPT ![c] = "restore"]
    /\ Register!Begin(c, IF active THEN PutBack(savedMode, savedReserve)
                                   ELSE PutBack(NoValue, NoValue))
    /\ UNCHANGED <<seen, snapshot, active, expired, history>>

\* The write begins with what is saved, which stays saved.
Restore(c) ==
    /\ op[c] = "none"
    /\ op' = [op EXCEPT ![c] = "restore"]
    /\ Register!Begin(c, PutBack(savedMode, savedReserve))
    /\ UNCHANGED <<seen, snapshot, active, expired, history>>

-----------------------------------------------------------------------------
(* The end of either call's write_config, and its effect on the gateway.   *)

\* The flag follows the write that returned.
Return(c) == /\ Register!Return(c)
             /\ active' = (op[c] = "curtail")
             /\ doubt' = (doubt /\ op[c] = "curtail")
             /\ UNCHANGED <<op, seen, snapshot, expired, normal, later>>

\* write_config raises, having merged nothing or not knowing.
Raise(c) == /\ \/ Register!Fail(c) /\ UNCHANGED doubt
               \/ Register!GiveUp(c) /\ doubt' = TRUE
            /\ UNCHANGED <<op, seen, snapshot, active, expired, normal, later>>

Apply(c) == /\ c \notin expired
            /\ Register!Apply(c)
            /\ UNCHANGED <<op, seen, snapshot, active, expired, history>>

\* The gateway will not accept the request of a call that raised any more.
Expire(c) == /\ outcome[c] = "unknown"
             /\ c \notin applied \cup expired
             /\ expired' = expired \cup {c}
             /\ UNCHANGED <<registerVars, op, seen, snapshot, active, history>>

\* The call is under way.
Running(c) == Reading(c) \/ outcome[c] = "open"

\* The gateway may be curtailed, or may yet be.
Engaged == active \/ doubt \/ \E c \in Calls : Running(c)

\* Somebody else writes: the saved settings among those become the owner's, and
\* while a curtail may be in force its snapshot does not have them.
Foreign(u) ==
    /\ Register!Foreign(u)
    /\ normal' = [k \in SavedKeys |-> IF k \in DOMAIN u THEN u[k] ELSE normal[k]]
    /\ later' = IF Engaged THEN later \cup (DOMAIN u \cap SavedKeys)
                           ELSE later \ DOMAIN u
    /\ UNCHANGED <<op, seen, snapshot, active, expired, doubt>>

-----------------------------------------------------------------------------
Progress(c) == \/ ReadConfig(c) \/ ReadFails(c)
               \/ \E u \in CurtailUpdates : Save(c, u)
               \/ Return(c) \/ Raise(c) \/ Apply(c) \/ Expire(c)

\* No call is running, and no write that was posted is still to come.
Quiet == \A c \in Calls : /\ ~ Running(c)
                          /\ outcome[c] = "unknown" => c \in applied \cup expired

(***************************************************************************)
(* A caller that makes one call at a time, waits after one that raised     *)
(* until its signature has expired and, once a curtail may be in force,    *)
(* calls only restore_from_curtailment.  The owner writes what and when    *)
(* they like.                                                              *)
(***************************************************************************)
CarefulCall(c) == \/ ~ Engaged /\ Curtail(c)
                  \/ Engaged /\ Quiet /\ Restore(c)
                  \/ Progress(c)

CarefulNext == \/ \E c \in Calls : CarefulCall(c)
               \/ \E u \in ForeignAsks : Foreign(u)

CarefulSpec == Init /\ [][CarefulNext]_vars

\* A caller as patient as that, who tries a curtail that raised again.
RetryNext == \/ \E c \in Calls : \/ Quiet /\ ~ active /\ Curtail(c)
                                 \/ Engaged /\ Quiet /\ Restore(c)
                                 \/ Progress(c)
             \/ \E u \in ForeignAsks : Foreign(u)

RetrySpec == Init /\ [][RetryNext]_vars

-----------------------------------------------------------------------------
(* Properties                                                              *)

\* What saving a document and putting that back gives.
Saved(document) == PutBack(SavedMode(document), SavedReserve(document))

Normal == Saved(normal)

\* While no call runs and none that raised is in doubt, the flag tells what is in
\* force: up, the settings of a curtail; down, the owner's, as they left them or
\* put back.  What the owner writes during a curtailment is their own affair.
FlagTellsTheSettings ==
    ~ (doubt \/ \E c \in Calls : Running(c)) =>
        IF active
        THEN \E c \in applied :
                 /\ op[c] = "curtail"
                 /\ \A k \in SavedKeys \ later : config[k] = asked[c][k]
        ELSE \A k \in SavedKeys \ later : config[k] \in {normal[k], Normal[k]}

RestoreReturns(c) == op[c] = "restore" /\ Return(c)

\* When restore_from_curtailment returns, the owner's mode and (whole) reserve
\* are in force again, even if the curtail or an earlier restore raised; but for
\* one that the owner has chosen since the curtail read it.
RestorePutsBack ==
    [][ \A c \in Calls : RestoreReturns(c) =>
            \A k \in SavedKeys \ later : config'[k] = Normal[k] ]_vars

\* ... and the reserve is the owner's, not just its whole percent.
RestorePutsBackExactly ==
    [][ \A c \in Calls : RestoreReturns(c) /\ Reserve \notin later =>
            config'[Reserve] = normal[Reserve] ]_vars

\* A curtail saves what it replaces, though it reads the settings in one request
\* and write_config merges in a later one, maybe after it raised: a setting that
\* the owner chooses between the two is lost, but neither the other one nor one
\* chosen before the first request is answered.
SavesWhatItReplaces ==
    [][ \A c \in Calls : op[c] = "curtail" /\ Apply(c) =>
            \A k \in SavedKeys \ later :
                PutBack(savedMode, savedReserve)[k] = Saved(config)[k] ]_vars
=============================================================================
