--------------------------- MODULE ConfigRegister ---------------------------
(***************************************************************************)
(* What write_config promises its callers, whatever the network does: a    *)
(* call takes effect at most once, in one atomic merge of its updates into *)
(* the configuration of that moment; a call that returns has taken effect; *)
(* a call that was refused, or failed before it posted its update, never   *)
(* takes effect; after a transport failure the caller does not know, and   *)
(* the merge may still come later.  ConfigStore is shown to implement it.  *)
(***************************************************************************)
EXTENDS SiteConfig

CONSTANTS Calls,          \* the calls of write_config, by any task
          Asks,           \* the updates they may be given
          ForeignAsks,    \* the updates made by the Tesla app or the cloud
          FactoryConfigs  \* the documents the gateway may start from

VARIABLES config,   \* the document the gateway holds
          asked,    \* the update each call was given
          outcome,  \* how far each call is, as its caller sees it
          applied   \* the calls whose update was merged

registerVars == <<config, asked, outcome, applied>>

Outcomes == {"new", "open", "returned", "failed", "unknown"}

Init == /\ config \in FactoryConfigs
        /\ asked = [c \in Calls |-> NoUpdate]
        /\ outcome = [c \in Calls |-> "new"]
        /\ applied = {}

Begin(c, u) == /\ outcome[c] = "new"
               /\ asked' = [asked EXCEPT ![c] = u]
               /\ outcome' = [outcome EXCEPT ![c] = "open"]
               /\ UNCHANGED <<config, applied>>

Apply(c) == /\ outcome[c] \in {"open", "unknown"}
            /\ c \notin applied
            /\ config' = Stored(ApplyUpdates(config, asked[c]))
            /\ applied' = applied \cup {c}
            /\ UNCHANGED <<asked, outcome>>

End(c, how) == /\ outcome[c] = "open"
               /\ outcome' = [outcome EXCEPT ![c] = how]
               /\ UNCHANGED <<config, asked, applied>>

Return(c) == c \in applied /\ End(c, "returned")

Fail(c) == c \notin applied /\ End(c, "failed")

GiveUp(c) == End(c, "unknown")

Foreign(u) == /\ config' = Stored(ApplyUpdates(config, u))
              /\ UNCHANGED <<asked, outcome, applied>>

Next == \/ \E c \in Calls, u \in Asks : Begin(c, u)
        \/ \E c \in Calls : Apply(c) \/ Return(c) \/ Fail(c) \/ GiveUp(c)
        \/ \E u \in ForeignAsks : Foreign(u)

Spec == Init /\ [][Next]_registerVars
=============================================================================
