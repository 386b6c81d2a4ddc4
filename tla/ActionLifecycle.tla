--------------------------- MODULE ActionLifecycle ---------------------------
(* What the lifecycle-v3 timeline of one campaign run promises its reader,     *)
(* whatever the provider does and whichever writes fail: actions are taken one *)
(* at a time and in order; an authorized action settles only after a cleanup   *)
(* outcome; it settles as verified only when its whole execution evidence and  *)
(* a successful cleanup were recorded; nothing is planned after an action that *)
(* the kill switch cancelled.  CampaignRunner refines this specification.      *)
EXTENDS Naturals

CONSTANT N      \* number of actions of the campaign

VARIABLES
    phase,      \* phase[i]: how far the timeline has taken action i
    evidence    \* actions whose execution was recorded up to the detection outcome

lifecycle == <<phase, evidence>>

Settled == {"prevented", "verified", "failed", "cancelled"}
Phases  == {"absent", "planned", "denied", "authorized", "active", "cleaning",
            "cleaned", "cleanup_failed"} \union Settled

LifecycleTypeOK ==
    /\ phase \in [1..N -> Phases]
    /\ evidence \subseteq 1..N

LifecycleInit ==
    /\ phase = [i \in 1..N |-> "absent"]
    /\ evidence = {}

Move(i, from, to) ==
    /\ phase[i] \in from
    /\ phase' = [phase EXCEPT ![i] = to]
    /\ UNCHANGED evidence

Plan(i) ==
    /\ Move(i, {"absent"}, "planned")
    /\ \A j \in 1..(i - 1) : phase[j] \in Settled \ {"cancelled"}

Deny(i)    == Move(i, {"planned"}, "denied")
Prevent(i) == Move(i, {"denied"}, "prevented")

Authorize(i) == Move(i, {"planned"}, "authorized")
Activate(i)  == Move(i, {"authorized"}, "active")

Evaluate(i) ==
    /\ phase[i] = "active"
    /\ evidence' = evidence \union {i}
    /\ UNCHANGED phase

StartCleanup(i)   == Move(i, {"authorized", "active"}, "cleaning")
CleanupOutcome(i) == \E o \in {"cleaned", "cleanup_failed"} : Move(i, {"cleaning"}, o)

Verify(i) ==
    /\ i \in evidence
    /\ Move(i, {"cleaned"}, "verified")

Fail(i) == \E o \in {"failed", "cancelled"} : Move(i, {"cleaned", "cleanup_failed"}, o)

LifecycleNext ==
    \E i \in 1..N :
        \/ Plan(i) \/ Deny(i) \/ Prevent(i)
        \/ Authorize(i) \/ Activate(i) \/ Evaluate(i)
        \/ StartCleanup(i) \/ CleanupOutcome(i)
        \/ Verify(i) \/ Fail(i)

LifecycleSpec == LifecycleInit /\ [][LifecycleNext]_lifecycle
=============================================================================
