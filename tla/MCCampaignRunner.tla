--------------------------- MODULE MCCampaignRunner ---------------------------
(* A small campaign for TLC: a two-command ability with a cleanup command that  *)
(* lets the campaign go on, then a one-command ability without cleanup_ref; the *)
(* authorization can expire before either of them.                              *)
EXTENDS CampaignProperties

MCSteps == << [ability |-> "chain",  on_failure |-> "continue"],
              [ability |-> "reader", on_failure |-> "stop"] >>

MCModes       == {"simulate", "emulate"}
MCPermitted   == {"chain", "reader"}
MCArgv        == [a \in {"chain", "reader"} |-> IF a = "chain" THEN 2 ELSE 1]
MCCleanupArgv == [a \in {"chain", "reader"} |-> IF a = "chain" THEN 1 ELSE 0]
MCDetections  == [a \in {"chain", "reader"} |->
                    IF a = "chain" THEN "detected" ELSE "not_evaluated"]

\* A fresh tracker, and one that an earlier run of the same caller has used.
MCPriorUse == { [actions |-> 0, processes |-> 0, cleanups |-> 0],
                [actions |-> 1, processes |-> 1, cleanups |-> 1] }
=============================================================================
