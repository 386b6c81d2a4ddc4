---------------------------- MODULE DetectionGate ----------------------------
(* Detection CI (defense/detection_ci.py): what the gate makes of the outcomes  *)
(* that the rules of a pack have on a baseline and on a candidate recording.    *)
EXTENDS Integers

CONSTANTS
    Rules,              \* the rules of the pack
    MaxAssuranceDrop,   \* max_assurance_drop, points
    MinRetention        \* min_event_retention, per cent

ASSUME GateAssumption == MaxAssuranceDrop \in Nat /\ MinRetention \in 0..100

Statuses        == {"detected", "not_detected", "visibility_gap"}
Classifications == {"malicious", "benign", "unknown"}

-----------------------------------------------------------------------------
(* compare_flight_bundles.                                                     *)

\* Classifications that contradict each other are refused.
Comparable(baseline, candidate) ==
    "unknown" \in {baseline, candidate} \/ baseline = candidate

\* "none" stands for an absent --classification.
Expected(explicit, baseline, candidate) ==
    LET given == IF explicit # "none" THEN explicit ELSE baseline
    IN  IF given = "unknown" THEN candidate ELSE given

-----------------------------------------------------------------------------
(* evaluate_detection_ci.                                                      *)

\* Deviation: whatever was detected still counts for what it was.
ChangeOfDetections(class, before, after) ==
    IF before = after THEN "unchanged"
    ELSE IF class = "malicious" /\ after # "detected" THEN "improved"
    ELSE "changed"

\* The change of one rule; a gap that opens or closes comes before the classification.
Change(class, before, after) ==
    CASE before = after             -> "unchanged"
      [] before # after /\ after = "visibility_gap"  -> "regressed"
      [] before # after /\ before = "visibility_gap" -> "improved"
      [] {before, after} = {"detected", "not_detected"} ->
            CASE class = "malicious" -> IF before = "detected" THEN "regressed" ELSE "improved"
              [] class = "benign"    -> IF after = "detected" THEN "regressed" ELSE "improved"
              [] class = "unknown"   -> "changed"

\* The finding of one rule: its code and severity.
RuleFindings(class, before, after) ==
    LET change == Change(class, before, after)
    IN  CASE change = "regressed" /\ after = "visibility_gap" ->
                {[code |-> "new_visibility_gap", severity |-> "high"]}
          [] change = "regressed" /\ after = "not_detected" ->
                {[code |-> "malicious_detection_lost", severity |-> "critical"]}
          [] change = "regressed" /\ after = "detected" ->
                {[code |-> "new_benign_detection", severity |-> "high"]}
          [] change = "changed" ->
                {[code |-> "unclassified_detection_change", severity |-> "medium"]}
          [] OTHER -> {}

InvestigationRank(status) ==
    CASE status = "clean" -> 0 [] status = "review" -> 1
      [] status = "elevated" -> 2 [] status = "critical" -> 3

\* Deviation: retention is measured the wrong way round.
RetentionSwapped(baseline, candidate) ==
    IF 100 * baseline.events < MinRetention * candidate.events
    THEN {[code |-> "event_retention_regression", severity |-> "high"]} ELSE {}

\* A recording is what was made of it: its number of events, the outcome of each rule,
\* the score of the telemetry assurance and the status of the investigation.
TelemetryFindings(baseline, candidate) ==
    LET drop == baseline.assurance - candidate.assurance
    IN  (IF drop > MaxAssuranceDrop
         THEN {[code |-> "telemetry_assurance_regression",
                severity |-> IF drop >= 15 THEN "high" ELSE "medium"]} ELSE {})
        \union
        (IF InvestigationRank(candidate.investigation) > InvestigationRank(baseline.investigation)
         THEN {[code |-> "agent_invariant_regression", severity |-> "high"]} ELSE {})
        \union
        (IF baseline.events > 0 /\ 100 * candidate.events < MinRetention * baseline.events
         THEN {[code |-> "event_retention_regression", severity |-> "high"]} ELSE {})

Findings(class, baseline, candidate) ==
    UNION {RuleFindings(class, baseline.outcome[r], candidate.outcome[r]) : r \in Rules}
        \union TelemetryFindings(baseline, candidate)

GateStatus(findings) ==
    IF \E f \in findings : f.severity \in {"critical", "high"} THEN "block"
    ELSE IF findings # {} THEN "review" ELSE "pass"

\* The command's exit code under --fail-on.
ExitCode(failOn, status) ==
    CASE failOn = "never"  -> 0
      [] failOn = "review" -> IF status = "pass" THEN 0 ELSE 1
      [] failOn = "block"  -> IF status = "block" THEN 1 ELSE 0
=============================================================================
