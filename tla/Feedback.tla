------------------------------ MODULE Feedback ------------------------------
(* Tuning a detection: the reconciliation of alerts and operators' verdicts     *)
(* with a window of evidence (defense/feedback.py), and the comparison of a     *)
(* candidate with its baseline (defense/drift.py).                              *)
EXTENDS Investigation

\* The last event with an id is the one that an alert's evidence resolves to.
EvidenceAt(w, id) == Max({i \in DOMAIN w : w[i].id = id})

Traces(w) == {w[i].trace_id : i \in DOMAIN w} \ {None}

EvidenceTraces(w, alert) == {w[EvidenceAt(w, id)].trace_id : id \in alert.evidence \intersect Ids(w)} \ {None}

\* One alert: its own trace, if it names one, against the traces of its evidence.
Reconcile(w, alert) ==
    LET evidence   == EvidenceTraces(w, alert)
        candidates == evidence \union ({alert.trace_id} \ {None})
    IN  CASE alert.trace_id \in Traces(w) /\ evidence \subseteq {alert.trace_id} ->
                [status |-> "matched", trace |-> alert.trace_id]
          [] alert.trace_id = None /\ (\E t \in evidence : evidence = {t}) ->
                [status |-> "matched", trace |-> CHOOSE t \in evidence : TRUE]
          [] Cardinality(candidates) > 1 -> [status |-> "ambiguous", trace |-> None]
          [] OTHER -> [status |-> "unmatched", trace |-> None]

Negative == {"false_positive", "benign_expected"}
Positive == {"confirmed_true_positive"}

Targets(bundle) == {a.target : a \in bundle.annotations}

\* A target is <<"alert", id>> or <<"trace", id>>.
TargetExists(w, bundle, target) ==
    IF target[1] = "alert" THEN \E a \in bundle.alerts : a.id = target[2] ELSE target[2] \in Traces(w)

\* The trace that a verdict is about, None where the alert did not resolve.
TargetTrace(w, bundle, target) ==
    CASE target[1] = "trace" -> target[2]
      [] target[1] = "alert" /\ (\E a \in bundle.alerts : a.id = target[2]) ->
            Reconcile(w, CHOOSE a \in bundle.alerts : a.id = target[2]).trace
      [] OTHER -> None

Dispositions(bundle, target) == {a.disposition : a \in {a \in bundle.annotations : a.target = target}}

AnnotationConflicts(w, bundle, a) ==
    (IF TargetExists(w, bundle, a.target) THEN {} ELSE {"annotation_target_unresolved"})
    \union (IF a.evidence \subseteq Ids(w) THEN {} ELSE {"annotation_evidence_unresolved"})
    \union (IF a.digest_match = FALSE THEN {"annotation_evidence_digest_mismatch"} ELSE {})
    \union (IF a.author_type = "agent" /\ a.disposition # "needs_review"
            THEN {"agent_authored_final_verdict"} ELSE {})

\* Deviation: a dismissal is looked at where the verdict is on the trace itself.
TargetConflictsOfTraces(w, findings, bundle, target) ==
    (IF Dispositions(bundle, target) \intersect Negative # {} /\ Dispositions(bundle, target) \intersect Positive # {}
     THEN {"contradictory_operator_dispositions"} ELSE {})
    \union (IF /\ target[1] = "trace" /\ Dispositions(bundle, target) \intersect Negative # {}
               /\ TraceSeverity(w, findings, target[2]) \in {"high", "critical"}
            THEN {"high_risk_trace_dismissed"} ELSE {})

TargetConflicts(w, findings, bundle, target) ==
    (IF Dispositions(bundle, target) \intersect Negative # {} /\ Dispositions(bundle, target) \intersect Positive # {}
     THEN {"contradictory_operator_dispositions"} ELSE {})
    \union (IF /\ TargetTrace(w, bundle, target) # None /\ Dispositions(bundle, target) \intersect Negative # {}
               /\ TraceSeverity(w, findings, TargetTrace(w, bundle, target)) \in {"high", "critical"}
            THEN {"high_risk_trace_dismissed"} ELSE {})

Statuses(w, bundle) == {Reconcile(w, a).status : a \in bundle.alerts}

Conflicts(w, findings, bundle) ==
    (IF "ambiguous" \in Statuses(w, bundle) THEN {"alert_trace_evidence_conflict"} ELSE {})
    \union (UNION {AnnotationConflicts(w, bundle, a) : a \in bundle.annotations})
    \union (UNION {TargetConflicts(w, findings, bundle, t) : t \in Targets(bundle)})

\* reconcile_detection_feedback: the status of the report.
FeedbackStatus(w, findings, bundle) ==
    LET conflicts == Conflicts(w, findings, bundle)
        medium    == {"annotation_target_unresolved", "annotation_evidence_unresolved"}
    IN  CASE "annotation_evidence_digest_mismatch" \in conflicts -> "critical"
          [] "annotation_evidence_digest_mismatch" \notin conflicts
                /\ (conflicts \ medium # {} \/ "ambiguous" \in Statuses(w, bundle)) -> "elevated"
          [] conflicts # {} /\ conflicts \subseteq medium -> "review"
          [] conflicts = {} /\ "unmatched" \in Statuses(w, bundle) -> "review"
          [] OTHER -> "clean"

\* parse_feedback_bundle: what it refuses, of bundles with these kinds of entries.
BundleParses(bundle) ==
    /\ \A a, b \in bundle.alerts : a.id = b.id => a = b
    /\ \A a, b \in bundle.annotations : a.id = b.id => a = b
    /\ \A a \in bundle.alerts : a.formed

-----------------------------------------------------------------------------
(* The comparison of a tuning candidate with a baseline (defense/drift.py).     *)
(* Rates are fractions, compared exactly; the code's are floating-point         *)
(* numbers, so where a difference is just the threshold it may come out on      *)
(* either side: "rounded" says which.                                           *)

CONSTANTS
    Untimed,        \* mean_checkpoints_to_detection is not set
    MaxDrop,        \* max_recall_drop and the other rates' thresholds, in percent
    MaxLatency      \* max_latency_increase

ASSUME DriftAssumption == MaxDrop \in Nat /\ MaxLatency \in Nat /\ Untimed \notin Nat

\* DetectionSnapshot.
Snapshots ==
    {s \in [true_positive : Nat, false_negative : Nat, true_negative : Nat, false_positive : Nat,
            reconciled : Nat, alerts : Nat, latency : Nat \union {Untimed}] : s.reconciled <= s.alerts}

\* A rate as a numerator and a denominator, with its value where nothing was counted.
Rate(part, all, empty) == IF all = 0 THEN <<empty, 1>> ELSE <<part, all>>

Recall(s)         == Rate(s.true_positive, s.true_positive + s.false_negative, 1)
FalseAlarms(s)    == Rate(s.false_positive, s.false_positive + s.true_negative, 0)
Reconciliation(s) == Rate(s.reconciled, s.alerts, 1)

\* 100 * (a - b), over the product of the denominators.
Less(a, b) == 100 * (a[1] * b[2] - b[1] * a[2])

\* a - b is more than, or at least, so many percent.
MoreThan(a, b, percent, rounded) ==
    \/ Less(a, b) > percent * a[2] * b[2]
    \/ rounded /\ Less(a, b) = percent * a[2] * b[2]

RateFinding(metric, a, b, rounded, bad, worse) ==
    IF MoreThan(a, b, MaxDrop, rounded)
    THEN {<<metric, IF MoreThan(a, b, 20, rounded) THEN worse ELSE bad>>} ELSE {}

\* Deviation: what a candidate gains is set against what it loses.
DriftFindingsOfSum(baseline, candidate, rounded) ==
    IF MoreThan(Recall(baseline), Recall(candidate), MaxDrop, rounded)
        /\ ~MoreThan(FalseAlarms(baseline), FalseAlarms(candidate), MaxDrop, rounded)
    THEN {<<"recall", "high">>} ELSE {}

\* compare_detection_snapshots: the findings.
DriftFindings(baseline, candidate, rounded) ==
    RateFinding("recall", Recall(baseline), Recall(candidate), rounded, "high", "critical")
    \union RateFinding("false_positive_rate", FalseAlarms(candidate), FalseAlarms(baseline), rounded, "high", "critical")
    \union RateFinding("reconciliation_rate", Reconciliation(baseline), Reconciliation(candidate), rounded,
                       "medium", "high")
    \union (IF /\ Untimed \notin {baseline.latency, candidate.latency}
               /\ candidate.latency - baseline.latency > MaxLatency
            THEN {<<"latency", IF candidate.latency - baseline.latency >= 5 THEN "high" ELSE "medium">>} ELSE {})

DriftStatus(findings) ==
    CASE \E f \in findings : f[2] \in {"critical", "high"} -> "regressed"
      [] findings # {} /\ \A f \in findings : f[2] = "medium" -> "review"
      [] OTHER -> "stable"
=============================================================================
