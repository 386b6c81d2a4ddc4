------------------------------ MODULE Assurance ------------------------------
(* The telemetry doctor (telemetry/assurance.py): is a window of evidence safe  *)
(* and fit to correlate.                                                        *)
EXTENDS AgentEvents, Integers, Sequences, FiniteSets, FiniteSetsExt

\* identities: the first event with an id is the one that references resolve to.
IdentityOf(w, id) == Min({i \in DOMAIN w : w[i].id = id})

Referenced(e) == ({e.parent_event_id} \union {e.caused_by_event_ids[n] : n \in DOMAIN e.caused_by_event_ids}) \ {None}

\* The checks of an event by itself, and of its identity among the ones before it.
EventCodes(w, i) ==
    (CASE w[i].stamp = "unknown" -> {"timestamp_provenance_unknown"}
       [] w[i].stamp = "invalid" -> {"invalid_or_substituted_timestamp"}
       [] w[i].stamp = "missing" -> {"missing_source_timestamp"}
       [] OTHER                  -> {})
    \union (IF w[i].redacted THEN {} ELSE {"redaction_provenance_unknown"})
    \union (IF w[i].id = None THEN {"missing_event_id"}
            ELSE IF IdentityOf(w, w[i].id) < i THEN {"duplicate_event_id"} ELSE {})
    \union (IF w[i].agent /\ None \in {w[i].trace_id, w[i].session_id, w[i].agent_id}
            THEN {"missing_agent_correlation_identity"} ELSE {})
    \union (IF w[i].agent /\ w[i].generated THEN {"generated_agent_identity"} ELSE {})
    \union (IF w[i].content THEN {"raw_content_exposed"} ELSE {})

\* Deviation: a reference is good if its event is anywhere in the window.
LinkCodesIfPresent(w, i) ==
    IF \A id \in Referenced(w[i]) : \E j \in DOMAIN w : w[j].id = id THEN {} ELSE {"broken_causal_link"}

\* The references of an event.
LinkCodes(w, i) ==
    UNION {IF \A j \in DOMAIN w : w[j].id # id THEN {"broken_causal_link"}
           ELSE LET parent == w[IdentityOf(w, id)]
                IN  (IF None \notin {w[i].trace_id, parent.trace_id} /\ w[i].trace_id # parent.trace_id
                     THEN {"cross_trace_causal_link"} ELSE {})
                    \union (IF w[i].time < parent.time THEN {"causal_time_inversion"} ELSE {}) :
              id \in Referenced(w[i])}

AssuranceCodes(w) ==
    (IF w = <<>> THEN {"empty_export"} ELSE {})
    \union UNION {EventCodes(w, i) \union LinkCodes(w, i) : i \in DOMAIN w}

Critical == {"empty_export", "raw_content_exposed", "cross_trace_causal_link"}
Medium   == {"timestamp_provenance_unknown", "redaction_provenance_unknown", "generated_agent_identity"}

Penalty(code) == IF code \in Critical THEN 30 ELSE IF code \in Medium THEN 6 ELSE 14

\* Each code counts once, however many events it is about.
AssuranceStatus(codes) ==
    IF codes \intersect Critical # {} \/ MapThenSumSet(Penalty, codes) > 40 THEN "unusable"
    ELSE IF codes # {} THEN "degraded" ELSE "healthy"
=============================================================================
