----------------------------- MODULE AgentEvents -----------------------------
(* An observable checkpoint of an agent and its normalized form                 *)
(* (models/agent_trace.py, telemetry/agent_contract.py).  An event is a record  *)
(* with the fields that an analysis reads; what a trace repeats for a reader    *)
(* (names, reasons, versions) is left out.                                      *)
EXTENDS TLC

CONSTANT None   \* a field that is not set

EventFields ==
    {"id", "type", "trace_id", "session_id", "conversation_id", "agent_id",
     "principal_id", "parent_event_id",
     "caused_by_event_ids", "delegation_id", "delegated_from_agent_id", "delegated_to_agent_id",
     "identity_binding_valid", "data_lineage_id", "memory_id", "memory_scope",
     "memory_provenance_valid", "memory_retention_valid", "goal_id", "goal_fingerprint",
     "goal_integrity_valid", "goal_change_approved", "auth_audience_valid", "consent_valid",
     "tool_risk", "input_trust", "policy_decision", "outcome",
     "tool_effect_applied"}

\* to_normalized_event: fields that are None are left out, the metadata is the projection's.
Normalized(event, time) ==
    LET projection == [time |-> time, stamp |-> "valid", redacted |-> TRUE, agent |-> TRUE, generated |-> FALSE,
                       content |-> FALSE, principal_transition_approved |-> None]
    IN  [f \in (DOMAIN event) \union DOMAIN projection |-> IF f \in DOMAIN event THEN event[f] ELSE projection[f]]

Or(value, fallback) == IF value = None THEN fallback ELSE value

\* normalize_agent_records: an identity that a runtime left out is made from the record's
\* digest, and said to be; whether the timestamp was the source's is taken along.
AgentRecord(record) ==
    LET own(name) == <<<<"generated", record.name>>, name>>
    IN  [record.event EXCEPT !.id = Or(@, own("event")), !.trace_id = Or(@, own("trace")[1]),
                             !.session_id = Or(@, own("session")), !.agent_id = Or(@, "unknown-agent"),
                             !.stamp = record.stamp,
                             !.generated = \E f \in {"id", "trace_id", "session_id", "agent_id"} :
                                               record.event[f] = None]
=============================================================================
