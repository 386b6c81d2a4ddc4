-------------------------- MODULE PortableTelemetry --------------------------
(* An agent's events as records of a standard, and back                         *)
(* (telemetry/mappings.py, conformance.py).  Of the fields of an event each     *)
(* standard has some; the others are carried in an extension.                   *)
EXTENDS AgentEvents, Integers

CONSTANT Millisecond    \* in units of an event's time

ASSUME MillisecondAssumption == Millisecond \in Nat \ {0}

Profiles == {"otel", "ecs", "ocsf"}

\* NATIVE_FIELD_PATHS.
NativeFields(profile) ==
    {"time", "id", "type", "trace_id", "outcome"} \union
    CASE profile = "otel" -> {"parent_event_id", "conversation_id", "agent_id", "data_lineage_id"}
      [] profile = "ecs"  -> {"session_id", "principal_id"}
      [] profile = "ocsf" -> {"parent_event_id", "session_id", "conversation_id", "agent_id", "principal_id"}

Success == {"allow", "allowed", "complete", "completed", "detected", "success", "verified"}
Failure == {"block", "blocked", "deny", "denied", "error", "failed", "failure", "prevented", "rejected"}

\* _status, as the record of a profile has it.
StatusOf(outcome, profile) ==
    CASE outcome \in Success -> "ok"
      [] outcome \in Failure -> "error"
      [] outcome \notin Success \union Failure /\ (outcome = None \/ profile # "ocsf") -> "unset"
      [] OTHER -> outcome

\* _otel_record, _ecs_record, _ocsf_record: what stands for a field.
NativeValue(e, f, profile) ==
    CASE f = "outcome" -> StatusOf(e.outcome, profile)
      [] f = "time" /\ profile = "ocsf" -> (e.time \div Millisecond) * Millisecond
      [] f = "conversation_id" /\ profile = "ocsf" -> Or(e.conversation_id, e.session_id)
      [] OTHER -> e[f]

IsSet(e, f) == IF f = "caused_by_event_ids" THEN e[f] # <<>> ELSE e[f] # None

\* Deviation: the extension has what no standard has.
ExtensionFieldsOfNone(e, profile) ==
    {f \in EventFields \ UNION {NativeFields(p) : p \in Profiles} : IsSet(e, f)}

\* _extension: what the profile does not have, and the outcome in the event's own words.
ExtensionFields(e, profile) == {f \in EventFields \ (NativeFields(profile) \ {"outcome"}) : IsSet(e, f)}

\* map_agent_trace.
Export(e, profile) ==
    [native    |-> [f \in NativeFields(profile) |-> NativeValue(e, f, profile)],
     extension |-> [f \in ExtensionFields(e, profile) |-> e[f]]]

\* selected: the extension for what the profile loses, then the native field, then the extension.
Selected(record, f) ==
    CASE f = "outcome" /\ f \in DOMAIN record.extension -> record.extension[f]
      [] f \in DOMAIN record.native /\ record.native[f] # None /\ (f # "outcome" \/ f \notin DOMAIN record.extension) ->
            record.native[f]
      [] OTHER -> IF f \in DOMAIN record.extension THEN record.extension[f]
                  ELSE IF f = "caused_by_event_ids" THEN <<>> ELSE None

\* agent_trace_from_portable_record, normalized: its metadata is the projection's.
Import(record) == Normalized([f \in EventFields |-> Selected(record, f)], Selected(record, "time"))

Converted(w, profile) == [i \in DOMAIN w |-> Import(Export(w[i], profile))]

\* _CORE_INVARIANTS and the attributes, that evaluate_fixture_conformance compares.
Compared == (EventFields \ {"auth_audience_valid", "consent_valid"}) \union {"time"}
=============================================================================
