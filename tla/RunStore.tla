------------------------------- MODULE RunStore -------------------------------
(* The SQLite run history (agentsim/storage.py) as its writers share it: the    *)
(* campaign run that creates the row, appends actions and finishes it, and the  *)
(* `telemetry query --run-id` processes (agentsim/cli.py) that persist their    *)
(* detection outcomes against it.  One step is one statement that the sqlite3   *)
(* module commits by itself: a SELECT opens no transaction, so the statements   *)
(* of apply_detection_outcomes interleave with everybody's writes.              *)
EXTENDS Naturals, FiniteSets, Sequences

CONSTANTS
    Planned,    \* abilities of campaign.steps, in order
    Queries,    \* telemetry query processes
    Selected,   \* Selected[q]: abilities q names with --ability
    Registry,   \* abilities of the loaded packs
    Verdict,    \* Verdict[q]: what q's events show, the outcome of each ability
    MaxFaults   \* bound: writes that fail and processes killed

Outcomes      == {"detected", "missed", "visibility_gap"}
FinalStatuses == {"completed", "completed_with_gaps", "cancelled"}

ASSUME StoreAssumption ==
    /\ Planned \in Seq(Registry)
    /\ \A q \in Queries : IsFiniteSet(Selected[q])
    /\ Verdict \in [Queries -> [Registry -> Outcomes]]
    /\ MaxFaults \in Nat

VARIABLES
    runner,         \* control point of CampaignRunner.run
    query,          \* query[q]: control point and locals of process q
    run,            \* the runs row: status and summary_json
    actions,        \* rows of actions
    evaluations,    \* detection_evaluations: ability -> status
    audits,         \* queries with a telemetry_queries row
    artifacts,      \* queries with a live_detection artifact row
    faults,         \* failed writes and killed processes so far
    current,        \* for the properties: queries whose reads are still up to date
    fresh           \* for the properties: the last counters were not overtaken

tables == <<run, actions, evaluations, audits, artifacts>>
vars   == <<runner, query, tables, faults, current, fresh>>

CounterKeys == {"detections", "misses", "visibility_gaps", "pending_detection_results"}
CampaignKeys == {"planned_actions", "completed_actions"}

NoVerdicts == [a \in {} |-> "missed"]
NoSummary  == [k \in {} |-> 0]

PlannedSet == {Planned[i] : i \in DOMAIN Planned}

\* A commit that makes what the queries have read so far out of date.
Overtake == current' = {} /\ fresh' = FALSE

-----------------------------------------------------------------------------
(* The campaign run.                                                           *)

CreateRun ==
    /\ runner = "create"
    /\ run' = [status |-> "running", summary |-> NoSummary]
    /\ runner' = "actions"
    /\ UNCHANGED <<query, actions, evaluations, audits, artifacts, faults, current, fresh>>

AppendAction ==
    /\ runner = "actions"
    /\ Len(actions) < Len(Planned)
    /\ actions' = Append(actions, Planned[Len(actions) + 1])
    /\ UNCHANGED <<runner, query, run, evaluations, audits, artifacts, faults, current, fresh>>

RunnerCounters == CounterKeys \ {"visibility_gaps"}

\* The run's own totals: each action's detection result is counted under one key at
\* most, a denied action's under none.
RunSummaries ==
    {[k \in RunnerCounters \union CampaignKeys |->
        CASE k = "planned_actions"   -> Len(Planned)
          [] k = "completed_actions" -> Len(actions)
          [] OTHER                   -> tally[k]] :
     tally \in {t \in [RunnerCounters -> 0..Len(actions)] :
                 t["detections"] + t["misses"] + t["pending_detection_results"]
                    <= Len(actions)}}

\* on_failure or the kill switch may end the loop early, never with status completed.
FinishRun ==
    /\ runner = "actions"
    /\ \E status \in FinalStatuses, summary \in RunSummaries :
          /\ status = "completed" => Len(actions) = Len(Planned)
          /\ run' = [status |-> status, summary |-> summary]
    /\ runner' = "done"
    /\ Overtake
    /\ UNCHANGED <<query, actions, evaluations, audits, artifacts, faults>>

RunnerFails ==
    /\ runner \in {"create", "actions"}
    /\ faults < MaxFaults
    /\ faults' = faults + 1
    /\ runner' = "failed"
    /\ UNCHANGED <<query, tables, current, fresh>>

-----------------------------------------------------------------------------
(* telemetry query --run-id.                                                   *)

At(q, p) == query[q].pc = p

Update(q, changes) == query' = [query EXCEPT ![q] = changes]

\* Deviation: nothing is audited before the outcomes are persisted.
SelectUnaudited(q) ==
    /\ At(q, "select")
    /\ actions # <<>>
    /\ Update(q, [query[q] EXCEPT !.pc = "evaluation",
                     !.outcomes = [a \in PlannedSet |-> Verdict[q][a]]])
    /\ UNCHANGED <<runner, tables, faults, current, fresh>>

\* ability_ids_for_run raises for a run without actions, the registry lookup for an
\* ability no pack has; evaluate_live_registry then judges every selected ability.
SelectAbilities(q) ==
    /\ At(q, "select")
    /\ LET ran      == {actions[i] : i \in DOMAIN actions}
           selected == Selected[q] \union ran
           usable   == ran # {} /\ selected \subseteq Registry
       IN  IF usable
           THEN Update(q, [query[q] EXCEPT !.pc = "audit",
                              !.outcomes = [a \in selected |-> Verdict[q][a]]])
           ELSE Update(q, [query[q] EXCEPT !.pc = "failed"])
    /\ UNCHANGED <<runner, tables, faults, current, fresh>>

RecordTelemetryQuery(q) ==
    /\ At(q, "audit")
    /\ audits' = audits \union {q}
    /\ Update(q, [query[q] EXCEPT !.pc = "evaluation"])
    /\ UNCHANGED <<runner, run, actions, evaluations, artifacts, faults, current, fresh>>

Left(q) == DOMAIN query[q].outcomes \ query[q].appended

\* INSERT OR REPLACE, one commit per outcome; the order is immaterial here.
AppendDetection(q) ==
    /\ At(q, "evaluation")
    /\ \E a \in Left(q) :
          /\ evaluations' = [b \in DOMAIN evaluations \union {a} |->
                                IF b = a THEN query[q].outcomes[a] ELSE evaluations[b]]
          /\ Update(q, [query[q] EXCEPT !.appended = @ \union {a},
                           !.pc = IF Left(q) = {a} THEN "read_summary" ELSE "evaluation"])
    /\ Overtake
    /\ UNCHANGED <<runner, run, actions, audits, artifacts, faults>>

\* apply_detection_outcomes, its first SELECT.
ReadSummary(q) ==
    /\ At(q, "read_summary")
    /\ Update(q, [query[q] EXCEPT !.pc = "read_evaluations", !.summary = run.summary])
    /\ current' = current \union {q}
    /\ UNCHANGED <<runner, tables, faults, fresh>>

\* Deviation: the query counts its own outcomes instead of what is stored.
CountOwnOutcomes(q) ==
    /\ At(q, "read_evaluations")
    /\ Update(q, [query[q] EXCEPT !.pc = "update", !.merged = query[q].outcomes])
    /\ UNCHANGED <<runner, tables, faults, current, fresh>>

ReadEvaluations(q) ==
    /\ At(q, "read_evaluations")
    /\ Update(q, [query[q] EXCEPT !.pc = "update",
                     !.merged = IF DOMAIN evaluations = {} THEN query[q].outcomes
                                ELSE evaluations])
    /\ UNCHANGED <<runner, tables, faults, current, fresh>>

Count(verdicts, status) == Cardinality({a \in DOMAIN verdicts : verdicts[a] = status})

\* Deviation: max(0, ...) is left out.
Difference(a, b) == a - b

Beyond(a, b) == IF a > b THEN a - b ELSE 0

\* The counters a set of evaluations stands for, in a campaign of n planned actions.
Counters(verdicts, n) ==
    [k \in CounterKeys |->
        CASE k = "detections"      -> Count(verdicts, "detected")
          [] k = "misses"          -> Count(verdicts, "missed")
          [] k = "visibility_gaps" -> Count(verdicts, "visibility_gap")
          [] OTHER                 -> Beyond(n, Cardinality(DOMAIN verdicts))]

\* summary.get("planned_actions", len(outcomes)).
PlannedActions(q) ==
    IF "planned_actions" \in DOMAIN query[q].summary
    THEN query[q].summary["planned_actions"]
    ELSE Cardinality(DOMAIN query[q].outcomes)

NewSummary(q) ==
    LET counters == Counters(query[q].merged, PlannedActions(q))
    IN  [k \in DOMAIN query[q].summary \union CounterKeys |->
            IF k \in CounterKeys THEN counters[k] ELSE query[q].summary[k]]

\* Deviation: the whole row is written back as it was read.
UpdateRow(q) ==
    /\ At(q, "update")
    /\ run' = [status |-> "running", summary |-> NewSummary(q)]
    /\ Update(q, [query[q] EXCEPT !.pc = "artifact"])
    /\ fresh' = (q \in current)
    /\ UNCHANGED <<runner, actions, evaluations, audits, artifacts, faults, current>>

\* The UPDATE of summary_json, and its commit.
UpdateSummary(q) ==
    /\ At(q, "update")
    /\ run' = [run EXCEPT !.summary = NewSummary(q)]
    /\ Update(q, [query[q] EXCEPT !.pc = "artifact"])
    /\ fresh' = (q \in current)
    /\ UNCHANGED <<runner, actions, evaluations, audits, artifacts, faults, current>>

\* With --output: the file is written, then its digest is recorded.
RecordArtifact(q) ==
    /\ At(q, "artifact")
    /\ artifacts' = artifacts \union {q}
    /\ Update(q, [query[q] EXCEPT !.pc = "done"])
    /\ UNCHANGED <<runner, run, actions, evaluations, audits, faults, current, fresh>>

\* Without --output the result is only printed.
PrintResult(q) ==
    /\ At(q, "artifact")
    /\ Update(q, [query[q] EXCEPT !.pc = "done"])
    /\ UNCHANGED <<runner, tables, faults, current, fresh>>

\* The store is locked or full, the query is refused, the process is killed.
QueryFails(q) ==
    /\ query[q].pc \notin {"done", "failed"}
    /\ faults < MaxFaults
    /\ faults' = faults + 1
    /\ Update(q, [query[q] EXCEPT !.pc = "failed"])
    /\ UNCHANGED <<runner, tables, current, fresh>>

-----------------------------------------------------------------------------
NewQuery == [pc |-> "select", outcomes |-> NoVerdicts, appended |-> {},
             summary |-> NoSummary, merged |-> NoVerdicts]

Init ==
    /\ runner = "create"
    /\ query = [q \in Queries |-> NewQuery]
    /\ run = [status |-> "none", summary |-> NoSummary]
    /\ actions = <<>>
    /\ evaluations = NoVerdicts
    /\ audits = {} /\ artifacts = {}
    /\ faults = 0
    /\ current = {} /\ fresh = FALSE

Runner == CreateRun \/ AppendAction \/ FinishRun

QueryStep(q) ==
    \/ SelectAbilities(q) \/ RecordTelemetryQuery(q) \/ AppendDetection(q)
    \/ ReadSummary(q) \/ ReadEvaluations(q) \/ UpdateSummary(q)
    \/ RecordArtifact(q) \/ PrintResult(q)

Ended ==
    /\ runner \in {"done", "failed"}
    /\ \A q \in Queries : query[q].pc \in {"done", "failed"}

Finished == Ended /\ UNCHANGED vars

Next ==
    \/ Runner \/ RunnerFails
    \/ \E q \in Queries : QueryStep(q) \/ QueryFails(q)
    \/ Finished

\* Every process is scheduled, and a lock is held for one statement only.
Fairness == WF_vars(Runner) /\ \A q \in Queries : WF_vars(QueryStep(q))

Spec == Init /\ [][Next]_vars /\ Fairness

-----------------------------------------------------------------------------
SummaryType(s) == DOMAIN s \subseteq CounterKeys \union CampaignKeys
                  /\ \A k \in DOMAIN s : s[k] \in Nat
VerdictType(v) == DOMAIN v \subseteq Registry /\ \A a \in DOMAIN v : v[a] \in Outcomes

\* Types of the tables and of the processes' locals.
StoreTypeOK ==
    /\ runner \in {"create", "actions", "done", "failed"}
    /\ \A q \in Queries :
          /\ query[q].pc \in {"select", "audit", "evaluation", "read_summary",
                              "read_evaluations", "update", "artifact", "done", "failed"}
          /\ VerdictType(query[q].outcomes) /\ VerdictType(query[q].merged)
          /\ query[q].appended \subseteq DOMAIN query[q].outcomes
          /\ SummaryType(query[q].summary)
    /\ run.status \in {"none", "running"} \union FinalStatuses
    /\ SummaryType(run.summary)
    /\ actions \in Seq(PlannedSet)
    /\ VerdictType(evaluations)
    /\ audits \subseteq Queries /\ artifacts \subseteq Queries
    /\ faults \in 0..MaxFaults
    /\ current \subseteq Queries /\ fresh \in BOOLEAN

\* A query that ends without being overtaken leaves counters that agree with every
\* evaluation the run has, those an earlier, interrupted query left behind included.
CountersFresh ==
    fresh =>
        /\ run.summary["detections"] = Count(evaluations, "detected")
        /\ run.summary["misses"] = Count(evaluations, "missed")
        /\ run.summary["visibility_gaps"] = Count(evaluations, "visibility_gap")
        /\ "planned_actions" \in DOMAIN run.summary =>
              run.summary["pending_detection_results"] =
                  Beyond(Len(Planned), Cardinality(DOMAIN evaluations))

\* Nothing a query concludes is in the store before its audit row: every evaluation
\* comes from an audited query, and an artifact from one that persisted all of its own.
AuditedFirst ==
    /\ \A a \in DOMAIN evaluations :
          \E q \in audits : a \in query[q].appended /\ evaluations[a] = query[q].outcomes[a]
    /\ "visibility_gaps" \in DOMAIN run.summary => audits # {}
    /\ \A q \in artifacts : q \in audits /\ DOMAIN query[q].outcomes \subseteq DOMAIN evaluations

FinalStatus == run.status \in FinalStatuses

\* No interleaving takes evidence away: rows stay, actions only grow, and the status
\* finish_run wrote survives the queries that update the same row.
HistoryKept ==
    [][ /\ DOMAIN evaluations \subseteq DOMAIN evaluations'
        /\ audits \subseteq audits' /\ artifacts \subseteq artifacts'
        /\ SubSeq(actions', 1, Len(actions)) = actions
        /\ FinalStatus => run'.status = run.status ]_vars

\* Evidence is audited before it is stored, and what is stored stays.
AuditedHistory == []AuditedFirst /\ HistoryKept

\* A query "updates only its post-run detection counters": the totals finish_run wrote
\* are still in the summary of a finished run.
OnlyCounters == FinalStatus => CampaignKeys \subseteq DOMAIN run.summary
=============================================================================
