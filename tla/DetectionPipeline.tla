-------------------------- MODULE DetectionPipeline --------------------------
(* A candidate recording is collected event by event; its pack's rules are      *)
(* swept over it and evaluated live; at any point the Detection CI gate         *)
(* compares it with a reviewed baseline.                                        *)
EXTENDS DetectionEngine, DetectionGate

CONSTANTS
    Pack,           \* Pack[r]: the packed detection, with what an ability expects of telemetry
    Records,        \* events a collector may yield
    Alias,          \* Alias[kind][id]: what stands for an id of a kind in a synthetic twin
    Baselines,      \* event sequences of the baseline recordings
    MaxEvents,      \* bound: events of the candidate
    Scores,         \* telemetry assurance scores
    Assessments     \* statuses of the investigation

ASSUME PackAssumption == \A r \in Rules : Tree(Pack[r].expression)

Fields == UNION {DOMAIN e : e \in Records}

\* The iteration of a set of indices follows a hash table, not the indices: any order.
ASSUME IterationAssumption ==
    /\ MaxEvents \in Nat
    /\ \A S \in SUBSET (1..MaxEvents) :
          /\ Iterated[S] \in [S -> Nat]
          /\ \A i, j \in S : Iterated[S][i] = Iterated[S][j] => i = j

\* A field that an event has not got is none of it.
ASSUME RecordingAssumption ==
    /\ \A e \in Records : e = [f \in Fields |-> e[f]] /\ e.timestamp \in Nat
    /\ {"timestamp", "event_type", "source", "source_record_id", "agent_id", "parent_event_id",
        "caused_by_event_ids", "process_id", "parent_process_id", "synthetic_twin",
        "source_runtime", "source_event_digest", "executed"} \subseteq Fields
    /\ \A es \in Baselines : Len(es) \in 0..MaxEvents
    /\ Scores \subseteq 0..100
    /\ Assessments \subseteq {"clean", "review", "elevated", "critical"}

\* No two ids have one digest.
ASSUME AliasAssumption ==
    /\ \A e \in Records : /\ e.source_record_id # None => e.source_record_id \in DOMAIN Alias["event"]
                          /\ e.agent_id # None => e.agent_id \in DOMAIN Alias["agent"]
    /\ \A kind \in {"event", "agent"} : \A a \in DOMAIN Alias[kind] :
          /\ Alias[kind][a] # None
          /\ \A b \in DOMAIN Alias[kind] : Alias[kind][a] = Alias[kind][b] => a = b

VARIABLES
    baseline,       \* the events of the baseline
    candidate,      \* the events collected
    swept,          \* outcomes of the sweeps of both, and of the live evaluation
    gate            \* report of the last comparison, NoReport before any

vars == <<baseline, candidate, swept, gate>>

NoReport == [class |-> "none", before |-> {}, after |-> {}, status |-> "none"]

\* The outcome of each rule of a pack.
Outcomes(es) == [r \in Rules |-> SweepStatus(Pack[r], es)]

LiveOutcomes(es) == [r \in Rules |-> LiveStatus(Pack[r], es)]

Init ==
    /\ baseline \in Baselines
    /\ candidate = <<>>
    /\ swept = [baseline |-> Outcomes(baseline), candidate |-> Outcomes(<<>>),
                live |-> LiveOutcomes(<<>>)]
    /\ gate = NoReport

Collect(e) ==
    /\ Len(candidate) < MaxEvents
    /\ candidate' = Append(candidate, e)
    /\ swept' = [swept EXCEPT !.candidate = Outcomes(candidate'),
                              !.live = LiveOutcomes(candidate')]
    /\ gate' = NoReport
    /\ UNCHANGED baseline

\* What assurance and investigation make of a recording depends on fields that the
\* rules do not use: any score goes with any events.
Recording(es, outcome, score, assessment) ==
    [events |-> Len(es), outcome |-> outcome, assurance |-> score, investigation |-> assessment]

\* What a comparison may be held to: --classification or none, and what the recordings say.
Comparisons ==
    {Expected(t[1], t[2], t[3]) :
        t \in {u \in (Classifications \union {"none"}) \X Classifications \X Classifications :
                  Comparable(u[2], u[3])}}

Compare(class, score, assessment) ==
    LET before == Recording(baseline, swept.baseline, 100, "clean")
        after  == Recording(candidate, swept.candidate, score, assessment)
    IN  /\ gate' = [class |-> class, before |-> before, after |-> after,
                    status |-> GateStatus(Findings(class, before, after))]
        /\ UNCHANGED <<baseline, candidate, swept>>

Next ==
    \/ \E e \in Records : Collect(e)
    \/ \E class \in Comparisons, score \in Scores, assessment \in Assessments :
          Compare(class, score, assessment)

Spec == Init /\ [][Next]_vars

-----------------------------------------------------------------------------
(* The synthetic twin of a recording.                                          *)

\* Deviation: references keep the ids of the recording.
TwinUnlinked(es) ==
    [i \in DOMAIN es |->
        [es[i] EXCEPT !.source_record_id = Alias["event"][@], !.agent_id = Alias["agent"][@],
                      !.source = "runtime", !.synthetic_twin = "true"]]

\* A reference to an event that is not in the recording is left out.  A digest tells events
\* apart as their ids do.
Twin(es) ==
    LET ids == {es[i].source_record_id : i \in DOMAIN es}
    IN  [i \in DOMAIN es |->
            [es[i] EXCEPT
                !.source_record_id = Alias["event"][@],
                !.agent_id = Alias["agent"][@],
                !.parent_event_id = IF @ \in ids THEN Alias["event"][@] ELSE None,
                !.caused_by_event_ids = {Alias["event"][id] : id \in @ \intersect ids},
                !.source = "runtime", !.source_runtime = "runtime", !.synthetic_twin = "true",
                !.executed = "false", !.source_event_digest = es[i].source_record_id]]

-----------------------------------------------------------------------------
(* The rules by their expression.                                              *)

Type(r) == Pack[r].expression.type

\* The expression relates events by conditions that hold of one event each.
Plain(expression) == \A x \in Nested(expression) : \A y \in Parts(x) : y.type \in Conditions

\* A chain has no choice of the child to go on from: it ends there, or no two have one parent.
NoChoice(x, es) ==
    x.type = "causal_graph" =>
        \/ Len(x.steps) <= 2
        \/ \A i, j \in DOMAIN es :
              es[i][x.link_field] = es[j][x.link_field] => i = j \/ es[i][x.link_field] = None

Identities == {"source_record_id", "agent_id"}
References == {"parent_event_id", "caused_by_event_ids"}
Marks      == {"source", "synthetic_twin", "source_runtime", "source_event_digest", "executed"}
Contents   == Fields \ (Identities \union References \union Marks)

\* A node that looks for neither an id nor a mark of the recording or the twin: who is whose it takes from identities,
\* and what belongs together from references.
Nameless(x) ==
    /\ x.type = "match" => \A p \in x.predicates :
          p.field \in Contents \/ (p.field \in Identities /\ p.operator = "exists")
    /\ x.type \in {"threshold", "graph_fanout"} =>
          x.distinct_field \in Contents \union Identities \union {None}
    /\ x.type = "causal_graph" => x.link_field \in References
    /\ x.type \in {"graph_path", "graph_fanout"} => x.link_fields \subseteq References

NamesNoId(rule) ==
    /\ rule.group_by \subseteq Contents \union Identities
    /\ \A x \in Nested(rule.expression) : Nameless(x)

Anonymous == {r \in Rules : NamesNoId(Pack[r])}

\* The events are new, and nothing has been made of them yet.
Collected == gate = NoReport

GroupEvents(r, key) == Restrict(candidate, Group(Pack[r], candidate, key))

Step(r, k, es) == Found(Pack[r].expression, es)[Pack[r].expression.steps[k]]

\* A sequence rule finds something exactly when some events of one group, taken in the
\* order of their times, satisfy its steps within the span: the earliest event for each
\* step never hides a chain that another choice would complete.
SequenceExact ==
    Collected => \A r \in {q \in Rules : Type(q) = "sequence"} :
        \A key \in Keys(Pack[r], candidate) :
            LET x  == Pack[r].expression
                es == GroupEvents(r, key)
                n  == Len(x.steps)
            IN  (GroupMatches(Pack[r], candidate, key) # {}) <=>
                \E c \in [1..n -> DOMAIN es] :
                    /\ \A k \in 1..n : c[k] \in Step(r, k, es)
                    /\ \A k \in 1..(n - 1) :
                          LET a == es[c[k]].timestamp
                              b == es[c[k + 1]].timestamp
                          IN  a < b \/ (a = b /\ c[k] < c[k + 1])
                    /\ es[c[n]].timestamp - es[c[1]].timestamp <= x.max_span_seconds

\* A graph_path rule finds something exactly when there are events for its steps, each
\* reached from the one before over at most max_depth links, cycles or none.
PathExact ==
    Collected => \A r \in {q \in Rules : Type(q) = "graph_path"} :
        \A key \in Keys(Pack[r], candidate) :
            LET x    == Pack[r].expression
                es   == GroupEvents(r, key)
                n    == Len(x.steps)
                kids == ChildrenOf(es, x.link_fields)
                Reaches(i, j) ==
                    \E len \in 1..x.max_depth : \E p \in [0..len -> DOMAIN es] :
                        p[0] = i /\ p[len] = j /\ \A k \in 1..len : p[k] \in kids[p[k - 1]]
            IN  (GroupMatches(Pack[r], candidate, key) # {}) <=>
                \E c \in [1..n -> DOMAIN es] :
                    /\ \A k \in 1..n : c[k] \in Step(r, k, es)
                    /\ \A k \in 1..(n - 1) : Reaches(c[k], c[k + 1])

\* An event changes nothing for the groups it is not in.
GroupsIndependent ==
    [][\A r \in Rules : \A key \in Keys(Pack[r], candidate) :
          (candidate' # candidate
             /\ key # GroupKey(candidate'[Len(candidate')], Pack[r].group_by))
          => GroupMatches(Pack[r], candidate', key) = GroupMatches(Pack[r], candidate, key)]_vars

\* Whatever a rule looks for, absences too: more evidence never makes a gap of what was in
\* sight and not detected.
VisibilityGrows ==
    [][\A r \in Rules : candidate' # candidate =>
          /\ swept.candidate[r] = "not_detected" => swept'.candidate[r] # "visibility_gap"
          /\ swept.live[r] = "missed" => swept'.live[r] # "visibility_gap"]_vars

\* More evidence never takes a verdict back, from detected to not detected or from
\* either to a gap, unless relations are nested, an id is borne twice, or a causal chain can
\* be led astray by a sibling of one of its events.
VerdictAdvances ==
    [][LET Rank(s) == CASE s = "visibility_gap" -> 0 [] s \in {"not_detected", "missed"} -> 1
                        [] s = "detected" -> 2
           ids     == [i \in DOMAIN candidate' |-> candidate'[i].source_record_id]
           Unique  == \A i, j \in DOMAIN ids : ids[i] = ids[j] => i = j
       IN  (candidate' # candidate /\ Unique) =>
             \A r \in Rules :
               (Plain(Pack[r].expression) /\ NoChoice(Pack[r].expression, candidate')) =>
                /\ Rank(swept.candidate[r]) <= Rank(swept.candidate'[r])
                /\ Rank(swept.live[r]) <= Rank(swept.live'[r])]_vars

\* The live verdict and the gap analysis tell one story: a gap in visibility exactly when
\* an undetected ability has findings about its telemetry, a miss when it has the finding
\* about its rule alone.
GapsExplainVerdict ==
    Collected => \A r \in Rules :
        LET categories == {f.category : f \in GapFindings(Pack[r], candidate)}
        IN  /\ swept.live[r] = "missed" <=> categories = {"detection"}
            /\ swept.live[r] = "visibility_gap" <=>
                  "detection" \in categories /\ categories # {"detection"}

\* A causal chain is a path over its one link: with ids of their own, and none that is its
\* own parent, a causal_graph rule finds nothing that is not connected.
CausalIsConnected ==
    LET ids == [i \in DOMAIN candidate |-> candidate[i].source_record_id]
    IN  (Collected /\ \A i, j \in DOMAIN ids : ids[i] = ids[j] => i = j) =>
        \A r \in {q \in Rules : Type(q) = "causal_graph"} :
            \A key \in Keys(Pack[r], candidate) :
                LET x  == Pack[r].expression
                    es == GroupEvents(r, key)
                    found == [k \in DOMAIN x.steps |-> Step(r, k, es)]
                    OwnParent(e) == e.source_record_id # None /\ e[x.link_field] = e.source_record_id
                IN  (\A i \in DOMAIN es : ~OwnParent(es[i])) =>
                    CausalFinds(es, found, x.link_field)
                        \subseteq PathFinds(es, found, {x.link_field}, 1)

\* The synthetic twin of a flight recording shows what the recording shows: each rule, as
\* long as it names no id, finds the same events in both, over the same links, causes and
\* groups.
TwinMatchesAlike ==
    LET ids    == [i \in DOMAIN candidate |-> candidate[i].source_record_id]
        Flight == /\ \A i, j \in DOMAIN ids : ids[i] = ids[j] => i = j
                  /\ \A i \in DOMAIN ids : ids[i] # None /\ candidate[i].agent_id # None
        All(r, es) == UNION {GroupMatches(Pack[r], es, key) : key \in Keys(Pack[r], es)}
    IN  Collected /\ Flight => \A r \in Anonymous : All(r, Twin(candidate)) = All(r, candidate)

\* A rule that detected something in a malicious baseline, and no longer does, fails the
\* command that gates the change, whatever became of it: lost, or out of sight.
GateCatchesLoss ==
    gate.class = "malicious" =>
        \A r \in Rules :
            gate.before.outcome[r] = "detected" /\ gate.after.outcome[r] # "detected"
            => \A failOn \in {"block", "review"} : ExitCode(failOn, gate.status) = 1

\* A candidate that detects all that the baseline did, opens no gap and has telemetry as
\* good passes.
NoFalseAlarm ==
    ( /\ gate.class = "malicious"
      /\ \A r \in Rules :
            /\ gate.before.outcome[r] = "detected" => gate.after.outcome[r] = "detected"
            /\ gate.after.outcome[r] = "visibility_gap" => gate.before.outcome[r] = "visibility_gap"
      /\ gate.after.assurance = gate.before.assurance
      /\ gate.after.investigation = gate.before.investigation
      /\ gate.after.events >= gate.before.events )
    => gate.status = "pass"

\* What rules find is what their nodes mean, in a recording and in its twin.
EngineExact == SequenceExact /\ PathExact /\ CausalIsConnected /\ TwinMatchesAlike

\* The gate fails what lost a detection, and passes what lost nothing.
GateIsFair == GateCatchesLoss /\ NoFalseAlarm

\* Evidence disturbs no other group, puts nothing out of sight and takes no verdict back
\* but that of a causal chain with a choice.
EvidenceOnlyAdds == GroupsIndependent /\ VisibilityGrows /\ VerdictAdvances
=============================================================================
