---------------------------- MODULE Investigation ----------------------------
(* The investigation of a window of normalized events                           *)
(* (telemetry/investigation.py): a graph with one node for each event, and what *)
(* it shows of delegation, goals and memory.  A node is the index of its event. *)
EXTENDS AgentEvents, Integers, Sequences, FiniteSets, FiniteSetsExt, SequencesExt

CONSTANT MaxPath    \* nodes of a path: 20

ASSUME InvestigationAssumption == MaxPath \in Nat \ {0}

Ids(w) == {w[i].id : i \in DOMAIN w} \ {None}

\* external_ids: of events that share an id, references go to the first.
NodeOf(w, id) == Min({i \in DOMAIN w : w[i].id = id})

TraceOf(e) == Or(e.trace_id, "unknown-trace")

-----------------------------------------------------------------------------
(* The graph.                                                                  *)

\* add_edge, for a relationship that stays within a trace.
MayLink(w, i, j) == i # j /\ TraceOf(w[i]) = TraceOf(w[j])

References(e) == (IF e.parent_event_id = None THEN <<>> ELSE <<e.parent_event_id>>) \o e.caused_by_event_ids

\* Those of a list that are members of a set, in the list's order.
Within(list, S) == FlattenSeq([n \in DOMAIN list |-> IF list[n] \in S THEN <<list[n]>> ELSE <<>>])

\* The sources of a node's causal edges, in the order of the edges: the parent, the causes.
Sources(w, j) ==
    LET found == Within(References(w[j]), Ids(w))
        nodes == [n \in DOMAIN found |-> NodeOf(w, found[n])]
    IN  Within(nodes, {i \in ToSet(nodes) : MayLink(w, i, j)})

\* The causal edges, as what each node comes from; a reference that is repeated is one edge.
CausalGraph(w) == [j \in DOMAIN w |-> Sources(w, j)]

Parents(graph, j) == ToSet(graph[j])

\* _depths, a generation at a time: what is popped once all its parents are.  A node on a
\* cycle, or below one, is not popped; its depth is what its popped parents gave it.
Generations(graph) ==
    LET N == Len(graph)
        round[n \in 0 .. N] ==
            IF n = 0 THEN [popped |-> {}, depth |-> [j \in DOMAIN graph |-> 0]]
            ELSE LET last == round[n - 1]
                     ready == {j \in DOMAIN graph \ last.popped : Parents(graph, j) \subseteq last.popped}
                 IN  [popped |-> last.popped \union ready,
                      depth |-> [j \in DOMAIN graph |->
                                    Max({last.depth[j]} \union
                                        {last.depth[i] + 1 : i \in Parents(graph, j) \intersect ready})]]
    IN  round[N]

-----------------------------------------------------------------------------
(* The findings, as a code with the nodes it is about; its trace is the last    *)
(* node's.                                                                      *)

Found(code, nodes) == [code |-> code, nodes |-> nodes]

Severity(code) ==
    IF code \in {"delegation_identity_binding_failed", "delegation_endpoint_drift", "goal_integrity_failed",
                 "unapproved_goal_fingerprint_change"}
    THEN "critical" ELSE "high"

HandoffFindings(w, graph) ==
    LET handoffs == {e \in (DOMAIN w) \X (DOMAIN w) :
                        e[1] \in Parents(graph, e[2]) /\ None \notin {w[e[1]].agent_id, w[e[2]].agent_id}
                            /\ w[e[1]].agent_id # w[e[2]].agent_id}
    IN  {Found("agent_handoff_without_delegation", e) : e \in {e \in handoffs : w[e[2]].delegation_id = None}}
        \union
        {Found("delegation_identity_binding_failed", e) :
            e \in {e \in handoffs : /\ w[e[2]].delegation_id # None
                                    /\ w[e[2]].type = "agent.delegation.accepted"
                                    /\ w[e[2]].identity_binding_valid = FALSE}}

\* The nodes that share a delegation, in the order of the window.
DelegationGroups(w) ==
    {Within([i \in DOMAIN w |-> i],
            {i \in DOMAIN w : w[i].delegation_id = w[j].delegation_id /\ TraceOf(w[i]) = TraceOf(w[j])}) :
        j \in {j \in DOMAIN w : w[j].delegation_id # None}}

Values(w, group, field) == {w[i][field] : i \in ToSet(group)} \ {None}

DelegationFindings(w) ==
    {Found("delegation_principal_drift", g) :
        g \in {g \in DelegationGroups(w) :
                  /\ Cardinality(Values(w, g, "principal_id")) > 1
                  /\ \E i \in ToSet(g) : w[i].principal_transition_approved # TRUE}}
    \union
    {Found("delegation_endpoint_drift", g) :
        g \in {g \in DelegationGroups(w) :
                  \/ Cardinality(Values(w, g, "delegated_from_agent_id")) > 1
                  \/ Cardinality(Values(w, g, "delegated_to_agent_id")) > 1}}

\* The last checkpoint of a goal before this one, 0 if there is none.
PriorGoal(w, j) ==
    Max({0} \union {i \in 1 .. j - 1 : /\ w[i].goal_id = w[j].goal_id /\ w[i].goal_fingerprint # None
                                       /\ TraceOf(w[i]) = TraceOf(w[j])})

\* Deviation: a checkpoint is compared with the one before it, whose goal it may not be.
GoalFindingsOfNeighbours(w) ==
    {Found("goal_integrity_failed", <<j>>) :
        j \in {j \in DOMAIN w : w[j].type = "agent.goal.integrity" /\ w[j].goal_integrity_valid = FALSE}}
    \union
    {Found("unapproved_goal_fingerprint_change", <<j - 1, j>>) :
        j \in {j \in DOMAIN w : /\ j > 1 /\ None \notin {w[j].goal_id, w[j].goal_fingerprint}
                                /\ w[j - 1].goal_id = w[j].goal_id
                                /\ w[j - 1].goal_fingerprint # w[j].goal_fingerprint
                                /\ w[j].goal_change_approved # TRUE}}

GoalFindings(w) ==
    {Found("goal_integrity_failed", <<j>>) :
        j \in {j \in DOMAIN w : w[j].type = "agent.goal.integrity" /\ w[j].goal_integrity_valid = FALSE}}
    \union
    {Found("unapproved_goal_fingerprint_change", <<PriorGoal(w, j), j>>) :
        j \in {j \in DOMAIN w : /\ None \notin {w[j].goal_id, w[j].goal_fingerprint}
                                /\ PriorGoal(w, j) # 0
                                /\ w[PriorGoal(w, j)].goal_fingerprint # w[j].goal_fingerprint
                                /\ w[j].goal_change_approved # TRUE}}

MemoryEvents == {"agent.memory.written", "agent.memory.read"}

MemoryFindings(w) ==
    {Found("memory_provenance_failed", <<j>>) :
        j \in {j \in DOMAIN w : w[j].type \in MemoryEvents /\ w[j].memory_provenance_valid = FALSE}}
    \union
    {Found("memory_retention_policy_failed", <<j>>) :
        j \in {j \in DOMAIN w : w[j].type \in MemoryEvents /\ w[j].memory_retention_valid = FALSE}}
    \union
    {Found("shared_memory_lineage_missing", <<j>>) :
        j \in {j \in DOMAIN w : /\ w[j].type = "agent.memory.written"
                                /\ w[j].memory_scope \in {"shared", "persistent"}
                                /\ w[j].data_lineage_id = None}}

Findings(w) ==
    HandoffFindings(w, CausalGraph(w)) \union DelegationFindings(w) \union GoalFindings(w) \union MemoryFindings(w)

-----------------------------------------------------------------------------
(* What the report says of them.                                               *)

\* Deviation: a path takes the last edge of a node, and may take it again.
PathToByLastEdge(graph, node) ==
    LET back[n \in 1 .. MaxPath] ==
            IF n = 1 THEN <<node>>
            ELSE LET chain == back[n - 1]
                     edges == graph[Last(chain)]
                 IN  IF Len(chain) < n - 1 \/ edges = <<>> THEN chain ELSE Append(chain, Last(edges))
    IN  Reverse(back[MaxPath])

\* A finding's path: back from its last node along first edges, until a root, a node that
\* was there before, or the bound.
PathTo(graph, node) ==
    LET back[n \in 1 .. MaxPath] ==
            IF n = 1 THEN <<node>>
            ELSE LET chain == back[n - 1]
                     first == graph[Last(chain)]
                 IN  IF Len(chain) < n - 1 \/ first = <<>> \/ first[1] \in ToSet(chain) THEN chain
                     ELSE Append(chain, first[1])
    IN  Reverse(back[MaxPath])

Highest(codes) ==
    IF \E c \in codes : Severity(c) = "critical" THEN "critical"
    ELSE IF \E c \in codes : Severity(c) = "high" THEN "high" ELSE "none"

Codes(findings) == {f.code : f \in findings}

\* highest_severity of a trace.
TraceSeverity(w, findings, trace) ==
    Highest(Codes({f \in findings : TraceOf(w[Last(f.nodes)]) = trace}))
=============================================================================
