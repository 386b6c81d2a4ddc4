------------------------- MODULE MCDetectionPipeline -------------------------
(* Six rules, one of each connecting node and one with a negation, and six      *)
(* events: two agents, a tree of parents and causes, events at one time, two    *)
(* that bear one id and one that has neither id nor agent.                     *)
EXTENDS DetectionPipeline

Event(kind, time, id, parent, causes, agent) ==
    [event_type |-> kind, timestamp |-> time, source_record_id |-> id,
     parent_event_id |-> parent, caused_by_event_ids |-> causes, agent_id |-> agent,
     source |-> IF kind = "tool" THEN "runtime" ELSE "endpoint",
     process_id |-> IF kind = "tool" THEN None ELSE "p1",
     parent_process_id |-> IF kind = "tool" THEN "p1" ELSE None,
     synthetic_twin |-> None, source_runtime |-> None, source_event_digest |-> None,
     executed |-> None]

MCRecords ==
    {Event("goal", 1, "e1", None, {}, "a1"),     Event("memory", 2, "e2", "e1", {}, "a1"),
     Event("tool", 3, "e3", "e2", {"e2"}, "a1"), Event("memory", 1, None, "e1", {}, None),
     Event("tool", 2, "e5", "e1", {}, "a2"),     Event("tool", 1, "e1", "e2", {}, "a1")}

\* Even indices before odd ones, as where hashes wrap.
MCIterated == [S \in SUBSET (1..4) |-> [i \in S |-> IF i % 2 = 0 THEN i ELSE 4 + i]]

MCAlias ==
    [event |-> [id \in {e.source_record_id : e \in MCRecords} \ {None} |-> "event-" \o id],
     agent |-> [id \in {e.agent_id : e \in MCRecords} \ {None} |-> "agent-" \o id]]

Is(kind) == [type |-> "match",
             predicates |-> {[field |-> "event_type", operator |-> "eq", value |-> kind]}]

Unattributed == [type |-> "not", child |->
    [type |-> "match", predicates |-> {[field |-> "agent_id", operator |-> "exists"]}]]

Links == {"parent_event_id", "caused_by_event_ids"}

Rule(x, group, fields, sources) ==
    [expression |-> x, group_by |-> group, required_fields |-> {"event_type"} \union group \union fields,
     expected_sources |-> sources, risk |-> "low",
     requirements |-> {[source |-> s, fields |-> fields \ {"source_record_id"}] : s \in sources}]

MCRules == {"ordered", "burst", "path", "chain", "fanout", "unattributed"}

MCPack == [r \in MCRules |->
    CASE r = "ordered" ->
            Rule([type |-> "sequence", steps |-> <<Is("goal"), Is("memory"), Is("tool")>>,
                  max_span_seconds |-> 2], {"agent_id"}, {}, {"runtime"})
      [] r = "burst" ->
            Rule([type |-> "threshold", child |-> [type |-> "any", children |-> {Is("memory"), Is("tool")}],
                  count |-> 2, window_seconds |-> 1, distinct_field |-> "agent_id"],
                 {}, {"agent_id"}, {"endpoint", "runtime"})
      [] r = "path" ->
            Rule([type |-> "graph_path", steps |-> <<Is("goal"), Is("tool")>>, link_fields |-> Links,
                  max_depth |-> 2], {}, Links \union {"source_record_id"}, {"runtime"})
      [] r = "chain" ->
            Rule([type |-> "causal_graph", steps |-> <<Is("goal"), Is("memory"), Is("tool")>>,
                  link_field |-> "parent_event_id"], {},
                 {"parent_event_id", "source_record_id"}, {})
      [] r = "fanout" ->
            Rule([type |-> "graph_fanout", root |-> Is("goal"), descendant |-> Is("tool"), count |-> 2,
                  distinct_field |-> "agent_id", link_fields |-> Links, max_depth |-> 2], {},
                 Links \union {"agent_id", "source_record_id"}, {"endpoint"})
      [] r = "unattributed" ->
            Rule([type |-> "all", children |->
                    {Unattributed,
                     [type |-> "parent_child", parent |-> Is("memory"), child |-> Is("tool")]}], {},
                 {"agent_id", "process_id", "parent_process_id"}, {})]

MCBaselines ==
    {<<Event("goal", 1, "e1", None, {}, "a1"), Event("memory", 2, "e2", "e1", {}, "a1"),
       Event("tool", 3, "e3", "e2", {"e2"}, "a1")>>,
     <<Event("goal", 1, "e1", None, {}, "a1")>>}

=============================================================================
