--------------------------- MODULE DetectionEngine ---------------------------
(* Rules of the detection AST, their evaluation by group, and the outcome of a  *)
(* sweep (detection/evaluator.py, ast.py, packs.py).  An expression is a record *)
(* with its node's type and attributes.                                         *)
EXTENDS DetectionNodes, Functions

CONSTANT MaxNesting     \* bound: how deep expressions are nested

ASSUME EngineAssumption == MaxNesting \in Nat

\* A predicate.  The operators on text are "in", with the values that they accept.
PredicateMatches(e, p) ==
    CASE p.operator = "exists" -> Has(e, p.field)
      [] p.operator = "eq"     -> e[p.field] = p.value
      [] p.operator = "ne"     -> e[p.field] # p.value
      [] p.operator = "in"     -> e[p.field] \in p.value

\* The expressions that a node combines.
Parts(x) ==
    CASE x.type = "match"                -> {}
      [] x.type \in {"all", "any"}       -> x.children
      [] x.type \in {"not", "threshold"} -> {x.child}
      [] x.type = "parent_child"         -> {x.parent, x.child}
      [] x.type = "graph_fanout"         -> {x.root, x.descendant}
      [] OTHER                           -> Range(x.steps)

Conditions == {"match", "all", "any", "not"}
Relations  == {"sequence", "threshold", "parent_child", "causal_graph", "graph_path", "graph_fanout"}

\* What the constructor of a node accepts.
Formed(x) ==
    CASE x.type = "match"            -> x.predicates # {}
      [] x.type \in {"all", "any"}   -> x.children # {}
      [] x.type \in {"not", "parent_child"} -> TRUE
      [] x.type = "sequence"         -> x.steps # <<>> /\ x.max_span_seconds \in Nat \ {0}
      [] x.type = "threshold"        -> {x.count, x.window_seconds} \subseteq Nat \ {0}
      [] x.type = "causal_graph"     -> x.steps # <<>>
      [] x.type = "graph_path"       -> Len(x.steps) >= 2 /\ x.max_depth \in 1..50
      [] x.type = "graph_fanout"     -> x.count \in Nat \ {0} /\ x.max_depth \in 1..50

\* An expression and all that are nested in it.
Nested(x) ==
    LET upto[depth \in 0..MaxNesting] ==
            IF depth = 0 THEN {x}
            ELSE upto[depth - 1] \union UNION {Parts(y) : y \in upto[depth - 1]}
    IN  upto[MaxNesting]

\* Expressions are finite trees of nodes.
Tree(expression) ==
    LET all == Nested(expression)
    IN  /\ expression \in all
        /\ \A x \in all :
              /\ x.type \in Conditions \union Relations /\ Formed(x)
              /\ x.type \in {"sequence", "causal_graph", "graph_path"} => x.steps \in Seq(all)
        /\ \E height \in [all -> 0..MaxNesting] :
              \A x \in all : \A y \in Parts(x) : y \in all /\ height[y] < height[x]

\* What a node finds, given what is found for each expression nested in it.
NodeFinds(x, es, found) ==
    LET Each(steps) == [k \in DOMAIN steps |-> found[steps[k]]]
    IN  CASE x.type = "match" -> {i \in DOMAIN es : \A p \in x.predicates : PredicateMatches(es[i], p)}
          [] x.type = "all" -> {i \in DOMAIN es : \A y \in x.children : i \in found[y]}
          [] x.type = "any" -> UNION {found[y] : y \in x.children}
          [] x.type = "not" -> DOMAIN es \ found[x.child]
          [] x.type = "sequence" -> SequenceFinds(es, Each(x.steps), x.max_span_seconds)
          [] x.type = "threshold" ->
                ThresholdFinds(es, found[x.child], x.count, x.window_seconds, x.distinct_field)
          [] x.type = "parent_child" -> ParentChildFinds(es, found[x.parent], found[x.child])
          [] x.type = "causal_graph" -> CausalFinds(es, Each(x.steps), x.link_field)
          [] x.type = "graph_path" -> PathFinds(es, Each(x.steps), x.link_fields, x.max_depth)
          [] x.type = "graph_fanout" ->
                FanoutFinds(es, found[x.root], found[x.descendant], x.count,
                            x.distinct_field, x.link_fields, x.max_depth)

\* _matches, of the expression and all that are nested in it.
Found(x, es) ==
    LET found[y \in Nested(x)] == NodeFinds(y, es, found)
    IN  found

Matches(x, es) == Found(x, es)[x]

-----------------------------------------------------------------------------
(* evaluate_rule.                                                              *)

GroupKey(e, fields) == [f \in fields |-> e[f]]

Keys(rule, es) == {GroupKey(es[i], rule.group_by) : i \in DOMAIN es}

Group(rule, es, key) == {i \in DOMAIN es : GroupKey(es[i], rule.group_by) = key}

\* Deviation: the rule looks at all events, and the group keeps what is its own.
MatchesAcrossGroups(rule, es, key) == Matches(rule.expression, es) \intersect Group(rule, es, key)

\* A group is evaluated as if there were no other events; its own keep their indices, for
\* only their order matters.
GroupMatches(rule, es, key) == Matches(rule.expression, Restrict(es, Group(rule, es, key)))

Matched(rule, es) == \E key \in Keys(rule, es) : GroupMatches(rule, es, key) # {}

-----------------------------------------------------------------------------
(* sweep_detection_pack.                                                       *)

Builtin == {"timestamp", "source", "event_type", "source_record_id"}

\* Deviation: fields are looked for in the record collected last.
FieldsOfLast(es) ==
    Builtin \union (IF es = <<>> THEN {} ELSE {f \in DOMAIN es[Len(es)] : Has(es[Len(es)], f)})

AvailableFields(es) ==
    Builtin \union UNION {{f \in DOMAIN es[i] : Has(es[i], f)} : i \in DOMAIN es}

Sources(es) == {es[i].source : i \in DOMAIN es}

MissingFields(rule, es) == rule.required_fields \ AvailableFields(es)

\* One of the expected sources is enough.
MissingSources(rule, es) ==
    IF rule.expected_sources \intersect Sources(es) = {} THEN rule.expected_sources ELSE {}

SweepStatus(rule, es) ==
    IF Matched(rule, es) THEN "detected"
    ELSE IF MissingFields(rule, es) # {} \/ MissingSources(rule, es) # {}
         THEN "visibility_gap" ELSE "not_detected"

-----------------------------------------------------------------------------
(* analyze_coverage, evaluate_live_ability, analyze_gaps.  An ability has its   *)
(* candidate rule and its expected_telemetry, a set of sources with the fields  *)
(* required of each.                                                           *)

Matching(requirement, es) ==
    {i \in DOMAIN es : requirement.source \in {es[i].source, es[i].event_type}}

Unseen(requirement, es) ==
    requirement.fields \ UNION {{f \in DOMAIN es[i] : Has(es[i], f)} : i \in Matching(requirement, es)}

\* Deviation: a source that nothing is required of needs no event.
CoveredByFields(requirement, es) == Unseen(requirement, es) = {}

Covered(requirement, es) ==
    Matching(requirement, es) # {} /\ Unseen(requirement, es) = {}

LiveStatus(ability, es) ==
    IF Matched(ability, es) THEN "detected"
    ELSE IF \A requirement \in ability.requirements : Covered(requirement, es)
         THEN "missed" ELSE "visibility_gap"

\* The categories of gap that are found, and the severities.
GapFindings(ability, es) ==
    {[category |-> "telemetry_source", severity |-> "high"] :
        q \in {p \in ability.requirements : Matching(p, es) = {}}}
    \union
    {[category |-> "telemetry_fields", severity |-> "medium"] :
        q \in {p \in ability.requirements : Matching(p, es) # {} /\ Unseen(p, es) # {}}}
    \union
    (IF Matched(ability, es) THEN {}
     ELSE {[category |-> "detection",
            severity |-> IF ability.risk = "high" THEN "high" ELSE "medium"]})
=============================================================================
