--------------------------- MODULE DetectionNodes ---------------------------
(* The expression nodes of detection/evaluator.py: what each finds among the    *)
(* events of one group, given what its sub-expressions found.  The events of    *)
(* a group are records of normalized fields by their index; a node finds a set  *)
(* of indices.                                                                  *)
EXTENDS Naturals, Sequences, FiniteSets

CONSTANT Iterated   \* Iterated[S][i]: where i comes when the set S of indices is iterated

\* A field that an event has not got.
None == "none"

Has(e, field) ==
    CASE field = "timestamp"           -> TRUE
      [] field = "caused_by_event_ids" -> e[field] # {}
      [] OTHER                         -> e[field] # None

LinkedIds(e, field) == IF field = "caused_by_event_ids" THEN e[field] ELSE {e[field]} \ {None}

-----------------------------------------------------------------------------
(* sequence, threshold, parent_child.                                          *)

\* Deviation: events follow each other as they were collected.
ArrivedBefore(es, i, j) == i < j

\* By time, events of one time as they were collected.
Before(es, i, j) ==
    \/ es[i].timestamp < es[j].timestamp
    \/ es[i].timestamp = es[j].timestamp /\ i < j

Earliest(es, S) == CHOOSE i \in S : \A j \in S \ {i} : Before(es, i, j)

\* From one first event, each step takes the earliest event left; 0 where none is.
GreedyChain(es, found, first) ==
    LET c[k \in 1..Len(found)] ==
            LET left == {j \in found[k] : c[k - 1] # 0 /\ Before(es, c[k - 1], j)}
            IN  IF k = 1 THEN first
                ELSE IF left = {} THEN 0 ELSE Earliest(es, left)
    IN  c

SequenceFinds(es, found, maxSpan) ==
    LET n      == Len(found)
        Chains == {c \in {GreedyChain(es, found, first) : first \in found[1]} :
                      c[n] # 0 /\ es[c[n]].timestamp <= es[c[1]].timestamp + maxSpan}
    IN  UNION {{c[k] : k \in 1..n} : c \in Chains}

\* The values that count: of the distinct field, or one for each event.
Counted(es, window, field) ==
    IF field = None THEN window ELSE {es[i][field] : i \in window} \ {None}

\* A window opens at each candidate.
ThresholdFinds(es, candidates, count, seconds, field) ==
    LET Window(i) == {j \in candidates : /\ j = i \/ Before(es, i, j)
                                         /\ es[j].timestamp <= es[i].timestamp + seconds}
    IN  UNION {w \in {Window(i) : i \in candidates} : Cardinality(Counted(es, w, field)) >= count}

ParentChildFinds(es, parents, children) ==
    UNION {{pc[1], pc[2]} : pc \in
              {q \in parents \X children :
                  /\ es[q[1]].process_id # None
                  /\ es[q[2]].parent_process_id = es[q[1]].process_id}}

-----------------------------------------------------------------------------
(* causal_graph, graph_path, graph_fanout.                                     *)

\* The first of some members of a set, in the order of the set's iteration.
First(S, some) == CHOOSE i \in some : \A j \in some : Iterated[S][i] <= Iterated[S][j]

\* Deviation: an event without an id is the parent of those without a parent.
ChainOverNone(es, found, root, link) ==
    LET c[k \in 1..Len(found)] ==
            LET kids == {j \in found[k] : c[k - 1] # 0 /\ es[j][link] = es[c[k - 1]].source_record_id}
            IN  IF k = 1 THEN root ELSE IF kids = {} THEN 0 ELSE First(found[k], kids)
    IN  c

\* Each step goes on from one child of the event before, the first in the iteration of what
\* the step found, and never tries another.  The text of a list of causes is no id.
CausalChain(es, found, root, link) ==
    LET c[k \in 1..Len(found)] ==
            LET kids == {j \in found[k] : /\ link # "caused_by_event_ids" /\ c[k - 1] # 0
                                          /\ es[c[k - 1]].source_record_id # None
                                          /\ es[j][link] = es[c[k - 1]].source_record_id}
            IN  IF k = 1 THEN root ELSE IF kids = {} THEN 0 ELSE First(found[k], kids)
    IN  c

CausalFinds(es, found, link) ==
    LET n == Len(found)
    IN  UNION {{c[k] : k \in 1..n} :
                  c \in {d \in {CausalChain(es, found, r, link) : r \in found[1]} : d[n] # 0}}

\* An id stands for the last event that bears it.
Bearer(es, i) == ~\E j \in DOMAIN es : j > i /\ es[j].source_record_id = es[i].source_record_id

ChildrenOf(es, links) ==
    [p \in DOMAIN es |->
        {c \in DOMAIN es \ {p} :
            /\ Bearer(es, p)
            /\ \E field \in links : es[p].source_record_id \in LinkedIds(es[c], field) \ {None}}]

\* Deviation: only what lies exactly at the depth.
AtDepth(root, children, maxDepth) ==
    LET level[d \in 0..maxDepth] ==
            IF d = 0 THEN {root} ELSE UNION {children[p] : p \in level[d - 1]}
    IN  level[maxDepth]

\* Breadth first, up to the depth; the root itself only over a cycle.
Descendants(root, children, maxDepth) ==
    LET walk[d \in 0..maxDepth] ==
            IF d = 0 THEN [frontier |-> {root}, observed |-> {}]
            ELSE LET next == (UNION {children[p] : p \in walk[d - 1].frontier})
                                 \ walk[d - 1].observed
                 IN  [frontier |-> next, observed |-> walk[d - 1].observed \union next]
    IN  walk[maxDepth].observed

\* From one root, what the descendants of each frontier hold of the next step.
Frontiers(found, children, maxDepth, root) ==
    LET f[k \in 1..Len(found)] ==
            IF k = 1 THEN {root}
            ELSE UNION {Descendants(p, children, maxDepth) \intersect found[k] : p \in f[k - 1]}
    IN  f

\* The events of a frontier that lead no further are among what is found, when others do.
PathFinds(es, found, links, maxDepth) ==
    LET n        == Len(found)
        children == ChildrenOf(es, links)
    IN  UNION {UNION {f[k] : k \in 1..n} :
                  f \in {g \in {Frontiers(found, children, maxDepth, r) : r \in found[1]} : g[n] # {}}}

FanoutFinds(es, roots, candidates, count, field, links, maxDepth) ==
    LET children == ChildrenOf(es, links)
        Reached(r) == Descendants(r, children, maxDepth) \intersect candidates
    IN  UNION {{r} \union Reached(r) :
                  r \in {q \in roots : Cardinality(Counted(es, Reached(q), field)) >= count}}
=============================================================================
