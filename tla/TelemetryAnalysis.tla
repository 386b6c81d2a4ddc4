-------------------------- MODULE TelemetryAnalysis --------------------------
(* The analyses of evidence, composed: the events of some traces reach a window *)
(* late, twice or not at all; the window may be converted to a standard and     *)
(* back; it is assessed, investigated, and feedback is reconciled with it.      *)
(* Three more studies stand beside it: the correlation of a lifecycle whose     *)
(* events come in any order, the drift of a candidate that is tuned step by     *)
(* step, and a live query.                                                      *)
EXTENDS Feedback, Assurance, PortableTelemetry, LiveQuery

CONSTANTS
    Corpora,            \* records: events, shuffled, the feedback bundles they are joined with
    Lifecycles,         \* sets of lifecycle events
    Evidence,           \* sequences of telemetry with its lifecycle event's action and its skew
    Baselines,          \* snapshots
    Anyone,             \* no run id, in a telemetry event
    Tolerance,          \* tolerance_seconds
    MaxDuplicates, MaxConversions   \* bounds

\* The records that an alert names have names.  An action's events have the run that they are
\* of, and are numbered in the order of their times, which are emitted one after the other.  An
\* event has a time, and a list of causes.
ASSUME AnalysisAssumption ==
    /\ Tolerance \in Nat /\ Baselines \subseteq Snapshots
    /\ \A events \in Lifecycles : \A e, f \in events :
          /\ e.sequence \in Nat /\ e.time \in Int
          /\ e.action = f.action => e.run = f.run /\ (e.sequence <= f.sequence => e.time <= f.time)
    /\ \A items \in Evidence : \A i \in DOMAIN items : items[i].time \in Int /\ items[i].emitted \in Int
    /\ None # "unknown-trace" /\ None # TRUE /\ None \notin Int
    /\ \A c \in Corpora : c.events \in Seq(ToSet(c.events))
    /\ \A c \in Corpora : \A i \in DOMAIN c.events :
          /\ c.events[i].time \in Int
          /\ c.events[i].caused_by_event_ids \in Seq(ToSet(c.events[i].caused_by_event_ids))
    /\ \A c \in Corpora : \A b \in c.bundles : \A a \in b.alerts : None \notin a.evidence

VARIABLES
    study,              \* "window", "correlation", "drift" or "query"
    corpus, bundle,     \* what may be delivered, and the feedback on it
    delivered,          \* the indices of the events, in the order they came
    window,             \* the events
    conversions,        \* profiles that the window went through
    lifecycle, recorded, \* the lifecycle events that came, of the run's
    telemetry,          \* the evidence of that run
    baseline, candidate \* snapshots

windowVars      == <<corpus, bundle, delivered, window, conversions>>
correlationVars == <<lifecycle, recorded, telemetry>>
driftVars       == <<baseline, candidate>>
vars == <<study, windowVars, correlationVars, driftVars, queryVars>>

Init ==
    /\ study \in {"window", "correlation", "drift", "query"}
    /\ IF study = "window" THEN corpus \in Corpora /\ bundle \in {b \in corpus.bundles : BundleParses(b)}
       ELSE corpus = None /\ bundle = None
    /\ delivered = <<>> /\ window = <<>> /\ conversions = <<>> /\ lifecycle = <<>>
    /\ IF study = "correlation" THEN recorded \in Lifecycles /\ telemetry \in Evidence
       ELSE recorded = {} /\ telemetry = <<>>
    /\ IF study = "drift" THEN baseline \in Baselines /\ candidate = baseline
       ELSE baseline = None /\ candidate = None
    /\ IF study = "query" THEN QueryInit
       ELSE plan = None /\ planEdits = 0 /\ exchange = Unsent("none")

-----------------------------------------------------------------------------
(* The correlation of a campaign's lifecycle with telemetry                     *)
(* (telemetry/correlation.py).                                                  *)

Actions == {lifecycle[i].action : i \in DOMAIN lifecycle}

Positions(action) == {i \in DOMAIN lifecycle : lifecycle[i].action = action}

\* Deviation: the lifecycle is taken in the order of its delivery.
OrderedByArrival(action) ==
    [first |-> lifecycle[Min(Positions(action))], last |-> lifecycle[Max(Positions(action))]]

\* The first and the last event of an action by their sequence numbers.
Ordered(action) ==
    LET events == {lifecycle[i] : i \in Positions(action)}
    IN  [first |-> CHOOSE e \in events : \A f \in events : e.sequence <= f.sequence,
         last  |-> CHOOSE e \in events : \A f \in events : e.sequence >= f.sequence]

\* expected_sources, over all the action's events.
Expected(action) == UNION {lifecycle[i].expected : i \in Positions(action)}

\* correlate_lifecycle: the events of a window that are an action's evidence.
Correlated(action) ==
    LET ends == Ordered(action)
    IN  {i \in DOMAIN telemetry :
            /\ telemetry[i].time \in ends.first.time - Tolerance .. ends.last.time + Tolerance
            /\ \/ Expected(action) = {}
               \/ telemetry[i].source \in Expected(action)
               \/ telemetry[i].type \in Expected(action)
               \/ telemetry[i].ability = ends.first.ability
            /\ telemetry[i].run \in {Anyone, ends.first.run}}

-----------------------------------------------------------------------------
(* The window.                                                                 *)

Duplicates == Len(delivered) - Cardinality(ToSet(delivered))

\* The next record of an export, or one that is late, or one again.
Deliver(i) ==
    /\ study = "window" /\ conversions = <<>> /\ i \in DOMAIN corpus.events
    /\ corpus.shuffled \/ \A n \in DOMAIN delivered : delivered[n] <= i
    /\ i \in ToSet(delivered) => Duplicates < MaxDuplicates
    /\ delivered' = Append(delivered, i)
    /\ window' = Append(window, corpus.events[i])
    /\ UNCHANGED <<study, corpus, bundle, conversions, correlationVars, driftVars, queryVars>>

\* telemetry map, of a window that has each event once; a record that does not name what an
\* agent's event has to is given names when it is read.
Named(e) == None \notin {e.id, e.trace_id, e.session_id, e.agent_id}

Convert(profile) ==
    /\ study = "window" /\ ToSet(delivered) = DOMAIN corpus.events /\ Duplicates = 0
    /\ \A i \in DOMAIN window : Named(window[i])
    /\ Len(conversions) < MaxConversions
    /\ conversions' = Append(conversions, profile)
    /\ window' = Converted(window, profile)
    /\ UNCHANGED <<study, corpus, bundle, delivered, correlationVars, driftVars, queryVars>>

-----------------------------------------------------------------------------
(* The lifecycle and the candidate.                                            *)

Observe(e) ==
    /\ study = "correlation" /\ e \in recorded \ ToSet(lifecycle)
    /\ lifecycle' = Append(lifecycle, e)
    /\ UNCHANGED <<study, recorded, telemetry, windowVars, driftVars, queryVars>>

\* A rule is changed, and the corpora are run again: verdicts move within their class.
Tune(from, to, by) ==
    /\ study = "drift"
    /\ candidate[from] - by >= 0 /\ candidate[to] + by >= 0
    /\ candidate' = [candidate EXCEPT ![from] = @ - by, ![to] = @ + by]
    /\ UNCHANGED <<study, baseline, windowVars, correlationVars, queryVars>>

LoseAlert ==
    /\ study = "drift" /\ candidate.reconciled > 0
    /\ candidate' = [candidate EXCEPT !.reconciled = @ - 1]
    /\ UNCHANGED <<study, baseline, windowVars, correlationVars, queryVars>>

Slow ==
    /\ study = "drift" /\ candidate.latency # Untimed /\ candidate.latency <= MaxLatency + 5
    /\ candidate' = [candidate EXCEPT !.latency = @ + 1]
    /\ UNCHANGED <<study, baseline, windowVars, correlationVars, queryVars>>

Ask == study = "query" /\ QueryNext /\ UNCHANGED <<study, windowVars, correlationVars, driftVars>>

Next ==
    \/ \E i \in 1 .. (IF corpus = None THEN 0 ELSE Len(corpus.events)) : Deliver(i)
    \/ \E profile \in Profiles : Convert(profile)
    \/ \E e \in recorded : Observe(e)
    \/ \E by \in {-1, 1} : Tune("true_positive", "false_negative", by)
    \/ \E by \in {-1, 1} : Tune("true_negative", "false_positive", by)
    \/ LoseAlert
    \/ Slow
    \/ Ask

Spec == Init /\ [][Next]_vars

-----------------------------------------------------------------------------
(* Properties of the window.                                                   *)

\* The delivered events in the order of the corpus, each once.
InOrder ==
    LET kept == Within([i \in DOMAIN corpus.events |-> i], ToSet(delivered))
    IN  [n \in DOMAIN kept |-> corpus.events[kept[n]]]

Collide(S) == \E i, j \in S : i # j /\ corpus.events[i].id = corpus.events[j].id
Approves == \E i \in DOMAIN corpus.events : corpus.events[i].goal_change_approved = TRUE

\* Where the doctor calls a window healthy, the graph is whole: every reference of an agent's
\* event is an edge from the event with that id, and where no two times are the same no event
\* is left on a cycle, so that its depth is one more than the greatest of its parents'.
AssuredGraphIsWhole ==
    study = "window" /\ AssuranceStatus(AssuranceCodes(window)) = "healthy" =>
        LET graph == CausalGraph(window)
            depth == Generations(graph)
        IN  /\ \A j \in DOMAIN window : window[j].agent =>
                  Parents(graph, j) =
                      {i \in DOMAIN window : i # j /\ window[i].agent /\ window[i].id \in Referenced(window[j])}
                      \union {i \in Parents(graph, j) : ~window[i].agent}
            /\ IsInjective([i \in DOMAIN window |-> window[i].time]) =>
                  /\ depth.popped = DOMAIN window
                  /\ \A j \in DOMAIN window : depth.depth[j] = Max({0} \union {depth.depth[i] + 1 : i \in Parents(graph, j)})

\* An investigation, and the reconciliation of feedback, depend on which events are in the
\* window and not on the order or the number of times they came; of events that share an
\* id, and of goals that changed with approval, this is not so.
DeliveryOrderIrrelevant ==
    study = "window" /\ conversions = <<>> /\ ~Collide(ToSet(delivered)) /\ ~Approves =>
        LET inOrder  == InOrder
            came     == Findings(window)
            expected == Findings(inOrder)
        IN  /\ Codes(came) = Codes(expected)
            /\ FeedbackStatus(window, came, bundle) = FeedbackStatus(inOrder, expected, bundle)

\* Evidence that is lost hides findings and never makes one, except for a goal whose change
\* had been approved.
LossOnlyHides ==
    study = "window" /\ conversions = <<>> /\ ~Collide(DOMAIN corpus.events) /\ ~Approves =>
        Codes(Findings(window)) \subseteq Codes(Findings(corpus.events))

\* A path leads along the graph to the node that its finding is about, through no node
\* twice, and starts at a root unless it was cut or came to a cycle.
PathsFollowGraph ==
    study = "window" =>
        LET graph == CausalGraph(window) IN
        \A f \in Findings(window) :
            LET path == PathTo(graph, Last(f.nodes))
            IN  /\ Last(path) = Last(f.nodes) /\ IsInjective(path) /\ Len(path) <= MaxPath
                /\ \A n \in 1 .. Len(path) - 1 : path[n] \in Parents(graph, path[n + 1])
                /\ \/ Len(path) = MaxPath
                   \/ graph[path[1]] = <<>>
                   \/ Generations(graph).popped # DOMAIN window

\* However it is delivered, a window says nothing that the whole evidence does not.
DeliveryIsHarmless == DeliveryOrderIrrelevant /\ LossOnlyHides

\* The graph of a window can be relied on, and what is shown of it leads along it.
GraphIsSound == AssuredGraphIsWhole /\ PathsFollowGraph

\* A feedback report is clean only if it has been earned: every alert has one trace, which
\* the window has or the evidence agrees on, every verdict is about what is there, with its
\* evidence, and no trace with a high-risk finding is dismissed, nor is anything decided by
\* an agent.
CleanFeedbackIsEarned ==
    study = "window" /\ FeedbackStatus(window, Findings(window), bundle) = "clean" =>
        /\ \A a \in bundle.alerts :
              \E t \in Traces(window) : /\ Reconcile(window, a).trace = t
                                        /\ a.trace_id \in {None, t}
                                        /\ \A i \in DOMAIN window : window[i].id \in a.evidence /\ window[i].trace_id # None
                                              => window[i].trace_id = t \/ i # EvidenceAt(window, window[i].id)
        /\ \A v \in bundle.annotations :
              /\ v.digest_match # FALSE /\ v.evidence \subseteq Ids(window)
              /\ v.author_type = "agent" => v.disposition = "needs_review"
              /\ v.disposition \in Negative =>
                    \A f \in Findings(window) : \A t \in {TargetTrace(window, bundle, v.target)} :
                        TraceOf(window[Last(f.nodes)]) # t
              /\ \A u \in bundle.annotations :
                    u.target = v.target => ~(u.disposition \in Positive /\ v.disposition \in Negative)

\* A window says the same of its agents after any conversions, whatever of it a standard has
\* no field for, but that the approval of a principal's transition, which no agent's event has
\* a field for, is gone, and what it approved is found.  An event that names its conversation,
\* at a whole millisecond, comes back with every field that conformance compares, and with an
\* outcome if it had none.  What the doctor says of a window's links may only get less, where
\* two times come to be the same.
ConversionKeepsFindings ==
    study = "window" /\ conversions # <<>> =>
        LET original == [n \in DOMAIN delivered |-> corpus.events[delivered[n]]]
            approved == \E n \in DOMAIN original : original[n].principal_transition_approved = TRUE
            links(w) == UNION {LinkCodes(w, i) : i \in DOMAIN w}
        IN  /\ Codes(Findings(original)) \subseteq Codes(Findings(window))
            /\ Codes(Findings(window)) \subseteq
                  Codes(Findings(original)) \union (IF approved THEN {"delegation_principal_drift"} ELSE {})
            /\ \A n \in DOMAIN window : \A f \in Compared :
                  /\ original[n].time % Millisecond = 0 /\ original[n].conversation_id # None
                  /\ f = "outcome" => original[n].outcome # None
                  => window[n][f] = original[n][f]
            /\ links(window) \subseteq links(original)
            /\ "ocsf" \notin ToSet(conversions) => links(window) = links(original)

-----------------------------------------------------------------------------
(* Properties of the other studies.                                            *)

\* Once a run's lifecycle is there, in whatever order it came, an action has all the
\* evidence that was emitted while it ran, from a source that it expects, by a clock within
\* the tolerance; and nothing of another run.
CorrelatedIsComplete ==
    study = "correlation" /\ ToSet(lifecycle) = recorded =>
        \A action \in Actions : \A i \in DOMAIN telemetry :
            LET t   == telemetry[i]
                ran == {e \in recorded : e.action = action}
            IN  /\ /\ \E e, f \in ran : e.time <= t.emitted /\ t.emitted <= f.time
                   /\ t.time - t.emitted \in -Tolerance .. Tolerance
                   /\ \E e \in ran : t.source \in e.expected /\ t.run \in {Anyone, e.run}
                   => i \in Correlated(action)
                /\ i \in Correlated(action) => \E e \in ran : t.run \in {Anyone, e.run}

\* The evidence of a run is its own: what a query brings is what its plan asks for, and what
\* is correlated with an action is all of that action's.
EvidenceIsCorrelated == CorrelatedIsComplete /\ QueryAnswersItsPlan

\* A candidate that was run on the baseline's corpora is regressed as soon as it misses
\* more malicious cases, or alerts on more benign ones, than the threshold allows, whatever
\* it gained by that; a stable one has lost no more in any respect.
GainHidesNoLoss ==
    study = "drift" =>
        \A rounded \in BOOLEAN :
            LET status    == DriftStatus(DriftFindings(baseline, candidate, rounded))
                malicious == baseline.true_positive + baseline.false_negative
                benign    == baseline.true_negative + baseline.false_positive
            IN  /\ \/ 100 * (baseline.true_positive - candidate.true_positive) > MaxDrop * malicious
                   \/ 100 * (candidate.false_positive - baseline.false_positive) > MaxDrop * benign
                   => status = "regressed"
                /\ status = "stable" =>
                      /\ 100 * (baseline.true_positive - candidate.true_positive) <= MaxDrop * malicious
                      /\ 100 * (baseline.reconciled - candidate.reconciled) <= MaxDrop * baseline.alerts
                      /\ baseline.latency # Untimed => candidate.latency - baseline.latency <= MaxLatency

=============================================================================
