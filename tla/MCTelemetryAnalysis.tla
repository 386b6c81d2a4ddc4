------------------------ MODULE MCTelemetryAnalysis ------------------------
(* The lab's traces, whole in order or shuffled in parts, and traces that no    *)
(* lab emits: a causal cycle, links across traces, ids that collide or are      *)
(* missing, goals that change with approval; queries of four vendors.  Ten      *)
(* units are a millisecond.                                                     *)
EXTENDS TelemetryAnalysis, LabTraces

Emitted(fixture, variant) ==
    LET allowed == Allowed(Request(fixture, variant))
    IN  Trace(fixture, <<"r1", variant>>, allowed, allowed)

Lab(id, variant) ==
    LET fixture == CHOOSE f \in ToSet(Fixtures) : f.fixture_id = id
    IN  [i \in DOMAIN Emitted(fixture, variant) |-> Normalized(Emitted(fixture, variant)[i], 10 * i)]

Cascade(variant)  == Lab("multi-agent-delegation-cascade", variant)
FeedbackOf(variant) == Lab("detection-feedback-integrity", variant)

\* An event of a trace w<n> with the id <<trace, name>>.
Trace_(n) == <<"w", n>>

Wild(n, name, parent, causes, agent, time) ==
    Normalized([[f \in EventFields |-> None] EXCEPT
                   !.id = <<Trace_(n), name>>, !.type = "agent.observation", !.trace_id = Trace_(n),
                   !.session_id = "s", !.agent_id = agent, !.principal_id = "operator",
                   !.parent_event_id = parent, !.caused_by_event_ids = causes],
               time)

Id(n, name) == <<Trace_(n), name>>

\* r -> a -> b -> c -> a, and d below the cycle.
Cycle ==
    <<Wild("1", "r", None, <<>>, "x", 1), Wild("1", "a", Id("1", "c"), <<Id("1", "r")>>, "y", 2),
      Wild("1", "b", Id("1", "a"), <<Id("1", "a")>>, "x", 3), Wild("1", "c", Id("1", "b"), <<>>, "x", 4)>>

\* A link to another trace, one to itself, one that dangles, an inversion within a millisecond.
Links ==
    <<Wild("2", "a", None, <<>>, "x", 13),
      Wild("3", "a", Id("2", "a"), <<Id("3", "a")>>, "y", 14),
      Wild("2", "b", Id("2", "a"), <<Id("2", "gone"), Id("2", "a")>>, "y", 12),
      Wild("2", "c", Id("2", "b"), <<Id("2", "a")>>, "y", 25)>>

\* A host's event without a trace or an id, and records whose runtime left identities out.
Raw(name, field) ==
    AgentRecord([name |-> name, stamp |-> "missing",
                 event |-> [Wild("4", name, IF name = "b" THEN Id("4", "a") ELSE None, <<>>, "x", 7)
                               EXCEPT ![field] = None]])

Unnamed ==
    <<Raw("a", "trace_id"), Raw("b", "agent_id"), Raw("c", "id"),
      [Wild("4", "host", Id("4", "b"), <<>>, None, 8) EXCEPT !.trace_id = None, !.id = None, !.agent = FALSE,
                                                              !.redacted = FALSE, !.stamp = "unknown"]>>

Goal(name, fingerprint, approved, time) ==
    [Wild("5", name, None, <<>>, "x", 10 * time) EXCEPT
        !.conversation_id = "c", !.goal_id = "g", !.goal_fingerprint = fingerprint, !.goal_change_approved = approved]

ApprovedGoals ==
    <<Goal("a", "f1", None, 1), Goal("b", "f2", TRUE, 2), Goal("c", "f2", None, 3)>>

Goals == <<Goal("a", "f1", None, 1), [Goal("o", "h", None, 2) EXCEPT !.goal_id = "other"],
           Goal("b", "f2", None, 3), Goal("c", "f2", FALSE, 4)>>

\* A delegation that changes hands: the principal with approval, the receiver without.
Delegated(name, principal, to, time) ==
    [Wild("6", name, IF name = "a" THEN None ELSE Id("6", "a"), <<>>, "x", time) EXCEPT
        !.delegation_id = "d", !.principal_id = principal, !.delegated_to_agent_id = to,
        !.principal_transition_approved = TRUE]

Delegations ==
    <<Delegated("a", "p1", "y", 1), Delegated("b", "p2", "y", 2),
      [Delegated("c", "p2", "z", 3) EXCEPT !.principal_transition_approved = None]>>

\* Two traces that use one id.
Collision ==
    <<Wild("7", "a", None, <<>>, "x", 1), [Wild("7", "b", Id("7", "a"), <<>>, "y", 2) EXCEPT !.trace_id = Trace_("8")],
      [Wild("8", "a", None, <<>>, "x", 3) EXCEPT !.id = Id("7", "a")]>>

Alert(id, trace, evidence) == [id |-> id, formed |-> TRUE, trace_id |-> trace, evidence |-> evidence]

Annotation(id, target, disposition, author, evidence, match) ==
    [id |-> id, target |-> target, disposition |-> disposition, author_type |-> author,
     evidence |-> evidence, digest_match |-> match]

Bundle(alerts, annotations) == [alerts |-> alerts, annotations |-> annotations]

Nothing == {Bundle({}, {})}

\* Verdicts on the last event of a trace: earned, dismissive, of an agent, contradictory.
Verdicts(events) ==
    LET e == Last(events)
        named == Alert("named", e.trace_id, {e.id})
        found == Alert("found", None, {events[1].id, e.id})
        other == Alert("other", <<"r1", "elsewhere">>, {e.id})
        on(id, target, disposition) == Annotation(id, target, disposition, "human", {e.id}, TRUE)
    IN  {Bundle({named, found}, {on("n1", <<"alert", "named">>, "confirmed_true_positive")}),
         Bundle({found}, {on("n1", <<"alert", "found">>, "false_positive")}),
         Bundle({other}, {on("n1", <<"trace", e.trace_id>>, "benign_expected")}),
         Bundle({named}, {[on("n1", <<"alert", "named">>, "false_positive") EXCEPT !.author_type = "agent"]}),
         Bundle({named}, {[on("n1", <<"alert", "gone">>, "needs_review") EXCEPT !.digest_match = FALSE]}),
         Bundle({named}, {on("n1", <<"alert", "named">>, "false_positive"),
                          on("n2", <<"alert", "named">>, "confirmed_true_positive")})}

Corpus(events, shuffled, bundles) == [events |-> events, shuffled |-> shuffled, bundles |-> bundles]

MCCorpora ==
    {Corpus(Cascade("malicious"), FALSE, Verdicts(Cascade("malicious"))), Corpus(Cascade("benign"), FALSE, Nothing)}
    \union {Corpus(SubSeq(Cascade("malicious"), 1, 4), TRUE, Verdicts(SubSeq(Cascade("malicious"), 1, 4)))}
    \union {Corpus(SubSeq(Cascade(v), 4, 8), TRUE, Nothing) : v \in {"malicious", "benign"}}
    \union {Corpus(SubSeq(FeedbackOf("malicious"), 1, 4), TRUE, Verdicts(FeedbackOf("malicious")))}
    \union {Corpus(Lab("mcp-identity-audience", "malicious"), TRUE, Nothing)}
    \union {Corpus(w, TRUE, Nothing) : w \in {Cycle, ApprovedGoals, Goals, Delegations, SubSeq(Delegations, 1, 2), Unnamed}}
    \union {Corpus(w, TRUE, Verdicts(w)) : w \in {Links, Collision}}

Step(action, sequence, time, expected) ==
    [action |-> action, sequence |-> sequence, time |-> time, expected |-> expected,
     ability |-> action, run |-> "r1"]

MCLifecycles ==
    {{Step("a1", 1, 10, {}), Step("a1", 2, 12, {"edr"}), Step("a1", 3, 16, {}),
      Step("a2", 4, 17, {"dns"}), Step("a2", 5, 19, {})}}

Item(emitted, skew, source, run) ==
    [emitted |-> emitted, time |-> emitted + skew, source |-> source, type |-> "t", ability |-> "none", run |-> run]

MCEvidence ==
    {<<Item(10, s, "edr", Anyone), Item(16, -s, "edr", "r1"), Item(18, s, "dns", "r1"), Item(12, s, "edr", "r2")>> :
        s \in -3 .. 3}

Snapshot(tp, fn, tn, fp) ==
    [true_positive |-> tp, false_negative |-> fn, true_negative |-> tn, false_positive |-> fp,
     reconciled |-> 2, alerts |-> 2, latency |-> 3]

MCBaselines == {Snapshot(20, 0, 10, 0), Snapshot(9, 3, 8, 2), [Snapshot(5, 0, 0, 0) EXCEPT !.latency = Untimed]}

\* One acceptable origin, and one that a plan may not have; windows and limits at their edges.
Origin(scheme, plain) == [scheme |-> scheme, loopback |-> FALSE, plain |-> plain]

Specification(connector, since, until, limit, field) ==
    [connector |-> connector, origin |-> Origin("https", TRUE),
     dataset |-> [workspace |-> "w", table |-> "t", exact |-> TRUE],
     target |-> [name |-> "host", exact |-> TRUE], since |-> since, until |-> until,
     limit |-> limit, field |-> field, credential |-> connector]

MCSpecifications ==
    {Specification(c, 1, 6, 2, "") : c \in {"elastic", "sentinel", "panther", "graylog"}}
    \union {[Specification("panther", 2, 10, 1, "f") EXCEPT !.dataset.table = "u", !.credential = "mine"],
            [Specification("sentinel", 0, 9, 2, "") EXCEPT !.dataset.table = ""],
            [Specification("elastic", 0, 4, 3, "") EXCEPT !.target.name = "other"],
            [Specification("elastic", 0, 4, 2, "") EXCEPT !.origin = Origin("http", TRUE)]}

Answered(status, items) == [transport |-> "ok", listed |-> FALSE, id |-> status = "none", status |-> status, items |-> items]

MCAnswers ==
    {Answered(status, <<"wrapped", "junk", "bare", "wrapped", "wrapped">>) : status \in {"none", "succeeded", "failed"}}
    \union {Answered("running", <<>>), [Answered("none", <<>>) EXCEPT !.id = FALSE],
            [Answered("none", <<"bare">>) EXCEPT !.listed = TRUE, !.id = FALSE],
            [Answered("none", <<>>) EXCEPT !.transport = "error"]}
=============================================================================
