---------------------------- MODULE ReferenceLab ----------------------------
(* The reference lab (lab/reference.py, lab/server.py): a threading server      *)
(* whose every request plays the twins of one fixture through the policy and a  *)
(* synthetic tool, and answers with the traces and the effects.                 *)
EXTENDS LabTraces, SequencesExt

CONSTANTS
    LabThreads,     \* request threads of the server, one request each
    FixtureIndexes  \* the fixtures asked for

ASSUME LabAssumption ==
    /\ FixtureIndexes \subseteq DOMAIN Fixtures
    /\ None # TRUE /\ None # "failed"

VARIABLE runs       \* what each thread is at

Idle ==
    [pc |-> "idle", fixture |-> None, tool |-> [operations |-> 0, effects |-> <<>>],
     events |-> <<>>, effects |-> <<>>, answer |-> None]

LabInit == runs = [t \in LabThreads |-> Idle]

\* do_POST: what is refused before a fixture runs.
Refusal(path, length, body) ==
    IF path # "/run" THEN 404
    ELSE IF length = "unreadable" THEN 400
    ELSE IF length = "empty_or_big" THEN 413
    ELSE IF body # "fixture_id" THEN 400
    ELSE None

Refuse(t, path, length, body) ==
    /\ runs[t].pc = "idle" /\ Refusal(path, length, body) # None
    /\ runs' = [runs EXCEPT ![t].pc = "answered", ![t].answer = Refusal(path, length, body)]

\* do_POST of a known fixture: run_reference_fixture with a runtime of its own.
StartFixture(t, i) ==
    /\ runs[t].pc = "idle"
    /\ runs' = [runs EXCEPT ![t] = [Idle EXCEPT !.pc = "malicious", !.fixture = i]]

\* Deviation: the trace is emitted before the tool is invoked.
PlayedBeforeTool(r, t) ==
    LET fixture == Fixtures[r.fixture]
        allowed == Allowed(Request(fixture, r.pc))
        effect  == IF allowed THEN <<r.pc>> ELSE <<>>
    IN  [r EXCEPT !.tool = [operations |-> @.operations + Len(effect), effects |-> @.effects \o effect],
                  !.effects = @ \o effect,
                  !.events = @ \o Trace(fixture, <<t, r.pc>>, allowed, FALSE)]

\* One baseline event: invoke, if the policy allows, then the trace.
Played(r, t) ==
    LET fixture == Fixtures[r.fixture]
        allowed == Allowed(Request(fixture, r.pc))
        effect  == IF allowed THEN <<r.pc>> ELSE <<>>
    IN  [r EXCEPT !.tool = [operations |-> @.operations + Len(effect), effects |-> @.effects \o effect],
                  !.effects = @ \o effect,
                  !.events = @ \o Trace(fixture, <<t, r.pc>>, allowed, allowed)]

Play(t) ==
    /\ runs[t].pc \in {"malicious", "benign"}
    /\ runs' = [runs EXCEPT ![t] =
                   [Played(runs[t], t) EXCEPT
                       !.pc = IF runs[t].pc = "malicious" THEN "benign" ELSE "reset"]]

Passed(fixture) == ~Allowed(fixture.malicious) /\ Allowed(fixture.benign)

\* reset, then the answer.
ResetAndAnswer(t) ==
    /\ runs[t].pc = "reset"
    /\ runs' = [runs EXCEPT ![t].pc = "answered", ![t].tool = Idle.tool,
                            ![t].answer = IF Passed(Fixtures[runs[t].fixture]) THEN "passed" ELSE "failed"]

LabNext ==
    \E t \in LabThreads :
        \/ \E path \in {"/run", "/other"}, length \in {"unreadable", "empty_or_big", "read"},
              body \in {"fixture_id", "other_fields", "unknown_fixture"} : Refuse(t, path, length, body)
        \/ \E i \in FixtureIndexes : StartFixture(t, i)
        \/ Play(t)
        \/ ResetAndAnswer(t)

-----------------------------------------------------------------------------
(* Properties.                                                                 *)

\* The value of a request with one field taken from the other twin.
Crossed(fixture, f) ==
    [g \in {f} \union DOMAIN fixture.benign |-> IF g = f THEN fixture.malicious[f] ELSE fixture.benign[g]]

\* The lab's twins are a test of the policy: every difference between them is one that the
\* policy decides on by itself, so that a check which a fixture asserts together with
\* others is exercised too (two risks rated by the same field stand for one).
EveryDifferenceDenied ==
    \A t \in LabThreads :
        runs[t].fixture # None =>
            LET fixture == Fixtures[runs[t].fixture]
            IN  /\ runs[t].answer # "failed"
                /\ \A f \in DOMAIN fixture.malicious :
                      fixture.malicious[f] # Given(fixture.benign, f, None) => ~Allowed(Crossed(fixture, f))

\* An answered run's traces are a whole account: ids are unique, causes come earlier in
\* the same trace, and the event that reports the decision's effect agrees with the effects
\* of this run, and of no other, that the answer lists.  (The trace of the feedback fixture
\* always says that nothing was applied.)
TracesTellEffects ==
    \A t \in LabThreads :
        LET r == runs[t] IN
        r.pc = "answered" /\ r.fixture # None =>
            /\ IsInjective([i \in DOMAIN r.events |-> r.events[i].id])
            /\ \A i \in DOMAIN r.events : \A c \in ToSet(r.events[i].caused_by_event_ids) :
                  \E j \in 1 .. i - 1 : /\ r.events[j].id = c
                                        /\ r.events[j].trace_id = r.events[i].trace_id
            /\ Fixtures[r.fixture].fixture_id # "detection-feedback-integrity" =>
                  \A v \in {"malicious", "benign"} :
                      (v \in ToSet(r.effects))
                          <=> \E e \in ToSet(r.events) : e.trace_id = <<t, v>> /\ e.tool_effect_applied = TRUE
            /\ r.tool = Idle.tool
=============================================================================
