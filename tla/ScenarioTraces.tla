--------------------------- MODULE ScenarioTraces ---------------------------
(* What scenario packs hold and how a trace is judged (scenarios.py): steps,    *)
(* ordered detectors, mutations, the events a step becomes, and the verdict.    *)
EXTENDS Integers, Sequences, FiniteSets, Functions

CONSTANT None       \* None: a field that is absent

-----------------------------------------------------------------------------
(* Detectors.  A condition is a type of event, or None for any, and a sequence  *)
(* of tests [op, path, value]; the operator limits what the value can be.       *)

\* A field of an event; the ones a pack cannot name (FORBIDDEN_DETECTOR_FIELDS) are left out.
GetPath(event, path) == IF path \in DOMAIN event THEN event[path] ELSE None

TestHolds(event, test) ==
    LET observed == GetPath(event, test.path)
    IN  CASE test.op = "equals"     -> observed = test.value
          [] test.op = "not_equals" -> observed # test.value
          [] test.op = "contains"   -> observed # None /\ test.value \in observed
          [] test.op = "gte"        -> observed # None /\ observed >= test.value
          [] test.op = "exists"     -> (observed # None) = test.value

ConditionMatches(event, condition) ==
    /\ condition.event_type \in {None, event.event_type}
    /\ \A k \in DOMAIN condition.tests : TestHolds(event, condition.tests[k])

\* Deviation: each condition is looked for from the start of the trace.
SignalsInAnyOrder(events, conditions) ==
    {CHOOSE i \in DOMAIN events : ConditionMatches(events[i], conditions[k]) :
        k \in {j \in DOMAIN conditions : \E i \in DOMAIN events : ConditionMatches(events[i], conditions[j])}}

\* Positions of the signals: each event meets the next condition, or is passed over.
Signals(events, conditions) ==
    LET met[n \in 0..Len(events)] ==
            IF n = 0 THEN 0
            ELSE IF met[n - 1] < Len(conditions)
                    /\ ConditionMatches(events[n], conditions[met[n - 1] + 1])
                 THEN met[n - 1] + 1 ELSE met[n - 1]
    IN  {n \in DOMAIN events : met[n] > met[n - 1]}

\* detect_ordered_sequence.
Detects(events, conditions) ==
    conditions # <<>> /\ Cardinality(Signals(events, conditions)) = Len(conditions)

\* _parse_pack accepts a definition if its detector tells its own controls apart; a step
\* has the fields of an event, save the ones that only a run gives.
Accepted(definition) ==
    /\ Detects(definition.malicious, definition.conditions)
    /\ ~Detects(definition.benign, definition.conditions)

-----------------------------------------------------------------------------
(* Traces.                                                                      *)

\* _mutate_steps: tools get an alias; the noise is inserted at a place that rng chooses.
Aliased(step) == IF step.tool_name = None THEN step ELSE [step EXCEPT !.tool_name = "alias"]

Noise == [event_type |-> "noise", input_trust |-> "trusted", tool_name |-> None,
          taint_labels |-> {}, caused_by_sequences |-> {}]

MutateSteps(steps, insertion_index) ==
    [i \in 1..(Len(steps) + 1) |->
        IF i <= insertion_index THEN Aliased(steps[i])
        ELSE IF i = insertion_index + 1 THEN Noise ELSE Aliased(steps[i - 1])]

\* _build_event: what a step names as its causes counts if it came before it, or else the
\* event before it does.
Causes(step, sequence) ==
    LET explicit == step.caused_by_sequences \intersect 1..(sequence - 1)
    IN  IF explicit # {} \/ sequence = 1 THEN explicit ELSE {sequence - 1}

BuildEvent(step, trace, sequence) ==
    [event_type |-> step.event_type, input_trust |-> step.input_trust,
     tool_name |-> step.tool_name, taint_labels |-> step.taint_labels,
     trace |-> trace, sequence |-> sequence, causes |-> Causes(step, sequence)]

\* _events_by_trace, sorted by sequence.
TraceOf(events, trace) ==
    LET kept[n \in 0..Len(events)] ==
            IF n = 0 THEN <<>>
            ELSE IF events[n].trace = trace THEN Append(kept[n - 1], events[n]) ELSE kept[n - 1]
    IN  kept[Len(events)]

Traces(events) == {e.trace : e \in Range(events)}

-----------------------------------------------------------------------------
(* Verdicts.                                                                    *)

\* The answer key is in the event; the detector does not see it.
ExpectedDetection(trace) == trace.variant = "malicious"

Passed(events, trace, conditions) ==
    Detects(TraceOf(events, trace), conditions) = ExpectedDetection(trace)

-----------------------------------------------------------------------------
(* What a suite is to run.                                                      *)

\* steps_for.
StepsFor(definition, variant) == IF variant = "malicious" THEN definition.malicious ELSE definition.benign

\* For each definition each variant, in the order of the loops.
Pairs(definitions, variants) ==
    [p \in 1..(Len(definitions) * Len(variants)) |->
        [definition |-> ((p - 1) \div Len(variants)) + 1, variant |-> variants[((p - 1) % Len(variants)) + 1]]]

\* estimate_event_count: of each pair a baseline, and mutations of one step more.
EstimateEventCount(definitions, variants, mutation_count) ==
    LET pairs == Pairs(definitions, variants)
        base[n \in 0..Len(pairs)] ==
            IF n = 0 THEN 0
            ELSE base[n - 1] + Len(StepsFor(definitions[pairs[n].definition], pairs[n].variant))
    IN  base[Len(pairs)] * (mutation_count + 1) + Len(pairs) * mutation_count
=============================================================================
