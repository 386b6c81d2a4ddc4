----------------------------- MODULE CoreProgram -----------------------------
(* The program of core.py: main, or the dashboard's worker in its place, runs   *)
(* scenario suites or simulations, one after another.                           *)
EXTENDS ScenarioSuite, Simulation

VARIABLE mode       \* "scenario" or "behavior"

vars == <<mode, suiteVars, simulationVars>>

Init == mode \in {"scenario", "behavior"} /\ SuiteInit /\ SimulationInit

Next ==
    \/ mode = "scenario" /\ SuiteNext /\ UNCHANGED <<mode, simulationVars>>
    \/ mode = "behavior" /\ SimulationNext /\ UNCHANGED <<mode, suiteVars>>

Spec == Init /\ [][Next]_vars

-----------------------------------------------------------------------------
\* The conditions are met in their order by events of the trace, in whatever way they can.
Embeds(trace, conditions) ==
    \E at \in [DOMAIN conditions -> DOMAIN trace] :
        /\ \A k \in DOMAIN conditions : ConditionMatches(trace[at[k]], conditions[k])
        /\ \A j, k \in DOMAIN conditions : j < k => at[j] < at[k]

\* The trace of a control is complete: as many events as the control has steps, and one
\* more if it is a mutation.
Complete(t) ==
    Len(TraceOf(events, t)) = Len(Steps(t)) + (IF t.mutation = 0 THEN 0 ELSE 1)

Ended == suite.pc = "idle" /\ suite.result \notin {"none", "usage"}

\* What the exit status says of a suite: at 0 every control that was selected was run to
\* its end and judged as it should be, and the number of events is the estimate; at 1, if
\* nothing was raised, a control that was run to its end was misjudged; anything that cut
\* the suite short shows as 130.
ExitTells ==
    Ended =>
        LET misjudged(t) == Embeds(TraceOf(events, t), Definition(t).conditions)
                                # (t.variant = "malicious")
            all      == Range(Controls)
            complete == \A t \in all : Complete(t)
        IN  CASE ExitCode(suite.result) = 0 ->
                     /\ complete /\ \A t \in all : ~misjudged(t)
                     /\ Len(events) = EstimateEventCount(selection.definitions,
                                          selection.variants, selection.mutation_count)
              [] ExitCode(suite.result) = 1 ->
                     suite.result = "failed" => complete /\ \E t \in all : misjudged(t)
              [] ExitCode(suite.result) = 130 -> suite.stopped \/ suite.result = "interrupted"

\* A stop request is met before another checkpoint but the one in progress, and before
\* a third command: the one in progress, and a retry, may still be started.
StopIsPrompt == late <= 1 /\ started.late <= 2

\* Whatever failed or was interrupted before, an evidence bundle is never made of the
\* artifacts of two suites.
BundleOfOneSuite == Cardinality(artifact["bundle"]) <= 1

\* The layer of a simulation that ended, interrupted or not, has the technique of every
\* command that was started, of none that was hallucinated or skipped, and of none that
\* was not started, but for one that an interrupt kept from it.
LayerTellsExecuted ==
    SimulationAt("idle") /\ simulation.result \in {"done", "interrupted"} =>
        /\ layer.number = simulation.number
        /\ started.tactics \subseteq layer.techniques
        /\ Cardinality(layer.techniques \ started.tactics)
               <= IF simulation.result = "interrupted" THEN 1 ELSE 0
        /\ \A technique \in layer.techniques :
               \E a \in Actions \union {NoAction} : a.tactic = technique /\ ~Skipped(a)

\* What is left behind tells what was run: a bundle of one suite, a layer of one simulation.
OutputsTellRuns == BundleOfOneSuite /\ LayerTellsExecuted
=============================================================================
