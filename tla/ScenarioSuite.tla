---------------------------- MODULE ScenarioSuite ----------------------------
(* run_scenario_suite (scenarios.py), called by the command line or by a worker *)
(* of the dashboard: the loop over controls, stop requests and interrupts, and  *)
(* the artifacts, which have fixed paths and outlive a run.                     *)
EXTENDS ScenarioTraces

CONSTANTS
    Selections,         \* sequences of definitions that a pack may hold, in order of id
    MutationCounts,     \* values of mutation_count
    Requests,           \* sets of optional artifacts that a path may be given for
    MaxSuites,          \* bound: suites run one after another
    MaxWriteFailures    \* bound: writes that fail

\* A pack has definitions, and a definition has conditions, and steps for both variants.
ASSUME SuiteAssumption ==
    /\ \A ds \in Selections :
          /\ ds \in Seq(Range(ds)) \ {<<>>}
          /\ \A d \in Range(ds) : \A s \in {d.conditions, d.malicious, d.benign} : s \in Seq(Range(s)) \ {<<>>}
    /\ MutationCounts \subseteq 0..100
    /\ Requests \subseteq SUBSET {"junit", "sarif", "otel", "coverage", "bundle"}
    /\ MaxSuites \in Nat \ {0} /\ MaxWriteFailures \in Nat

VARIABLES
    caller,             \* "cli" or "worker"
    selection,          \* the definitions, the variants and mutation_count
    control,            \* the trace in progress: number, steps, next step
    events,
    suite,              \* number of the suite, where it is, and its result
    stop_requested,     \* stop_callback, which the worker passes
    artifact,           \* artifact[k]: the suites its content is from, {} for none
    write_failures,
    late                \* for the properties: events since the stop request

suiteVars == <<caller, selection, control, events, suite, stop_requested, artifact,
               write_failures, late>>

-----------------------------------------------------------------------------
(* The controls: for each definition and variant a baseline and its mutations. *)

\* _variants.
Variants == {<<"malicious", "benign">>, <<"malicious">>, <<"benign">>}

Definition(c) == selection.definitions[c.definition]

Steps(c) == StepsFor(Definition(c), c.variant)

Controls ==
    LET pairs == Pairs(selection.definitions, selection.variants)
        each  == selection.mutation_count + 1
    IN  [i \in 1..(Len(pairs) * each) |->
            LET pair == pairs[((i - 1) \div each) + 1]
            IN  [definition |-> pair.definition, variant |-> pair.variant, mutation |-> (i - 1) % each]]

Artifacts == <<"ground_truth", "validation", "junit", "sarif", "otel", "coverage", "bundle">>

Optional(k) == IF k \in selection.optional THEN <<k>> ELSE <<>>

\* The artifacts of the suite, in the order they are written: two that are not optional, and
\* at the end the bundle.
Reports ==
    <<"ground_truth", "validation">>
        \o Optional("junit") \o Optional("sarif") \o Optional("otel") \o Optional("coverage")

Exports == Reports \o Optional("bundle")

\* Deviation: the bundle takes every artifact that exists.
BundleAll == Range(Artifacts) \ {"bundle"}

BundleMembers == Range(Exports) \ {"bundle"}

NoSelection == [definitions |-> <<>>, variants |-> <<>>, mutation_count |-> 0, optional |-> {}]
NoControl   == [number |-> 0, steps |-> <<>>, next |-> 1]
NoSuite     == [number |-> 0, pc |-> "idle", stopped |-> FALSE, written |-> 0, result |-> "none"]

SuiteInit ==
    /\ caller = "cli" /\ selection = NoSelection /\ control = NoControl
    /\ events = <<>> /\ suite = NoSuite
    /\ stop_requested = FALSE /\ late = 0 /\ write_failures = 0
    /\ artifact = [k \in Range(Artifacts) |-> {}]

SuiteGoes(pc) == suite' = [suite EXCEPT !.pc = pc]

SuiteAt(pc) == suite.pc = pc

-----------------------------------------------------------------------------
(* Loading and starting.  A worker runs the packs the server has loaded; main   *)
(* loads them at each start, and a pack that is refused ends it.                *)

RefusePack ==
    /\ SuiteAt("idle") /\ suite.number < MaxSuites
    /\ \E ds \in Selections : \E d \in Range(ds) : ~Accepted(d)
    /\ caller' = "cli"
    /\ suite' = [NoSuite EXCEPT !.number = suite.number + 1, !.result = "usage"]
    /\ UNCHANGED <<selection, control, events, stop_requested, artifact, write_failures, late>>

StartSuite ==
    /\ SuiteAt("idle") /\ suite.number < MaxSuites
    /\ caller' \in {"cli", "worker"}
    /\ \E ds \in Selections, vs \in Variants, m \in MutationCounts,
          optional \in Requests :
          /\ \A d \in Range(ds) : Accepted(d)
          /\ selection' = [definitions |-> ds, variants |-> vs, mutation_count |-> m,
                            optional |-> optional]
    /\ suite' = [NoSuite EXCEPT !.number = suite.number + 1, !.pc = "control"]
    /\ control' = NoControl /\ events' = <<>> /\ stop_requested' = FALSE /\ late' = 0
    /\ UNCHANGED <<artifact, write_failures>>

-----------------------------------------------------------------------------
(* The loop.                                                                    *)

RequestStop ==
    /\ caller = "worker" /\ suite.pc # "idle" /\ ~stop_requested
    /\ stop_requested' = TRUE
    /\ UNCHANGED <<caller, selection, control, events, suite, artifact, write_failures, late>>

\* Where the loop is left; what a KeyboardInterrupt in it does too.
Leave(stopped) == suite' = [suite EXCEPT !.pc = "export", !.stopped = stopped]

\* The next control: stop_callback is asked, then the steps are made.
NextControl ==
    /\ SuiteAt("control")
    /\ LET n == control.number + 1
       IN  IF n > Len(Controls) THEN Leave(FALSE) /\ UNCHANGED control
           ELSE IF stop_requested THEN Leave(TRUE) /\ UNCHANGED control
           ELSE /\ LET steps == Steps(Controls[n])
                   IN  \E insertion_index \in 0..Len(steps) :
                          /\ Controls[n].mutation = 0 => insertion_index = 0
                          /\ control' = [number |-> n, next |-> 1,
                                 steps |-> IF Controls[n].mutation = 0 THEN steps
                                           ELSE MutateSteps(steps, insertion_index)]
                /\ SuiteGoes("step")
    /\ UNCHANGED <<caller, selection, events, stop_requested, artifact, write_failures, late>>

\* Deviation: stop_callback is asked for each control only.
NextStepUnasked ==
    /\ SuiteAt("step")
    /\ SuiteGoes(IF control.next > Len(control.steps) THEN "control" ELSE "emit")
    /\ UNCHANGED <<caller, selection, control, events, stop_requested, artifact, write_failures, late>>

NextStep ==
    /\ SuiteAt("step")
    /\ IF control.next > Len(control.steps) THEN SuiteGoes("control")
       ELSE IF stop_requested THEN Leave(TRUE) ELSE SuiteGoes("emit")
    /\ UNCHANGED <<caller, selection, control, events, stop_requested, artifact, write_failures, late>>

\* An event, and the pause after it, which a stop request cuts short.
Emit ==
    /\ SuiteAt("emit")
    /\ events' = Append(events,
                        BuildEvent(control.steps[control.next], Controls[control.number], control.next))
    /\ late' = IF stop_requested THEN late + 1 ELSE late
    /\ control' = [control EXCEPT !.next = @ + 1]
    /\ SuiteGoes("step")
    /\ UNCHANGED <<caller, selection, stop_requested, artifact, write_failures>>

Interrupt ==
    /\ caller = "cli" /\ suite.pc \in {"control", "step", "emit"}
    /\ Leave(TRUE)
    /\ UNCHANGED <<caller, selection, control, events, stop_requested, artifact, write_failures, late>>

-----------------------------------------------------------------------------
(* The artifacts and the result.                                                *)

PassedTraces == {t \in Traces(events) : Passed(events, t, Definition(t).conditions)}

AllPassed == events # <<>> /\ PassedTraces = Traces(events)

ExportNext ==
    /\ SuiteAt("export") /\ suite.written < Len(Exports)
    /\ LET k == Exports[suite.written + 1]
       IN  artifact' = [artifact EXCEPT ![k] =
               IF k = "bundle" THEN UNION {artifact[j] : j \in BundleMembers} ELSE {suite.number}]
    /\ suite' = [suite EXCEPT !.written = @ + 1]
    /\ UNCHANGED <<caller, selection, control, events, stop_requested, write_failures, late>>

\* A write raises, or is interrupted: the file stays as it was or is cut short, and so do the
\* ones after it.  main catches a directory that is gone, and nothing else is caught.
ExportRaises ==
    /\ SuiteAt("export") /\ suite.written < Len(Exports)
    /\ write_failures < MaxWriteFailures
    /\ write_failures' = write_failures + 1
    /\ artifact' \in {artifact, [artifact EXCEPT ![Exports[suite.written + 1]] = {}]}
    /\ \E result \in {"raised"} \union (IF caller = "cli" THEN {"interrupted", "usage"} ELSE {}) :
          suite' = [suite EXCEPT !.pc = "idle", !.result = result]
    /\ UNCHANGED <<caller, selection, control, events, stop_requested, late>>

Return ==
    /\ SuiteAt("export") /\ suite.written = Len(Exports)
    /\ suite' = [suite EXCEPT !.pc = "idle",
                     !.result = IF suite.stopped THEN "stopped"
                                ELSE IF AllPassed THEN "passed" ELSE "failed"]
    /\ UNCHANGED <<caller, selection, control, events, stop_requested, artifact, write_failures, late>>

\* What main returns, an uncaught exception included.
ExitCode(result) ==
    CASE result = "passed" -> 0 [] result \in {"failed", "raised"} -> 1
      [] result = "usage" -> 2 [] result \in {"stopped", "interrupted"} -> 130

SuiteNext ==
    \/ RefusePack \/ StartSuite \/ RequestStop \/ NextControl \/ NextStep \/ Emit
    \/ Interrupt \/ ExportNext \/ ExportRaises \/ Return

SuiteSpec == SuiteInit /\ [][SuiteNext]_suiteVars
=============================================================================
