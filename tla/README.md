# A TLA+ verification of AgentSim

AgentSim runs authorized attack campaigns and safe synthetic scenarios, records what
happened in several logs, and judges whether detections saw it. Most of its code is
sequential Python; what is hard is around it: failed writes in the middle of a lifecycle,
a kill switch set from another thread, processes that share one SQLite row, request
threads that share a log and files, telemetry that arrives late, twice or not at all. This
project models those parts in TLA+, checks them with TLC on small instances, and proves the
results that matter most with TLAPS. `PROJECT.json` is its index: components, runs, mutants,
the map from definitions to source lines, findings, hazards, theorems.

Run, in this directory, `tlc -workers 2 -config X.cfg M` for a run of `PROJECT.json` and
`tlapm M.tla` for a module of proofs.

## 1. The system

| Part (source) | State | Operations | Talks to |
| --- | --- | --- | --- |
| Campaign runner (`agentsim/orchestration/runner.py`) | locals of `run()`, two event logs, action rows, run row, report files | one campaign: plan, authorize, prepare, execute, observe, clean, verify, for each step | providers, `RunLimits`, policy, `RunStore` |
| Execution providers (`agentsim/execution`) | none between calls | `prepare`, `execute`, `cleanup`, each a sequence of commands | operating system, `RunLimits` |
| Run limits, kill switch (`agentsim/safety/resource_limits.py`) | three counters, an event, a start time | `before_action`, `before_process`, `cancel` from any thread | runner, providers |
| Policy, authorization, planning (`agentsim/safety`, `planner.py`) | none | decide each step, before and during the run | runner, CLI |
| Attack Flow exchange (`reporting/attack_flow.py`) | none | export a campaign, import a flow | CLI |
| Run store (`agentsim/storage.py`) | SQLite tables | one commit per method | runner, `telemetry query` processes, readers |
| Dashboard (`web_ui.py`) | globals under `state_lock`, worker thread, event log, fixed artifact files | `/start`, `/stop`, `/clear`, `/stream`, reads | scenario suite or simulation in a worker thread |
| Scenario suite (`scenarios.py`, packs) | events of the run, artifact files | `run_scenario_suite`, pack loading | CLI, dashboard |
| Simulation (`core.py`, `tactics.py`) | recent and executed tactics, layer file | `run_simulation` | shell commands if asked to, CLI, dashboard |
| Detection engine (`agentsim/detection`, `defense/gaps.py`) | none | evaluate rules by group, sweep a pack, live outcomes, gaps | recordings, Detection CI, run store |
| Detection CI (`defense/detection_ci.py`) | none | compare a recording with a baseline, exit code | detection engine, assurance, investigation |
| Flight recorder (`telemetry/flight_recorder.py`, `flight_server.py`) | recording under a lock, output file | receive spans, snapshot, write, close | agent SDKs, exporters |
| Telemetry analysis (`telemetry/assurance.py`, `investigation.py`, `correlation.py`, `normalization.py`, `mappings.py`, `conformance.py`) | none | reports over a recording | CLI, Detection CI |
| Feedback, drift, scorecard (`agentsim/defense`) | none | reconcile alerts and annotations, compare snapshots | CLI |
| Content trust (`agentsim/content`, `scripts/sign_content.py`) | packs on disk | load packs, check digest, signature, provenance; review | every loader |
| Reference lab (`agentsim/lab`) | a synthetic runtime's effects, one for each request; artifacts on disk | run a fixture as twins, emit traces, reset; review an artifact | lab server, CLI |
| MCP lab (`mcp_lab.py`) | session bindings | authorize a message, bind its session, dispatch it; the report | CLI |
| Connectors, collectors (`telemetry/connectors`, `telemetry/collectors`) | none between calls | plan a read-only query, check the plan, one request or a request and polls | vendors, run store |
| API, CLI, plugins, reports, detection content, pages | none | dispatch, format | all |

What is hard, and which properties are about it, is the list of hazards in `PROJECT.json`.
In short: **interleaving** in the kill switch, the dashboard, the store and the recorder;
**partial failure** in every write of the runner, of the query command, of the artifacts;
**ordering and duplication** in telemetry; **stop requests and interrupts** in the two
loops of the legacy program; **one-sided evidence** (absence that passes for a result) in
verdicts and in the gate.

## 2. Modules

    ActionLifecycle <--refined by-- CampaignRunner <- CampaignProperties <- MCCampaignRunner
                                                            ^-- CampaignProofs
    RunStore <- MCRunStore,    RunStore <- RunStoreProofs
    Dashboard <- MCDashboard,  Dashboard <- DashboardProofs
    ScenarioTraces <- ScenarioSuite -+
                          Simulation -+- CoreProgram <- MCCoreProgram
                                             ^-- CoreProgramProofs
    DetectionNodes <- DetectionEngine -+
                        DetectionGate -+- DetectionPipeline <- MCDetectionPipeline
    FlightRecorder <- MCFlightRecorder,   FlightRecorder, DetectionPipeline <- RecordingProofs

    ContentPacks -+
    SafetyPolicy -+- CampaignAdmission <- MCCampaignAdmission
    AttackFlow   -+          ^-- CampaignAdmissionProofs
    AgentEvents <- LabTraces <- ReferenceLab -+
                                      McpLab -+- AgentLabs (checked as it is)
                                LabArtifacts -+      ^-- AgentLabsProofs
    AgentEvents <- Investigation <- Feedback -+
         ^-- Assurance, PortableTelemetry ----+- TelemetryAnalysis <- MCTelemetryAnalysis
                                 LiveQuery ---+      ^-- TelemetryAnalysisProofs  (with LabTraces)

A definition headed *Deviation* is a variant of the one after it with a plausible mistake.
It is used by no specification: the mutants of `PROJECT.json` put it in place of the
original, and the run must then fail, which shows that the property can tell the two apart.

### CampaignRunner, ActionLifecycle

One campaign run. `pc` is the control point of `CampaignRunner.run`; a point named for a
lifecycle event is about to emit it. `emit` writes the JSONL line and then commits the row:
`Emit` is both, `EmitFileError` fails the first, `EmitStoreError` the second, and where the
exception goes (`Raise`) depends on whether the point is inside the `try` block. The
provider's command sequence is `check` (`before_process`) and `spawn` (`subprocess.run`)
for each command, so that the kill switch may fall between the two. `act` holds the locals
of the loop body, `ref` those of `_run_ref`, `limits` the tracker, which may come used from
an earlier run. The environment sets the kill switch, lets the manifest expire or the time
run out, fails writes, ends commands, interrupts (an exception at any point) and crashes.
`seen` records what the run did, for properties only.

The three providers have the same control; the simulation provider starts nothing. Every
other condition of the safety policy is the constant `Permitted`: an ability outside it is
denied when planned. Expiry is `expired`, which may change between plan and authorization.

`ActionLifecycle` is the abstract promise of the timeline: actions one at a time and in
order, settled only after a cleanup outcome, `verified` only after evidence and a clean
cleanup, nothing after a cancelled one. `CampaignRunner` refines it under the mapping at the
end of `CampaignProperties`, which reads each action's phase off the last event it has.

### RunStore

The rows of one run, statement by statement: the `sqlite3` module commits each insert or
update alone and opens no transaction for a `SELECT`, so `apply_detection_outcomes` is three
steps (`ReadSummary`, `ReadEvaluations`, `UpdateSummary`) between which anybody commits.
`Runner` is the campaign's part (`create_run`, actions, `finish_run`), `QueryStep(q)` a
`telemetry query --run-id` process: audit row, one commit for each evaluation, counters,
artifact. A process can be killed, or a write fail, before each of them.

### Dashboard

A step is what one thread does while it holds `state_lock`, or between two such sections;
what the code does outside the lock (`stop_event.set`, `thread.start`, closing messages, the
files) is a step of its own. `ClaimRun`, `AnnounceRun`, `StartThread` are `start_sim`; a
worker goes `running`, `export`, `finally`, `status`; `StopRequested`, `SetStop` and
`AnnounceStop` are `stop_sim`, which looks under the lock and sets the flag after it. A loop that
comes to its end by itself after the flag was set (`LoopEnds`) was not stopped: a scenario run
reports it complete, a behavior run asks the flag once more when it has its layer (`Export`).
`reader` is one stream with its cursor and what it fetched.

### ScenarioTraces, ScenarioSuite, Simulation, CoreProgram

`ScenarioTraces` has the pure part of `scenarios.py`: tests and conditions of a detector, the
one-pass match of an ordered sequence (`Signals`), pack acceptance, mutations, causal links,
verdicts. `ScenarioSuite` is `run_scenario_suite`: the stop callback is asked at each control
and at each step, an interrupt ends the loop, then up to seven artifacts are written to fixed
paths; each write can fail or be interrupted, and what earlier runs left stays. `Simulation`
is `AgentSim.run_simulation`: phases, recent tactics, lost context, hallucinated commands,
retries, network actions, stop, interrupt, and the layer. What `random` chooses is chosen
freely. `CoreProgram` is the program that runs one or the other, several times.

### DetectionNodes, DetectionEngine, DetectionGate, DetectionPipeline

`DetectionNodes` translates the evaluator's nodes, each a set of event positions found;
`DetectionEngine` the recursion over expressions (a recursive function on an expression and those
nested in it), groups, sweep statuses, live outcomes and gap analysis. The code renumbers the events
of a group and maps what is found back; here they keep their indices, whose order is all that a node
looks at. The one place where the code looks at the order in which Python iterates a set is
`causal_graph`, which goes on from the first child that it meets (`evaluator.py:218`): indices come
in ascending order while a set's hash table is larger than each of them, and from the ninth event of
a group on they need not. `Iterated` is that order, a parameter of which nothing is assumed but that
it is one (`IterationAssumption`; it is taken to depend on the set alone, not on how it was built).
The instance iterates even indices before odd ones, which stands for larger groups than TLC visits.

`DetectionGate` the transitions, findings and exit code of Detection CI, for
arbitrary outcomes. `DetectionPipeline` composes them: a recording is collected event by event
in any order, swept and evaluated live at each point, twinned, and compared with a baseline.
`Twin` gives each event the attributes that the export sets on all of them (`Marks`), and a rule that
looks at one of those is not `Anonymous`.
`Alias` gives the pseudonyms of a twin, digests in the code: that no two ids have one digest is the
assumption `AliasAssumption`. `Anonymous` are the rules that look for no id (`NamesNoId`): ids may
be grouped by, counted, linked and tested for presence, but not compared with a value.

### FlightRecorder

Threads of the receiver, or of an agent with the trace processor, deliver exports span by span
(`Record`, one step for each span, as the lock is taken for each), take a snapshot under the
lock and write it to the one file without it (`Truncate`, then the write). Daemon threads stop
where they are when the main thread is done.

### ContentPacks, SafetyPolicy, AttackFlow, CampaignAdmission

`ContentPacks` has the three pack loaders, the digest and the signature (a digest is what it
digests, a key signs as itself), the trust store with the keys that a reviewer merges into it,
the registries, and `review_community_pack` with its findings, limit and verdict.
`SafetyPolicy` has `authorize`: thirteen checks in their order, of which the first that fails
gives the reason, the target allowlist, the manifest and its expiry, and `plan_campaign`.
`AttackFlow` exports a campaign and imports a flow, with its skipped actions and its order.

`CampaignAdmission` composes them along the way of a community pack: it is written, edited and
signed (`EditItems`, `EditProvenance`, `Sign`) by people who refresh its checksum or forget to;
`StartRun` is `api.run_campaign`, which loads the registries as they are, without keys of an
external store, and plans; `RunStep` is a turn of the runner's loop, which authorizes each step
anew at a later `now`. What an admitted action does is `CampaignRunner`; here it completes or
fails. A review changes nothing, so that it is an operator that the invariants evaluate in each
state, for every set of trust stores.

### AgentEvents, LabTraces, ReferenceLab, McpLab, LabArtifacts, AgentLabs

`LabTraces` holds all 23 fixtures of `lab/fixtures.py` with every field that the policy reads,
the policy itself, and the three shapes of trace that the instrumented agent emits.
`ReferenceLab` is the threading server: each request plays the malicious and the benign twin on
a runtime of its own (`StartFixture`, `Play`, `ResetAndAnswer`) or is refused. `McpLab` is the MCP
server's checks in their order and its session bindings under any messages, and the report that
exercises the controls; `Handled` has the set of controls as a parameter, so that a property can
ask what the report would say of a server that lacks one. `LabArtifacts` is
`review_lab_artifact`, system call by system call (reference, `lstat`, `resolve`,
`is_file`, `stat`, `open`, each chunk), while the file is overwritten in place, replaced, linked within
the root or out of it, or removed, and the reference
is edited. `AgentLabs` runs one of the three commands.

### Investigation, Assurance, Feedback, PortableTelemetry, LiveQuery, TelemetryAnalysis

The first four are the analyses as operators over a window of events: the causal graph, its
depths and the findings with their paths; the doctor's codes and status; the reconciliation of
alerts, the conflicts of verdicts, and the comparison of two snapshots, with the rounding of rates
left open where floating point decides (`Feedback`); and the export of an event to
OpenTelemetry, ECS or OCSF and its import.

`LiveQuery` is a query of a vendor: a specification that is accepted, the plan that a builder
makes of it, `Forge` (a caller that changes the plan; the API takes any), `Execute` with its
checks, then one request or, for Panther, a request and polls. The answers are the vendor's:
records in the wrapping that each adapter keeps, other things, errors, a query that runs on.

`TelemetryAnalysis` composes them: `Deliver` brings the events of a corpus late, twice or not at
all, `Convert` sends the window through a standard and back, and the analyses are evaluated in
every state. Beside the window there are three studies without shared state: `Observe` (a
lifecycle that arrives in any order, whose actions are `Correlated` with telemetry), `Tune`, `LoseAlert`, `Slow` (a candidate that drifts), and
`Ask` (a live query). `MCTelemetryAnalysis` takes its corpora from `LabTraces`, whole in order or
shuffled in parts, and adds those that no lab emits.

## 3. Runs

All passing runs are complete: TLC visits every state of the instance.

| Run | Instance | Shows |
| --- | --- | --- |
| `campaign` | 2 steps (a two-command ability with cleanup that continues, a one-command one that stops), 2 modes, fresh and used limits, 1 fault | Types; at most one command after the kill switch; nothing starts before its intent is stored, a verified row has its ten chained events in both logs, and the database lags the file by at most the faults (`LogsAreEvidence`); no action is left before its cleanup was called; parents name earlier events of the action; stop, cancel and `completed` mean what they say (`StatusTellsRun`); the cleanup reserve is enough if it covers the campaign; the timeline refines `ActionLifecycle`; the run ends |
| `campaign_cleanup` | the same | *violated*: a failed write of `cleanup_started` skips the cleanup |
| `run_store` | 2 planned abilities and an extra one, 2 queries that disagree, 1 failure | Counters agree with the evaluations unless overtaken; no evaluation without its audit, rows are never taken away and the final status stays (`AuditedHistory`) |
| `run_store_counters` | the same | *violated*: a query takes a finished run's totals away |
| `dashboard` | 2 runs, 1 stop, a log cut to 2 events, any number of clears and reconnections | One worker at a time, artifacts on offer are the claimed run's, its log is complete up to its cut (`OneRunShown`); a stop is not lost; the stream catches up with the last event |
| `detection` | 6 rules (one for each connecting node, one with a negation), every recording of up to 4 of 6 events in any order, 2 baselines, 2 scores | The sequence node is exact although greedy, paths and causal chains are what a reference definition says, a twin shows what its recording shows to a rule that names no id (`EngineExact`); groups do not disturb each other (`GroupsIndependent`); more events never put out of sight what was in it (`VisibilityGrows`), nor, where a rule relates events by conditions, ids are unique and no causal chain has a choice of children, take a verdict back (`VerdictAdvances`; all three are `EvidenceOnlyAdds`); gaps explain verdicts; the gate fails every lost detection and passes what lost nothing (`GateIsFair`) |
| `flight_recorder` | 2 threads and the main one, 4 exports that share 4 spans, one with a bad span, room for 3, 1 failed write | A span is recorded once and counted in one answer; nothing is lost without a counter; the file after an orderly close is the recording |
| `core` | 5 selections of packs (passing, failing, refused), 0 or 1 mutation, 2 sets of artifacts, 2 suites, 1 failed write; 4 cycles over 3 phases, 2 simulations, 1 failed layer | The exit status tells whether the suite was complete and right; a stop is met before another checkpoint or a third command; a bundle has one suite's files, the layer has the techniques that were started and no others (`OutputsTellRuns`) |
| `admission` | 7 contents of 3 kinds, 3 provenance records or none, 3 signers, 3 trust stores, 2 edits or signatures, 4 targets, 2 manifests, 3 instants | An approval is of what a maintainer signed with a key that the reviewer trusts, loads, and runs only in simulation off production (`ApprovalIsEarned`); no pack changes the meaning of another's id; the run decides each step as the plan that was shown, unless the manifest expired in between; no step is reached before its dependencies; a campaign comes back from a flow |
| `admission_findings` | the same | *violated*: a long list of findings hides the one that blocks |
| `labs` | all 23 fixtures on 2 threads; 2 principals, 2 sessions, 3 messages of any kind; files of up to 3 chunks of which 2 may be read, 3 changes | Every difference between twins is one that the policy denies by itself; an answered request's traces tell its own effects; the results of a session go to one principal; the MCP report would have failed a server that lacks a control; an approved artifact was read as its reference names it |
| `analysis` | 15 corpora of up to 8 events, whole or shuffled, 1 duplicate, 2 conversions; 5 lifecycle events, 7 skews; 3 baselines; 8 specifications of 4 vendors, 2 changes to a plan, 3 polls | A healthy window has a whole graph, and paths lead along it (`GraphIsSound`); order, duplicates and losses of delivery make no finding and change none (`DeliveryIsHarmless`); a clean feedback report has been earned; conversions keep findings, but for an approval that no event has a field for (`ConversionKeepsFindings`); evidence is of its run: correlated completely, and queried as its plan records (`EvidenceIsCorrelated`); a gain in drift hides no loss |

A property that is the conjunction of several has several mutants where its parts are about
different code.

**Why the bounds are enough to be of use.** Two actions are what it takes for one to disturb
the other (cleanup budget, stop, order of rows), and the first has two commands so that the
switch falls between commands. One fault is enough for each of the failure paths, which are
all different control points; a second would only combine them. Two queries and a runner are
the writers that one row has at a time. Two runs make a late worker of the first meet the
second. Four events are more than any rule's three steps, so that one is left over as noise,
a duplicate or a better choice. Three places for four spans fill the recorder, and two threads
race for the last. In `core`, a mutation adds the noise step in each position, and two
suites with one failure make stale artifacts. In `admission`, two edits are what it takes to
sign and change, or to change and refresh the checksum; the clock passes one manifest's end
before, between and after plan and decision. In `labs`, three messages bind a session, refuse on
it and try to take it; three chunks are one more than may be read. In `analysis`, one duplicate
collides with each event in turn, shuffled corpora have four or five events, more than the
longest link that a finding needs, and three polls have a first, a middle and a last.
`MaxNesting` is how deep the pack's expressions are nested.
Bounds are the constants named *bound* in the modules; guards enforce them. `FindingLimit`,
`MaxPolls`, `MaxWindow`, `MaxPath`, `MaxChunks` and the like stand for constants of the code
that are larger there.

**Deadlock** is checked in `campaign`, `run_store` and `detection`. The dashboard, the
recorder's server, the core program and the labs may stop, since nobody need send a request;
an admission and an analysis end when the bounds are used up.

**Fairness.** `CampaignRunner`: weak fairness of the run's own thread; a command that hangs is
ended by the timeout of `subprocess.run`; nothing is assumed of failures or clocks. `RunStore`:
each process is scheduled, and a database lock is held for one statement. `Dashboard`: weak
fairness of a started worker, which looks at the stop flag between checkpoints and gets to the
end of its `finally`, and of the stream's fetch loop; strong fairness of sending, since the
connection may break again and again but not before each single event (the browser
reconnects with its last id). The others assume none: their properties are safety.

## 4. Proofs

Everything below holds for every value of the constants that satisfies the modules' named
assumptions. Each module of proofs has one inductive invariant per component (TLC checked it on
the run's instance before it was proved), a lemma for its initial states, one for each step or
group of steps, and the theorems, which follow from it.

**`CampaignProofs`** (of `CampaignRunner` and `CampaignProperties`, from `CampaignAssumption`).

* `TypeCorrect`. `TypeInv` is the type invariant and `Assigned`, what is known of the locals at
  each control point (an index inside a step, a result once the provider returned), without which
  the `CASE`s of `EventState` and `Following` are not typed.
* `KillSwitchBounded`, by `KillInv`: before the switch no command is late, and after it one may
  be late only if it stood between its check and its start.
* `CausalChainHolds`, by `ChainInv`: both logs are chained, and `parent` is in both as an event
  of the current action, which is what survives a failed write (`emit` raises before the caller
  stores the new parent). `CleanupComesFirst` is inductive with `TypeInv`.
* `LogsAreEvidenceHolds`. `FlowInv` says what the flags of the exception handling are at each
  point and `Depth` numbers the points; `TailInv` says that, as long as nothing went wrong, the
  end of both logs is the lifecycle up to that depth. `EvidenceInv` carries it over from the tail
  to the rows: an action that is behind keeps in the logs what its row says of it.
* `StatusTellsRunHolds`. `RowInv` relates the rows to the steps that are behind, `CleanupInv`
  to the failed cleanups, `OutcomeInv` hands the outcome on to the report and the run's row. The
  count of rows of each status is an induction over the finite sets of rows.
* `ReserveSufficesHolds`. `Budget` is the sum, over the steps that are behind, of the cleanup
  commands they could start, the current one's so far included; the limit on processes is tested
  against what the tracker came with plus that sum, which is at most `CleanupTotal`.
* `TimelineImplementsLifecycle`: every step is a step of `ActionLifecycle` or a stutter. The
  mapping reads the phases off the last events, so that the proof is about which event each point
  may append: `HereInv` says how the last phase and the control point go together, `BehindInv`
  that what is behind is settled and what was cancelled is the last.

**`RunStoreProofs`**. `StoreInv`: what a query holds in its locals is what it read (`QueryInv`),
and, if nobody committed in between, it is what the table has (`CurrentInv`); a query has its audit
row before its evaluations (`AuditInv`). `CountersFreshHolds` follows, and `AuditedHistoryHolds`,
whose second part is an action property: no step of any process removes a row or changes a final
status.

**`DashboardProofs`**. `ShownInv`: a run that was claimed has no worker until its request starts
it, a worker at work is that of the run claimed last, and holds `is_running` (`WorkerInv`); what it
has written is still its own (`WrittenInv`); and the log of the current run is complete up to its
cut (`RunLogComplete`), which needs that ids of entries grow along the log. `OneRunShownHolds`
follows for any number of runs, log limit and clears.

**`CampaignAdmissionProofs`** (from `AdmissionAssumption`, `NoneAssumption` and those of the parts).

* `AdmissionInv`: what is on disk is a pack and its signature was made by a signer (`PackInv`); a
  run holds what its plan was made from (`Started`); its results are decisions at instants in
  order, and all but the last passed (`Progress`).
* `RegistryUnambiguousHolds`: loading refuses two packs that define an id, so that an id is in
  one of them. `PlanPredictsRunHolds`: of the thirteen checks only the expiry looks at the time,
  and a manifest that expired stays expired. `DependenciesRespectedHolds`: a campaign loads only
  with dependencies on earlier steps, and `Progress` says how those ended.
* `ApprovalIsEarnedHolds`, for `FindingLimit >= 2` (the code keeps 200; with 1, TLC
  shows it false). The findings of a review are a concatenation over the items; the proof
  constructs it, shows that each blocking condition puts a finding in it (`ProhibitedListed`,
  `SafetyListed`, `SignatureListed`, `ProvenanceListed`), that a prefix keeps enough of
  them, and concludes that what has none is signed as it is, loads, and can only be simulated.
* `FlowRoundTripHolds`, for every campaign that loads, order of the file and set of abilities of
  the importer. The loop of `import_campaign` keeps an order of what it has placed (`Ordered`): each
  action once, after its causes, the first of the file that could come. It does not stall: the
  actions that are left and come first in the campaign are ready (`PlaceKeepsOrder`, from
  `Causal`), so that it places all (`ImportOrders`) and, where the file is in the order of the
  campaign, as they were (`OrderKept`). `NoneAssumption` says that what is missing is neither an
  id nor a campaign, and `ItemsAreWritten` that every ability on disk is one that it speaks of.

**`RecordingProofs`** (from `RecorderAssumption`, `GateAssumption`, `EngineAssumption`,
`PackAssumption`, `RecordingAssumption`, `AliasAssumption`, `IterationAssumption`). `RecorderTypeCorrect` and
`SpansAcceptedOnce` are inductive (room is tested in the step that appends). `NothingLostSilently`
needs `LossInv`: with finite sets counted step by step (`GrowsByOne`), a span that leaves its
export without being recorded is counted in the step in which it does. `ClosedFileIsComplete` is
about behaviours: once the main thread closes alone, only it moves (`OnlyMainMoves`,
`ClosingAlone`), and what it writes is the recording.

Of detection, for any pack, whatever its expressions, and any events: the outcomes that the gate
compares are those of the recordings as they are now (`SweptIsCurrent`). `GateIsAlwaysFair` follows
one rule's loss to a finding that blocks (`LossIsFound`), and shows that without a loss neither the
rules nor the telemetry give one (`NoLossNoFinding`, `SameTelemetryNoFinding`); `GapsAlwaysExplain`
compares the two ways in which the live query and the gap analysis look at the telemetry.
`GroupsAreIndependent`: what a group's rule looks at is the same function before and after.
`VisibilityAlwaysGrows` rests on `SightStays`: fields, sources and requirements that were seen stay
seen. `LostDetectionBlocks` and `IdenticalPasses` say of the gate's operators that a loss on a
malicious baseline blocks and that a recording compared with itself passes.

`EngineIsExact` is about every expression that is a finite tree of nodes (`Tree`, which is what the
constructors and the loader let through). A recursive function is what its equation says once
such a function is shown to exist (`Recursion`, `Iterates`); that gives what is found for an
expression and for those nested in it by induction on their height (`FoundIs`), and the chains,
walks and frontiers step by step.

* `SequencesAreExact`: of all choices of events that follow each other, the greedy one is at no step
  later (`GreedyIsFirst`), so that it stays within the span if any does.
* `PathsAreExact`: the breadth-first walk holds what a path of at most that many links leads to
  (`DescendantsExactly`), since what it has seen before it need not see again, and the frontiers hold
  the ends of linked choices and nothing else (`FrontiersHold`, `FrontiersAreLinked`).
  `ChainsAreConnected`: each child that a causal chain goes on from is one link away.
* `TwinsMatchAlike`: a twin has the structure of its recording (`TwinResembles`: the same contents,
  the same identities told apart, the same references within the recording), and of events of one
  structure every node finds the same (`NodesAlike`).
* `VerdictsAdvance`: an event is the last of its group, of an id of its own (`GroupGrows`). A condition looks at one
  event at a time (`ConditionsStay`), and each relation finds something still when there are more
  events (`RelationGrows`): a choice stays a choice, windows, walks and counts grow. A causal chain of
  two steps finds a child still (`KidsRemain`); a longer one, where no two events have one parent
  (`NoChoice`), goes on from the same child, whatever order sets are iterated in (`KidStays`).
  `EvidenceAlwaysAdds` joins it with the other two.

**`AgentLabsProofs`**. `OnePrincipal` is inductive as it stands, since a message that is
authorized on a bound session comes from its principal and binding never rebinds
(`HandledBinds`). `ApprovalWasRead` needs `ReviewInv`: from the moment the reference was read,
the reviewer's copy is as it was made, and if nobody approved it a finding already says so, which
no later step takes away. `ReportTells` follows the report's messages through the checks for
each set of controls: the first check that fails gives the code (`ChecksOfContext`,
`ChecksOfTool`), so that leaving one out changes what the report sees. `TracesTell` proves of each of
the three kinds of trace that it is an account by itself (`Accounts`), and of the server that what a
thread holds is what its fixture's twins make it hold (`RunsTold`); two accounts of different
traces make one (`TwoAccounts`). `DifferencesDenied` rests on `TwinsTest`: a field that says what a
single check refuses is denied whatever the others say.

**`CoreProgramProofs`** (from the assumptions of suite and simulation). `StopsPromptly`: an event
is late only if the request came after its check (`PromptSuite`), and in the cycle in which a
request comes only a retry is a second command (`PromptSimulation`). `OutputsOfTheirRuns`: the
bundle comes last and its members were written by the same suite (`BundleComesLast`, `BundleInv`);
a tactic is noted before its command is started, so that an interrupt between the two leaves at
most the one at hand (`AtHand`, `LayerInv`). `ExitStatusTells` has two halves. One pass over a
trace meets as many conditions as any choice of its events could (`OnePassMeetsAll`), and its
signals are such a choice (`SignalsEmbed`), so that `Detects` is `Embeds`. And `CountInv` counts:
no two controls are alike (`ControlsAre`), an event is one more of its own control and of no other
(`TraceGrows`), so that the traces of the controls behind are complete and the events are as many
as the controls come to; what they come to is the estimate, by induction over the loop
(`EstimateIsTotal`).

**`TelemetryAnalysisProofs`** (from `AnalysisAssumption`, `DriftAssumption`, `QueryAssumption`,
`InvestigationAssumption`, `MillisecondAssumption`).

* `LossesShow`: tuning moves verdicts within their class (`DriftInv`), so that a rate's two
  denominators are equal and a drop of the rate is a drop of the count (`RateDrop`).
* `EvidenceIsRuns`: once a lifecycle is complete, the events with the least and the greatest
  sequence number bound an action in time (`EndsAreBounds`), whatever their order. Of the query,
  each field of a plan is what some specification has there (`PlanShaped`); past `Execute` the
  plan is one that a builder makes, and what was sent, answered and counted agree with it
  (`ExchangeInv`, kept by every request in `Concluding`).
* `CleanIsEarned`: of the window it only needs that it is a sequence; a clean status has no
  conflict and only matched alerts (`CleanStatus`), and what each of them would have been gives
  the rest.
* `GraphSound`: a window's events keep a time and a list of causes through every conversion
  (`WindowInv`); the graph is what its members are, whatever list stands for it (`WithinIs`,
  `SourcesAre`, `GraphIs`). The generations of the depths are a recursive function, whose rounds are
  an induction on their number: what is popped has its depth (`GenerationDepths`), and a node that
  is never popped is on a cycle or below one (`CycleStays`); in a healthy window with different
  times every edge leads from an earlier event to a later one, so that the least time among the
  nodes left would be popped (`AllPopped`). A path is built one edge at a time (`BackKeeps`), and
  so leads along the graph, through no node twice (`PathIs`, `PathFollows`).
* `ConversionsKeep`: an event comes back from a conversion with every field but its conversation,
  its outcome and its time as they were, and those three as far as the standard has them
  (`ImportKeeps`), also after the second (`CarriedTwice`); findings rest on no other field
  (`AlikeGraph`, `AlikeGoals`, `AlikeMemory`) but an approval, whose loss can only add a drift
  (`AlikeDelegations`); cutting times keeps their order (`FloorOrder`), so that no link becomes an
  inversion (`AlikeLinks`).
* `DeliveryChangesNothing`: a finding is said of a trace, and what is said is a function of the set
  of the events (`Said`, `FindingsSay`): a reference leads to the one event with that id
  (`HandoffsAre`), a group of nodes is the events that share a delegation (`GroupsAre`), and of two
  checkpoints of a goal that differ, however far apart, some are next to each other
  (`GoalsChange`). So is all that a report takes of the window (`SameReport`, `EvidenceSaid`); and a
  smaller set says less (`LessIsSaid`).

Sums, counts and concatenations over sets are proved by induction over natural numbers, obtained
from the well-foundedness of `<` for a set given by comprehension (`SetInduction`), since the
library's rule for an arbitrary predicate cannot be instantiated here.

**Corrected by proving.** `ApprovedOnlySimulates` spoke of items of any kind, and is about
ability packs, as is the code. Six `CASE`s whose guards overlap (checks in their order, as
`Authorize`) left the choice to the reader of the operator, where the code takes the first; they
are `IF`s now. The union of conflicts in `Feedback` was read by the two tools with different
parentheses, and has its own now, and so has the set of new nodes in `Descendants`. `CausalIsConnected`
was false of an event that is its own parent, which a causal chain may go on to and a path may not;
it excludes those now. `VerdictAdvances` was said of rules without a negation: what it takes is that
relations are not nested (`Plain`), and a negation of conditions does no harm; and it was said of every
causal chain as long as the model took the child with the least index, where the code takes one by
the order of a set: it excludes chains with a choice now (`NoChoice`), of which TLC shows it false. `TwinMatchesAlike` was
said of the instance's rules; it is now of all that name no id. `LayerTellsExecuted` failed for constants in which a network action has the tactic
of the baseline; it now asks for an action of that tactic that was not skipped.

**Only model-checked.** Liveness (`Termination`, `StopEndsRun`, `CaughtUp`), which needs fairness
and `ENABLED`, out of the prover's reach. Every safety property of a passing run has a theorem.

## 5. What the model found

The first three have a run that TLC finds violated.

1. **A failed write skips cleanup** (`runner.py:356`): `cleanup_started` is emitted outside the
   inner `try`.
2. **Lost totals** (`storage.py:302`): a query that read a run's summary before `finish_run`
   wrote it puts the old one back.
3. **A long review forgets what blocks** (`content/review.py:305`): findings are cut to the
   limit before the verdict is read off them.

Others were met while modelling, and hold of the model as they do of the code:

* The kill switch during a command sequence is recorded as failure (`local.py:91`): the provider
  catches the exception, so no `cancelled` event exists (`CAMPAIGNS.md:99`), and with
  `on_failure: continue` the next step is planned before the switch is seen.
* New noise passes the gate (`detection_ci.py:317`; `FLIGHT_RECORDER.md:135`): out of a
  visibility gap, everything is an improvement. `GateIsFair` speaks of losses outside gaps.
* A later event can take the verdict of a `causal_graph` rule of three or more steps back, although
  all that was detected is there still (`evaluator.py:218`): which of several children the chain goes
  on from is the iteration order of a set, in which a ninth event may come before the one that led
  on, and no other child is tried. No document promises that every chain is found.
* A missing source is no gap as long as another one was seen (`packs.py:309`;
  `DETECTION_ENGINE.md:173`).
* Mutations rename causes (`scenarios.py:585`; `SCENARIOS.md:166`): inserted noise shifts the
  sequence numbers that `caused_by_sequences` refers to.
* `campaign.stop_conditions` is declared, documented (`CAMPAIGNS.md:9`) and read nowhere in
  the runner: only `on_failure` and the kill switch end a campaign.
* The detection debugger (`web_ui.py:4252`) reads report and events one after the other
  without the lock: a run that starts in between gives it a verdict of one run and events of
  another (`SCENARIOS.md:201` says it reads those "for that run").
* A stop request that is looked at in one run and set in the next ends the next
  (`web_ui.py:4379`).
* The feedback fixture's policy event says `tool_effect_applied: False` also when the runtime
  has applied the effect (`lab/reference.py:419`), and its benign twin is investigated as
  `elevated` for a handoff without delegation, though `MULTI_AGENT_INVESTIGATION.md` offers
  benign twins as the invariant-clean control.
* The MCP report does not exercise the scope and the version of a request.
* `sign_content.py` has no `--output`, which `PORTABILITY_AND_TRUST.md:112` shows; the command
  line and the API load packs without the keys that a review was given, so that a pack signed
  with an external key is reviewed but does not load.
* Import of a flow drops what an action depended on through one that was skipped, and
  `on_failure`, which the standard does not carry.
* A comment of the depths (`investigation.py:182`) reads as if nodes on a cycle had depth 0; one
  with a parent off the cycle has that parent's depth plus one.
* Records of one id are resolved by the last, by the first or by renaming, as the reader does;
  a graph loses the links of an event without a trace id while the doctor, if it is not an
  agent's, says nothing.
* Drift at exactly its threshold depends on the rounding of floating point, and an empty snapshot
  has a recall of 1.0.
* No agent's event has a field for `principal_transition_approved`, which the investigation reads
  (`investigation.py:361`): after a conversion, an approved transition is reported as
  `delegation_principal_drift`. An event without an outcome comes back with the status `unset`.
* Import from OCSF takes the session for the conversation where there was none, and times to the
  millisecond; a record with more than 50 nested attributes loses the rest; a time in
  microseconds since the epoch is read as one in nanoseconds (`normalization.py:189`).
* A plan's window is sent to Panther in whole seconds, so that its query may start and end up to
  a second before the recorded window. A result that was cut at the limit, or has a further page,
  does not say so, and items of an answer in another wrapping are dropped without a count: a
  `missed` may be either. A plan whose origin or credential variable was changed to another
  acceptable one is a plan that a builder makes, and is accepted as such.

## 6. Not modelled

Formats and wording, digests and cryptography, the argument parser, HTML. Vendor services
behind the connectors: what they answer is an arbitrary set of events in `RunStore` and a small
set of answers in `LiveQuery`; quoting of a query's text, redirects, TLS and byte limits are the
transport's. Readers of the store and of the dashboard's files, which change nothing. Crashes of
the dashboard and of a suite: neither recovers anything when it starts again. Of telemetry
analysis: lineage edges, aliases of vendors' field names, parsing of timestamps (times are
numbers) and ground truth scoring. Scorecards, recommendations, runbooks, detection samples and
generated rules, reports and renderers, which format what other parts decided. Plugins and
external plans: what a plugin does is outside the repository.

## 7. Plan

Done, in this order: campaign runner and its proofs, run store, dashboard, detection engine
and gate, flight recorder and its proofs, the core program; policy, content trust and exchange;
the labs and their first proofs; the analyses and the live query.

Then proved: every safety invariant and action property of the campaign runner with its
refinement, of the store, the dashboard, the recorder, the core program, the labs and the analyses;
of detection and of admission.

Next, to model, where a property is worth it: lineage edges and the scoring of ground truth; the
dashboard's form token and debugger; the loading of export files.
