----------------------------- MODULE Simulation -----------------------------
(* AgentSim.run_simulation (core.py), called by the command line or by a worker *)
(* of the dashboard: cycles through the phases, the commands that each starts,  *)
(* stop requests and interrupts, and the Navigator layer at the end.            *)
EXTENDS Integers, Sequences, FiniteSets, Functions, SequencesExt

CONSTANTS
    Phases,             \* SIMULATION_PHASES: each a set of actions [tactic, network]
    Baseline,           \* the tactic of the baseline command
    Iterations,         \* values of total_iterations
    MaxSimulations,     \* bound: simulations run one after another
    MaxLayerFailures    \* bound: writes of the layer that fail

ASSUME SimulationAssumption ==
    /\ Phases # <<>> /\ Phases \in Seq(SUBSET UNION Range(Phases)) /\ Iterations \subseteq Nat \ {0}
    /\ MaxSimulations \in Nat \ {0} /\ MaxLayerFailures \in Nat

VARIABLES
    simulator,          \* how it is called: caller, iterations, dry_run, allow_network
    simulation,         \* number of the simulation, where it is, its cycle and result
    recent_tactics,
    executed_tactics,
    pending,            \* the action that is about to start, what kind it is
    halt_requested,     \* stop_callback
    layer,              \* the output file: the simulation it is from, and its techniques
    layer_failures,
    started             \* for the properties: tactics of commands started, how many late

simulationVars == <<simulator, simulation, recent_tactics, executed_tactics, pending,
                    halt_requested, layer, layer_failures, started>>

Actions == UNION Range(Phases)

NoAction     == [tactic |-> Baseline, network |-> FALSE]
NoPending    == [kind |-> "none", action |-> NoAction]
NoSimulation == [number |-> 0, pc |-> "idle", index |-> 0, phase |-> 0, result |-> "none"]
NoStarted    == [tactics |-> {}, late |-> 0]

SimulationInit ==
    /\ simulator = [caller |-> "cli", iterations |-> 1, dry_run |-> TRUE, allow_network |-> FALSE]
    /\ simulation = NoSimulation
    /\ recent_tactics = <<>> /\ executed_tactics = {} /\ pending = NoPending
    /\ halt_requested = FALSE /\ started = NoStarted /\ layer_failures = 0
    /\ layer = [number |-> 0, techniques |-> {}]

SimulationGoes(pc) == simulation' = [simulation EXCEPT !.pc = pc]

SimulationAt(pc) == simulation.pc = pc

-----------------------------------------------------------------------------
StartSimulation ==
    /\ SimulationAt("idle") /\ simulation.number < MaxSimulations
    /\ simulator' \in [caller : {"cli", "worker"}, iterations : Iterations,
                       dry_run : BOOLEAN, allow_network : BOOLEAN]
    /\ simulation' = [NoSimulation EXCEPT !.number = simulation.number + 1, !.pc = "cycle"]
    /\ recent_tactics' = <<>> /\ executed_tactics' = {} /\ pending' = NoPending
    /\ halt_requested' = FALSE /\ started' = NoStarted
    /\ UNCHANGED <<layer, layer_failures>>

RequestHalt ==
    /\ simulator.caller = "worker" /\ simulation.pc # "idle" /\ ~halt_requested
    /\ halt_requested' = TRUE
    /\ UNCHANGED <<simulator, simulation, recent_tactics, executed_tactics, pending, layer,
                   layer_failures, started>>

\* The cycles are spread over the phases, in their order.
PhaseOf(index) == ((index * Len(Phases)) \div simulator.iterations) + 1

\* The loop is over, or stop_callback is true.
CyclesEnd ==
    /\ SimulationAt("cycle")
    /\ simulation.index = simulator.iterations \/ halt_requested
    /\ SimulationGoes("layer")
    /\ UNCHANGED <<simulator, recent_tactics, executed_tactics, pending, halt_requested,
                   layer, layer_failures, started>>

\* A new phase forgets the recent tactics.
Recent(phase) == IF phase = simulation.phase THEN recent_tactics ELSE <<>>

\* A cycle begins: context is lost, or an action of the phase is chosen.  Whether an action that was
\* recent is chosen again is left to random, which tries ten times.
BeginCycle ==
    /\ SimulationAt("cycle")
    /\ simulation.index < simulator.iterations /\ ~halt_requested
    /\ LET phase == PhaseOf(simulation.index)
       IN  /\ simulation' = [simulation EXCEPT !.pc = "run", !.index = @ + 1, !.phase = phase]
           /\ \/ /\ pending' = [kind |-> "baseline", action |-> NoAction]
                 /\ recent_tactics' = <<>>
              \/ \E action \in Phases[phase], kind \in {"action", "hallucination"} :
                    /\ pending' = [kind |-> kind, action |-> action]
                    /\ LET all == Append(Recent(phase), action.tactic)
                       IN  recent_tactics' = IF Len(all) > 3 THEN Tail(all) ELSE all
    /\ UNCHANGED <<simulator, executed_tactics, halt_requested, layer, layer_failures, started>>

\* The phase has no action on this platform, which ends the loop.
NoActionsFound ==
    /\ SimulationAt("cycle")
    /\ simulation.index < simulator.iterations /\ ~halt_requested
    /\ LET phase == PhaseOf(simulation.index)
       IN  /\ Phases[phase] = {}
           /\ recent_tactics' = Recent(phase)
           /\ simulation' = [simulation EXCEPT !.pc = "layer", !.phase = phase]
    /\ UNCHANGED <<simulator, executed_tactics, pending, halt_requested, layer,
                   layer_failures, started>>

-----------------------------------------------------------------------------
(* Commands.                                                                    *)

Skipped(action) == action.network /\ ~simulator.allow_network /\ ~simulator.dry_run

\* _run_action: nothing is started over the network without the opt-in.
SkipNetwork ==
    /\ SimulationAt("run") /\ pending.kind # "hallucination" /\ Skipped(pending.action)
    /\ SimulationGoes("cycle")
    /\ UNCHANGED <<simulator, recent_tactics, executed_tactics, pending, halt_requested,
                   layer, layer_failures, started>>

\* Deviation: a hallucinated command counts as its action.
RunNotingAll ==
    /\ SimulationAt("run")
    /\ pending.kind # "hallucination" => ~Skipped(pending.action)
    /\ executed_tactics' = executed_tactics \union {pending.action.tactic}
    /\ SimulationGoes("start")
    /\ UNCHANGED <<simulator, recent_tactics, pending, halt_requested, layer, layer_failures,
                   started>>

\* A hallucination's command is no tactic, and does not pass _run_action.
Run ==
    /\ SimulationAt("run")
    /\ pending.kind # "hallucination" => ~Skipped(pending.action)
    /\ executed_tactics' = IF pending.kind = "hallucination" THEN executed_tactics
                           ELSE executed_tactics \union {pending.action.tactic}
    /\ SimulationGoes("start")
    /\ UNCHANGED <<simulator, recent_tactics, pending, halt_requested, layer, layer_failures,
                   started>>

\* What a command's output may look like: one that fails to start reads like an error,
\* and a preview has none.
Outputs == IF simulator.dry_run THEN {"none"} ELSE {"none", "command_error", "access_error"}

\* Whether another command follows in the cycle.
MayRetry(output) ==
    \/ pending.kind = "hallucination" /\ output = "command_error"
    \/ pending.kind = "action" /\ output = "access_error"

\* _execute_command, then what is made of its output.  After an access error it is left to
\* random, and to there being another action, if one is tried.
Start ==
    /\ SimulationAt("start")
    /\ started' = [tactics |-> IF pending.kind = "hallucination" THEN started.tactics
                               ELSE started.tactics \union {pending.action.tactic},
                   late |-> IF halt_requested THEN started.late + 1 ELSE started.late]
    /\ \E output \in Outputs :
          \/ /\ MayRetry(output)
             /\ \E action \in Phases[simulation.phase] :
                   /\ pending.kind = "action" => action # pending.action
                   /\ pending' = [kind |-> "retry", action |-> action]
             /\ SimulationGoes("run")
          \/ /\ ~(MayRetry(output) /\ pending.kind = "hallucination")
             /\ SimulationGoes("cycle") /\ UNCHANGED pending
    /\ UNCHANGED <<simulator, recent_tactics, executed_tactics, halt_requested, layer,
                   layer_failures>>

-----------------------------------------------------------------------------
(* The layer, and the end.                                                      *)

\* main catches an interrupt, once, and exports what was executed until then.
InterruptSimulation ==
    /\ simulator.caller = "cli" /\ simulation.pc \in {"cycle", "run", "start", "layer"}
    /\ simulation' = [simulation EXCEPT !.pc = "layer", !.result = "interrupted"]
    /\ simulation.result = "none"
    /\ UNCHANGED <<simulator, recent_tactics, executed_tactics, pending, halt_requested,
                   layer, layer_failures, started>>

ExportLayer ==
    /\ SimulationAt("layer")
    /\ layer' = [number |-> simulation.number, techniques |-> executed_tactics]
    /\ simulation' = [simulation EXCEPT !.pc = "idle",
                          !.result = IF @ = "none" THEN "done" ELSE @]
    /\ UNCHANGED <<simulator, recent_tactics, executed_tactics, pending, halt_requested,
                   layer_failures, started>>

\* The directory is gone, or the write fails and leaves a part of the file.
ExportLayerRaises ==
    /\ SimulationAt("layer") /\ layer_failures < MaxLayerFailures
    /\ layer_failures' = layer_failures + 1
    /\ layer' \in {layer, [number |-> 0, techniques |-> {}]}
    /\ simulation' = [simulation EXCEPT !.pc = "idle", !.result = "raised"]
    /\ UNCHANGED <<simulator, recent_tactics, executed_tactics, pending, halt_requested, started>>

SimulationNext ==
    \/ StartSimulation \/ RequestHalt \/ CyclesEnd \/ NoActionsFound \/ BeginCycle
    \/ SkipNetwork \/ Run \/ Start \/ InterruptSimulation \/ ExportLayer \/ ExportLayerRaises

SimulationSpec == SimulationInit /\ [][SimulationNext]_simulationVars
=============================================================================
