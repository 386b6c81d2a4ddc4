---------------------------- MODULE CampaignRunner ----------------------------
(* One campaign run: CampaignRunner.run (agentsim/orchestration/runner.py), the *)
(* execution provider it drives (agentsim/execution), the RunLimits tracker it  *)
(* consults (agentsim/safety/resource_limits.py) and the two logs every event   *)
(* is written to, the JSONL timeline and the SQLite event table.                *)
(*                                                                              *)
(* Other actors step at any point: the kill switch (RunLimits.cancel from       *)
(* another thread), the two clocks (authorization expiry, run duration), the    *)
(* operating system (a write fails, a command ends or hangs) and the operator   *)
(* (Ctrl-C, or a kill of the whole process).                                    *)
EXTENDS Naturals, Sequences

CONSTANTS
    Steps,          \* campaign.steps: [ability |-> ..., on_failure |-> ...] in order
    Modes,          \* run modes explored, a subset of DOMAIN MODE_PROVIDER
    Permitted,      \* abilities every other condition of SafetyPolicy.authorize allows
    Argv,           \* Argv[a]: commands in the ability's reviewed sequence
    CleanupArgv,    \* CleanupArgv[a]: commands of its cleanup_ref, 0 when it is null
    Detections,     \* detection_results: "detected", "missed" or "not_evaluated"
    MaxActions,     \* manifest.max_actions
    MaxProcesses,   \* manifest.max_processes
    PriorUse,       \* counters the RunLimits tracker may already hold
    MaxFaults       \* bound: failed writes and interrupts in one run

Actions   == DOMAIN Steps
Abilities == {Steps[i].ability : i \in Actions}

\* The manifest's limits are positive (authorization.py) and plan_campaign
\* raises before anything is created when the campaign has too many steps.
ASSUME CampaignAssumption ==
    /\ Steps \in Seq([ability : Abilities, on_failure : {"stop", "continue"}])
    /\ Modes \subseteq {"simulate", "emulate", "lab"}
    /\ Argv \in [Abilities -> Nat \ {0}]
    /\ CleanupArgv \in [Abilities -> Nat]
    /\ Detections \in [Abilities -> {"detected", "missed", "not_evaluated"}]
    /\ MaxActions \in Nat \ {0}
    /\ MaxProcesses \in Nat \ {0}
    /\ Len(Steps) <= MaxActions
    /\ PriorUse \subseteq [actions : Nat, processes : Nat, cleanups : Nat]
    /\ MaxFaults \in Nat

VARIABLES
    pc,             \* control point of run()
    mode,           \* the mode argument
    index,          \* action_index of the loop
    act,            \* the loop body's locals about the current action
    ref,            \* _run_ref's locals about the command sequence it runs
    stop_campaign,  \* stop_campaign
    raised,         \* an exception waits for the finally block to end
    outcome,        \* status computed after the loop
    sequence,       \* emit's event counter
    parent,         \* parent_id: sequence number of the parent event
    timeline,       \* action-lifecycle.jsonl
    stored,         \* rows of lifecycle_events, in insertion order
    actions,        \* rows of actions
    report,         \* status in campaign-report.json, "none" before it exists
    run_status,     \* runs.status, "none" before create_run
    limits,         \* RunLimits: its three counters and the kill switch
    overtime,       \* max_duration_seconds have passed
    expired,        \* manifest.expires_at has passed
    faults,         \* failed writes, interrupts and crashes so far
    seen            \* what the run did, for the properties: no guard reads it

control == <<index, stop_campaign, raised, outcome>>
logs    == <<sequence, parent, timeline, stored>>
records == <<actions, report, run_status>>
clocks  == <<overtime, expired>>
vars == <<pc, mode, control, act, ref, logs, records, limits, clocks, faults, seen>>

-----------------------------------------------------------------------------
(* Control points.  A point named for a lifecycle event is about to emit it.   *)

TryPoints   == {"prepared", "attempted", "executed", "observed", "detection"}
EmitPoints  == TryPoints \union
               {"planned", "denied", "prevented", "authorized", "handler",
                "cleanup_started", "cleaned", "cleanup_failed", "verify"}
FinalPoints == {"done", "aborted", "crashed"}
Points      == EmitPoints \union FinalPoints \union
               {"start", "next", "authorize", "record_prevented", "before_action",
                "prepare", "execute", "check", "spawn", "except", "cleanup",
                "cleanup_except", "record", "finish", "write_report", "artifacts",
                "finish_run"}

Ability   == Steps[index].ability
OnFailure == Steps[index].on_failure
Simulated == mode = "simulate"

\* Whether an exception raised here is inside the try block of run().
InTry ==
    \/ pc \in TryPoints \union {"before_action", "prepare", "execute", "except"}
    \/ pc \in {"check", "spawn"} /\ ~ref.cleaning

\* Deviation: a cleanup that failed does not count against the action.
VerifiedWithoutCleanup == act.result \in {"simulated", "executed"} /\ ~act.error

\* Deviation: an exception after the provider's success does not count.
VerifiedDespiteError == act.result \in {"simulated", "executed"} /\ act.cleanup = "cleaned"

\* Line 398: the provider succeeded, cleanup is clean and nothing raised.
Verified ==
    /\ act.result \in {"simulated", "executed"}
    /\ act.cleanup = "cleaned"
    /\ ~act.error

Unsuccessful == IF act.cancelled THEN "cancelled" ELSE "failed"

\* Deviation: the detection status is emitted as the lifecycle state.
StateFromStatus ==
    CASE pc = "executed"  -> act.result
      [] pc = "detection" -> Detections[Ability]
      [] pc = "handler"   -> Unsuccessful
      [] pc = "cleaned"   -> act.cleanup
      [] pc = "verify"    -> IF Verified THEN "verified" ELSE Unsuccessful
      [] OTHER            -> pc

\* The lifecycle state emit is about to record.
EventState ==
    CASE pc = "executed"  -> act.result
      [] pc = "detection" -> IF Detections[Ability] = "not_evaluated"
                             THEN "detection_pending" ELSE Detections[Ability]
      [] pc = "handler"   -> Unsuccessful
      [] pc = "cleaned"   -> act.cleanup
      [] pc = "verify"    -> IF Verified THEN "verified" ELSE Unsuccessful
      [] OTHER            -> pc

\* planned events are emitted with parent_event_id None, here 0.
Event == [seq    |-> sequence + 1,
          step   |-> index,
          state  |-> EventState,
          parent |-> IF pc = "planned" THEN 0 ELSE parent]

\* Deviation: cleanup follows a normal return only, not the except clause.
FollowingWithoutFinally ==
    CASE pc = "planned"         -> "authorize"
      [] pc = "denied"          -> "prevented"
      [] pc = "prevented"       -> "record_prevented"
      [] pc = "authorized"      -> "before_action"
      [] pc = "prepared"        -> "attempted"
      [] pc = "attempted"       -> "execute"
      [] pc = "executed"        -> "observed"
      [] pc = "observed"        -> "detection"
      [] pc = "detection"       -> "cleanup_started"
      [] pc = "cleanup_started" -> "cleanup"
      [] pc \in {"handler", "cleaned", "cleanup_failed"} -> "verify"
      [] pc = "verify"          -> "record"

\* Where run() goes after each emit that returns.
Following ==
    CASE pc = "planned"         -> "authorize"
      [] pc = "denied"          -> "prevented"
      [] pc = "prevented"       -> "record_prevented"
      [] pc = "authorized"      -> "before_action"
      [] pc = "prepared"        -> "attempted"
      [] pc = "attempted"       -> "execute"
      [] pc = "executed"        -> "observed"
      [] pc = "observed"        -> "detection"
      [] pc \in {"detection", "handler"} -> "cleanup_started"
      [] pc = "cleanup_started" -> "cleanup"
      [] pc \in {"cleaned", "cleanup_failed"} -> IF raised THEN "aborted" ELSE "verify"
      [] pc = "verify"          -> "record"

GoTo(p) == pc' = p

\* A step that only moves control.
Move(p) ==
    /\ GoTo(p)
    /\ UNCHANGED <<mode, control, act, ref, logs, records, limits, clocks, faults, seen>>

-----------------------------------------------------------------------------
(* emit(): append_event to the JSONL file, then store.append_event.            *)

\* Deviation: a failed write is logged and forgotten.
RaiseSwallowed ==
    /\ GoTo(IF pc \in EmitPoints THEN Following ELSE IF InTry THEN "except" ELSE "aborted")
    /\ UNCHANGED raised

\* An exception the except clause of run() catches (OSError, RuntimeError,
\* ValueError); outside the try block nothing does and it leaves run().
Raise == GoTo(IF InTry THEN "except" ELSE "aborted") /\ UNCHANGED raised

\* An exception no clause of run() catches (sqlite3.Error, KeyboardInterrupt, or
\* one raised in the handler): the finally block runs first.
RaiseUncaught ==
    IF InTry \/ pc = "handler"
    THEN GoTo("cleanup_started") /\ raised' = TRUE
    ELSE GoTo("aborted") /\ UNCHANGED raised

Fault == faults < MaxFaults /\ faults' = faults + 1

Emit ==
    /\ pc \in EmitPoints
    /\ sequence' = sequence + 1
    /\ timeline' = Append(timeline, Event)
    /\ stored' = Append(stored, Event)
    /\ parent' = sequence + 1
    /\ act' = IF pc = "detection" THEN [act EXCEPT !.detection = Detections[Ability]] ELSE act
    /\ GoTo(Following)
    /\ UNCHANGED <<mode, control, ref, records, limits, clocks, faults, seen>>

\* Deviation: parent_id is assigned before the event is written.
ParentBeforeWrite ==
    /\ pc \in EmitPoints
    /\ Fault
    /\ sequence' = sequence + 1
    /\ parent' = sequence + 1
    /\ CASE pc = "cleaned" -> GoTo("cleanup_except") /\ UNCHANGED raised
         [] pc = "handler" -> RaiseUncaught
         [] OTHER          -> Raise
    /\ UNCHANGED <<mode, index, stop_campaign, outcome, act, ref, timeline, stored,
                   records, limits, clocks, seen>>

\* Deviation: the database row is written before the file.
StoreBeforeFile ==
    /\ pc \in EmitPoints
    /\ Fault
    /\ sequence' = sequence + 1
    /\ stored' = Append(stored, Event)
    /\ Raise
    /\ UNCHANGED <<mode, index, stop_campaign, outcome, act, ref, parent, timeline,
                   records, limits, clocks, seen>>

\* The file cannot be written: the number is used up, nothing is recorded.
\* The inner except clause turns a lost "cleaned" into a cleanup failure.
EmitFileError ==
    /\ pc \in EmitPoints
    /\ Fault
    /\ sequence' = sequence + 1
    /\ CASE pc = "cleaned" -> GoTo("cleanup_except") /\ UNCHANGED raised
         [] pc = "handler" -> RaiseUncaught
         [] OTHER          -> Raise
    /\ UNCHANGED <<mode, index, stop_campaign, outcome, act, ref, parent, timeline, stored,
                   records, limits, clocks, seen>>

\* The file is written and the database is not (locked, full): sqlite3.Error.
EmitStoreError ==
    /\ pc \in EmitPoints
    /\ Fault
    /\ sequence' = sequence + 1
    /\ timeline' = Append(timeline, Event)
    /\ RaiseUncaught
    /\ UNCHANGED <<mode, index, stop_campaign, outcome, act, ref, parent, stored,
                   records, limits, clocks, seen>>

-----------------------------------------------------------------------------
(* The loop over campaign.steps.                                               *)

\* The run directory, the manifest file, the empty timeline and the runs row.
CreateRun ==
    /\ pc = "start"
    /\ run_status' = "running"
    /\ GoTo("next")
    /\ UNCHANGED <<mode, control, act, ref, logs, actions, report, limits, clocks,
                   faults, seen>>

FreshAction == [result |-> "none", executed |-> FALSE, cleanup |-> "not_started",
                error |-> FALSE, cancelled |-> FALSE, detection |-> "not_evaluated"]

NextStep ==
    /\ pc = "next"
    /\ ~stop_campaign
    /\ index < Len(Steps)
    /\ index' = index + 1
    /\ act' = FreshAction
    /\ ref' = [ref EXCEPT !.cleaning = FALSE]
    /\ GoTo("planned")
    /\ UNCHANGED <<mode, stop_campaign, raised, outcome, logs, records, limits, clocks,
                   faults, seen>>

LoopEnds ==
    /\ pc = "next"
    /\ stop_campaign \/ index = Len(Steps)
    /\ Move("finish")

\* SafetyPolicy.authorize with a fresh clock reading.
Authorize ==
    /\ pc = "authorize"
    /\ Move(IF ~expired /\ Ability \in Permitted THEN "authorized" ELSE "denied")

Row(status, cleanup, detection, ran) ==
    [step |-> index, status |-> status, cleanup |-> cleanup, detection |-> detection,
     executed |-> ran]

Record(row, stop) ==
    /\ actions' = Append(actions, row)
    /\ stop_campaign' = stop
    /\ GoTo("next")
    /\ UNCHANGED <<mode, index, raised, outcome, act, ref, logs, report, run_status,
                   limits, clocks, faults, seen>>

RecordPrevented ==
    /\ pc = "record_prevented"
    /\ Record(Row("prevented", "not_required", "not_applicable", FALSE), OnFailure = "stop")

\* RunLimits.before_action.
LimitsRefuseAction ==
    \/ limits.cancelled
    \/ limits.actions >= MaxActions
    \/ overtime

BeforeAction ==
    /\ pc = "before_action"
    /\ IF LimitsRefuseAction
       THEN Raise /\ UNCHANGED limits
       ELSE /\ GoTo("prepare")
            /\ limits' = [limits EXCEPT !.actions = @ + 1]
            /\ UNCHANGED raised
    /\ UNCHANGED <<mode, index, stop_campaign, outcome, act, ref, logs, records, clocks,
                   faults, seen>>

Prepare == pc = "prepare" /\ Move("prepared")

\* The except clause: error, action_cancelled and detection_status.
HandleException ==
    /\ pc = "except"
    /\ act' = [act EXCEPT !.error = TRUE, !.cancelled = limits.cancelled,
                          !.detection = "not_evaluated"]
    /\ GoTo("handler")
    /\ UNCHANGED <<mode, control, ref, logs, records, limits, clocks, faults, seen>>

-----------------------------------------------------------------------------
(* provider.execute and provider.cleanup.                                      *)

CleanupCalled == seen' = [seen EXCEPT !.cleanup_called = @ \union {index}]

\* provider.prepare, which execute and cleanup run again, raises: an unsupported
\* platform, a missing docker client, an unknown command reference.
PrepareRaises ==
    /\ pc \in {"prepare", "execute", "cleanup"}
    /\ ~Simulated
    /\ IF pc = "cleanup"
       THEN CleanupArgv[Ability] > 0 /\ GoTo("cleanup_except") /\ CleanupCalled
       ELSE GoTo("except") /\ UNCHANGED seen
    /\ UNCHANGED <<mode, control, act, ref, logs, records, limits, clocks, faults>>

ExecuteSimulated ==
    /\ pc = "execute"
    /\ Simulated
    /\ act' = [act EXCEPT !.result = "simulated"]
    /\ GoTo("executed")
    /\ UNCHANGED <<mode, control, ref, logs, records, limits, clocks, faults, seen>>

BeginSequence(isCleanup) ==
    /\ ref' = [argv |-> 0, nonzero |-> FALSE, attempted |-> FALSE, cleaning |-> isCleanup]
    /\ GoTo("check")
    /\ UNCHANGED <<mode, control, act, logs, records, limits, clocks, faults>>

Execute ==
    /\ pc = "execute"
    /\ ~Simulated
    /\ BeginSequence(FALSE)
    /\ UNCHANGED seen

\* cleanup_ref null, or the simulation provider: verified_noop.
CleanupNoop ==
    /\ pc = "cleanup"
    /\ Simulated \/ CleanupArgv[Ability] = 0
    /\ act' = [act EXCEPT !.cleanup = "cleaned"]
    /\ CleanupCalled
    /\ GoTo("cleaned")
    /\ UNCHANGED <<mode, control, ref, logs, records, limits, clocks, faults>>

Cleanup ==
    /\ pc = "cleanup"
    /\ ~Simulated
    /\ CleanupArgv[Ability] > 0
    /\ BeginSequence(TRUE)
    /\ CleanupCalled

\* _run_ref hands its ProviderResult back to run().
Return(ok) ==
    /\ IF ref.cleaning
       THEN /\ act' = [act EXCEPT !.cleanup = IF ok THEN "cleaned" ELSE "cleanup_failed"]
            /\ GoTo("cleaned")
       ELSE /\ act' = [act EXCEPT !.result = IF ok THEN "executed" ELSE "failed",
                                  !.executed = ref.attempted]
            /\ GoTo("executed")
    /\ UNCHANGED <<mode, control, ref, logs, records, limits, clocks, faults>>

SequenceLength == IF ref.cleaning THEN CleanupArgv[Ability] ELSE Argv[Ability]

SequenceEnds ==
    /\ pc = "check"
    /\ ref.argv = SequenceLength
    /\ Return(~ref.nonzero)
    /\ UNCHANGED seen

\* Deviation: the kill switch is looked at before an action only.
KillSwitchPerAction ==
    IF ref.cleaning
    THEN limits.cleanups >= MaxProcesses
    ELSE overtime \/ limits.processes >= MaxProcesses

\* Deviation: cleanup commands draw on the same budget as the others.
SharedReserve ==
    IF ref.cleaning
    THEN limits.cleanups + limits.processes >= MaxProcesses
    ELSE limits.cancelled \/ overtime \/ limits.processes >= MaxProcesses

\* RunLimits.before_process, with the provider's own look at the kill switch.
LimitsRefuseProcess ==
    IF ref.cleaning
    THEN limits.cleanups >= MaxProcesses
    ELSE limits.cancelled \/ overtime \/ limits.processes >= MaxProcesses

\* _run_ref catches the RuntimeError: the sequence ends as failed.
ProcessRefused ==
    /\ pc = "check"
    /\ ref.argv < SequenceLength
    /\ LimitsRefuseProcess
    /\ Return(FALSE)
    /\ seen' = IF ref.cleaning THEN [seen EXCEPT !.starved = @ \union {index}]
               ELSE IF limits.cancelled THEN [seen EXCEPT !.killed = @ \union {index}]
               ELSE seen

ProcessAllowed ==
    /\ pc = "check"
    /\ ref.argv < SequenceLength
    /\ ~LimitsRefuseProcess
    /\ limits' = IF ref.cleaning THEN [limits EXCEPT !.cleanups = @ + 1]
                 ELSE [limits EXCEPT !.processes = @ + 1]
    /\ ref' = [ref EXCEPT !.attempted = TRUE]
    /\ GoTo("spawn")
    /\ UNCHANGED <<mode, control, act, logs, records, clocks, faults, seen>>

Spawned ==
    seen' = IF ref.cleaning THEN seen
            ELSE [seen EXCEPT !.started = @ \union {index},
                              !.late = IF limits.cancelled THEN @ + 1 ELSE @]

\* subprocess.run returned; nothing obliges a command to end by itself.
CommandEnds ==
    /\ pc = "spawn"
    /\ \E failing \in BOOLEAN :
          ref' = [ref EXCEPT !.argv = @ + 1, !.nonzero = @ \/ failing]
    /\ Spawned
    /\ GoTo("check")
    /\ UNCHANGED <<mode, control, act, logs, records, limits, clocks, faults>>

\* Deviation: subprocess.run without a timeout.
WaitsForever == FALSE

\* timeout=remaining: the command is killed, TimeoutExpired is caught.
CommandTimesOut ==
    /\ pc = "spawn"
    /\ Return(FALSE)
    /\ Spawned

\* The deadline has passed before a command, or its executable is not there:
\* the sequence ends as failed and nothing was started.
CommandNotStarted ==
    /\ \/ pc = "spawn"
       \/ pc = "check" /\ ref.argv < SequenceLength /\ (ref.cleaning \/ ~limits.cancelled)
    /\ Return(FALSE)
    /\ UNCHANGED seen

\* The inner except clause: provider.cleanup or the emit after it raised.
CleanupRaised ==
    /\ pc = "cleanup_except"
    /\ act' = [act EXCEPT !.cleanup = "cleanup_failed", !.error = TRUE]
    /\ GoTo("cleanup_failed")
    /\ UNCHANGED <<mode, control, ref, logs, records, limits, clocks, faults, seen>>

-----------------------------------------------------------------------------
(* After the lifecycle: the action row, then the reports and the runs row.     *)

RowStatus ==
    IF ~Verified THEN Unsuccessful ELSE IF Simulated THEN "simulated" ELSE "completed"

\* Deviation: only on_failure decides, the kill switch does not.
RecordIgnoringKill ==
    /\ pc = "record"
    /\ Record(Row(RowStatus, act.cleanup, act.detection, act.executed),
              ~Verified /\ OnFailure = "stop")

RecordAction ==
    /\ pc = "record"
    /\ Record(Row(RowStatus, act.cleanup, act.detection, act.executed),
              act.cancelled \/ (~Verified /\ OnFailure = "stop"))

\* Deviation: a denied action does not count as a gap.
FailingIfRun == {"failed", "cancelled"}

Failing == {"failed", "prevented", "cancelled"}

Finish ==
    /\ pc = "finish"
    /\ outcome' =
          IF limits.cancelled THEN "cancelled"
          ELSE IF /\ \A k \in DOMAIN actions : actions[k].status \notin Failing
                  /\ Len(actions) = Len(Steps)
               THEN "completed" ELSE "completed_with_gaps"
    /\ GoTo("write_report")
    /\ UNCHANGED <<mode, index, stop_campaign, raised, act, ref, logs, records, limits,
                   clocks, faults, seen>>

WriteReport ==
    /\ pc = "write_report"
    /\ report' = outcome
    /\ GoTo("artifacts")
    /\ UNCHANGED <<mode, control, act, ref, logs, actions, run_status, limits, clocks,
                   faults, seen>>

\* Scorecard, runbooks, candidates, Attack Flow, bundle and their artifact rows.
WriteArtifacts == pc = "artifacts" /\ Move("finish_run")

FinishRun ==
    /\ pc = "finish_run"
    /\ run_status' = outcome
    /\ GoTo("done")
    /\ UNCHANGED <<mode, control, act, ref, logs, actions, report, limits, clocks,
                   faults, seen>>

\* A file or database write outside emit fails: nothing above run() retries.
WriteError ==
    /\ pc \in {"start", "record_prevented", "record", "write_report", "artifacts",
               "finish_run"}
    /\ Fault
    /\ GoTo("aborted")
    /\ UNCHANGED <<mode, control, act, ref, logs, records, limits, clocks, seen>>

-----------------------------------------------------------------------------
(* Actors beside the run loop.                                                 *)

Cancel ==
    /\ pc \notin FinalPoints
    /\ ~limits.cancelled
    /\ limits' = [limits EXCEPT !.cancelled = TRUE]
    /\ UNCHANGED <<pc, mode, control, act, ref, logs, records, clocks, faults, seen>>

\* The clocks move where run() reads them next: a reading cannot tell when,
\* since the one before it, a limit passed.
ClockPasses ==
    /\ \/ pc \in {"before_action", "check"} /\ overtime' = TRUE /\ UNCHANGED expired
       \/ pc = "authorize" /\ expired' = TRUE /\ UNCHANGED overtime
    /\ UNCHANGED <<pc, mode, control, act, ref, logs, records, limits, faults, seen>>

\* Ctrl-C in the main thread: KeyboardInterrupt, which no clause catches.
Interrupt ==
    /\ pc \notin FinalPoints \union EmitPoints
    /\ Fault
    /\ RaiseUncaught
    /\ IF pc = "spawn" THEN Spawned ELSE UNCHANGED seen
    /\ UNCHANGED <<mode, index, stop_campaign, outcome, act, ref, logs, records, limits,
                   clocks>>

\* The process is killed, perhaps between emit's two writes.
Crash ==
    /\ pc \notin FinalPoints
    /\ Fault
    /\ \/ UNCHANGED timeline
       \/ pc \in EmitPoints /\ timeline' = Append(timeline, Event)
    /\ GoTo("crashed")
    /\ UNCHANGED <<mode, control, act, ref, sequence, parent, stored, records, limits,
                   clocks, seen>>

-----------------------------------------------------------------------------
Init ==
    /\ pc = "start"
    /\ mode \in Modes
    /\ index = 0
    /\ act = FreshAction
    /\ ref = [argv |-> 0, nonzero |-> FALSE, attempted |-> FALSE, cleaning |-> FALSE]
    /\ stop_campaign = FALSE
    /\ raised = FALSE
    /\ outcome = "none"
    /\ sequence = 0 /\ parent = 0
    /\ timeline = <<>> /\ stored = <<>> /\ actions = <<>>
    /\ report = "none" /\ run_status = "none"
    /\ limits \in {[actions |-> u.actions, processes |-> u.processes,
                    cleanups |-> u.cleanups, cancelled |-> FALSE] : u \in PriorUse}
    /\ overtime = FALSE /\ expired = FALSE
    /\ faults = 0
    /\ seen = [started |-> {}, late |-> 0, cleanup_called |-> {}, killed |-> {},
               starved |-> {}]

\* The thread that runs the campaign.
RunLoop ==
    \/ CreateRun \/ NextStep \/ LoopEnds
    \/ Emit
    \/ Authorize \/ RecordPrevented
    \/ BeforeAction \/ Prepare \/ HandleException
    \/ ExecuteSimulated \/ Execute
    \/ CleanupNoop \/ Cleanup \/ CleanupRaised
    \/ SequenceEnds \/ ProcessRefused \/ ProcessAllowed
    \/ CommandTimesOut
    \/ RecordAction \/ Finish \/ WriteReport \/ WriteArtifacts \/ FinishRun

\* What it cannot count on, and what others do to it.
Environment ==
    \/ EmitFileError \/ EmitStoreError \/ WriteError
    \/ PrepareRaises \/ CommandEnds \/ CommandNotStarted
    \/ Cancel \/ ClockPasses
    \/ Interrupt \/ Crash

Finished == pc \in FinalPoints /\ UNCHANGED vars

Next == RunLoop \/ Environment \/ Finished

\* Python schedules the thread, and subprocess.run returns within its timeout.
\* Nothing else is fair: commands, clocks and failures may or may not happen.
Fairness == WF_vars(RunLoop)

Spec == Init /\ [][Next]_vars /\ Fairness
=============================================================================
