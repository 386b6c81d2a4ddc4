-------------------------- MODULE CampaignProperties --------------------------
(* What CampaignRunner is checked for: types, safety, liveness, and that the    *)
(* timeline it leaves behind implements ActionLifecycle.                        *)
EXTENDS CampaignRunner

Statuses == {"completed", "completed_with_gaps", "cancelled"}
EventStates == {"planned", "authorized", "denied", "prepared", "attempted", "simulated",
                "executed", "prevented", "observed", "detected", "missed",
                "detection_pending", "cleanup_started", "cleaned", "cleanup_failed",
                "verified", "cancelled", "failed"}
EventType == [seq : Nat, step : Nat, state : EventStates, parent : Nat]
RowType == [step : Nat, status : {"prevented", "simulated", "completed"} \union Failing,
            cleanup : {"not_required", "cleaned", "cleanup_failed"},
            detection : {"detected", "missed", "not_evaluated", "not_applicable"},
            executed : BOOLEAN]
ActType == [result : {"none", "simulated", "executed", "failed"}, executed : BOOLEAN,
            cleanup : {"not_started", "cleaned", "cleanup_failed"}, error : BOOLEAN,
            cancelled : BOOLEAN, detection : {"detected", "missed", "not_evaluated"}]
RefType == [argv : Nat, nonzero : BOOLEAN, attempted : BOOLEAN, cleaning : BOOLEAN]
LimitsType == [actions : Nat, processes : Nat, cleanups : Nat, cancelled : BOOLEAN]
SeenType == [started : SUBSET Actions, late : Nat, cleanup_called : SUBSET Actions,
             killed : SUBSET Actions, starved : SUBSET Actions]

\* Types of the run's variables, with the states, statuses and outcomes the
\* source declares (LIFECYCLE_STATES, ActionResult, RunStore).
TypeOK ==
    /\ pc \in Points
    /\ mode \in Modes
    /\ index \in 0..Len(Steps)
    /\ act \in ActType /\ ref \in RefType
    /\ limits \in LimitsType /\ seen \in SeenType
    /\ stop_campaign \in BOOLEAN /\ raised \in BOOLEAN
    /\ sequence \in Nat /\ parent \in Nat
    /\ timeline \in Seq(EventType) /\ stored \in Seq(EventType)
    /\ actions \in Seq(RowType)
    /\ outcome \in Statuses \union {"none"}
    /\ report \in Statuses \union {"none"}
    /\ run_status \in Statuses \union {"none", "running"}
    /\ overtime \in BOOLEAN /\ expired \in BOOLEAN
    /\ faults \in 0..MaxFaults

\* Once the kill switch is set at most one more command starts, the one whose
\* checks had already passed (before_process against the subprocess.run after it).
KillSwitchBound == seen.late <= 1

StatesOf(log, i) == {log[k].state : k \in {j \in DOMAIN log : log[j].step = i}}

\* A command starts only after the whole intent is durable in the database:
\* planned, authorized, prepared and attempted are stored before subprocess.run.
EvidenceBeforeExecution ==
    \A i \in seen.started :
        {"planned", "authorized", "prepared", "attempted"} \subseteq StatesOf(stored, i)

\* An action that started a command has had provider.cleanup called before run()
\* gets past it: what is left open is the current action, before its cleanup or
\* in a run that an exception or a crash ended.
CleanupBeforeNext ==
    \A i \in seen.started \ seen.cleanup_called :
        /\ i = index
        /\ InTry \/ pc \in {"handler", "cleanup_started", "cleanup", "aborted", "crashed"}

FullLifecycle ==
    << {"planned"}, {"authorized"}, {"prepared"}, {"attempted"}, {"simulated", "executed"},
       {"observed"}, {"detected", "missed", "detection_pending"}, {"cleanup_started"},
       {"cleaned"}, {"verified"} >>

\* The ten events of a complete lifecycle of action i, in order and chained.
Evidenced(log, i) ==
    \E first \in DOMAIN log :
        \A d \in 1..10 :
            LET k == first + d - 1
            IN  /\ k \in DOMAIN log
                /\ log[k].step = i
                /\ log[k].state \in FullLifecycle[d]
                /\ log[k].parent = IF d = 1 THEN 0 ELSE log[k - 1].seq

\* An action row that says simulated or completed has its complete, chained
\* lifecycle in the timeline file and in the database, whatever was lost elsewhere.
VerifiedIsEvidenced ==
    \A k \in DOMAIN actions :
        actions[k].status \in {"simulated", "completed"} =>
            /\ Evidenced(timeline, actions[k].step)
            /\ Evidenced(stored, actions[k].step)

Chained(log) ==
    \A k \in DOMAIN log :
        IF log[k].state = "planned"
        THEN log[k].parent = 0
        ELSE \E j \in 1..(k - 1) : log[j].seq = log[k].parent /\ log[j].step = log[k].step

\* parent_event_id names an earlier event of the same action in either log, also
\* when an event in between was lost to a failed write.
CausalChain == Chained(timeline) /\ Chained(stored)

\* The database never knows an event the timeline file lacks, and lacks at most
\* one event for each failure.
StoreFollowsTimeline ==
    /\ \A k \in DOMAIN stored : \E j \in DOMAIN timeline : timeline[j] = stored[k]
    /\ Len(timeline) - Len(stored) <= faults

\* Rows are in campaign order, and after a cancelled action, or a failed or
\* prevented one with on_failure stop, no event of a later action exists.
StopEndsCampaign ==
    \A k \in DOMAIN actions :
        /\ actions[k].step = k
        /\ (\/ actions[k].status = "cancelled"
            \/ actions[k].status \in Failing /\ Steps[k].on_failure = "stop")
           => \A j \in DOMAIN timeline : timeline[j].step <= k

\* A run the database calls completed has a verified row for every step, no failed
\* cleanup anywhere in its timeline, and a report that says the same.
CompletedMeansAll ==
    run_status = "completed" =>
        /\ Len(actions) = Len(Steps)
        /\ \A k \in DOMAIN actions : actions[k].status \in {"simulated", "completed"}
        /\ \A j \in DOMAIN timeline : timeline[j].state # "cleanup_failed"
        /\ report = "completed"

\* Whatever writes fail, the logs are evidence of what was run: nothing starts before its
\* intent is stored, what a row calls simulated or completed is all in both logs, and the
\* database follows the file.
LogsAreEvidence == EvidenceBeforeExecution /\ VerifiedIsEvidenced /\ StoreFollowsTimeline

\* A run's rows and its status tell what became of it: what ends a campaign ended it, and
\* completed means that every step was.
StatusTellsRun == StopEndsCampaign /\ CompletedMeansAll

\* The cleanup commands of the first i steps.
CleanupTotal[i \in 0..Len(Steps)] ==
    IF i = 0 THEN 0 ELSE CleanupTotal[i - 1] + CleanupArgv[Steps[i].ability]

TotalCleanup == CleanupTotal[Len(Steps)]

\* When max_processes covers the campaign's cleanup commands, no cleanup is ever
\* refused one, however many commands ran, failed or were cancelled before it.
ReserveSuffices ==
    (\A use \in PriorUse : use.cleanups + TotalCleanup <= MaxProcesses) => seen.starved = {}

\* Cleanup is documented as mandatory: a run that ended without being killed has
\* called provider.cleanup for every action that started a command.
CleanupAttempted == pc \in {"done", "aborted"} => seen.started \subseteq seen.cleanup_called

\* Every run ends: no command outlives its timeout, nothing waits for anything.
Termination == <>(pc \in FinalPoints)

-----------------------------------------------------------------------------
(* The timeline implements ActionLifecycle.                                    *)

Executions == {"simulated", "executed"}
Outcomes   == {"detected", "missed", "detection_pending"}

Lasts(log, i) == {k \in DOMAIN log : /\ log[k].step = i
                                     /\ k = Len(log) \/ log[k + 1].step # i}

LastOf(log, i) == CHOOSE k \in Lasts(log, i) : TRUE

\* An action's events stand together, so its last one ends the log or precedes
\* another action's.  It is told apart by the one before it where failed and
\* cancelled are recorded at several points of an action.
PhaseAt(log, k) ==
    LET state == log[k].state
    IN  CASE state = "cleanup_started" -> "cleaning"
          [] state \in TryPoints \union Executions \union Outcomes -> "active"
          [] state \in {"failed", "cancelled"} ->
                LET before == log[k - 1].state
                IN  IF before \in {"cleaned", "cleanup_failed"} THEN state
                    ELSE IF before = "authorized" THEN before ELSE "active"
          [] OTHER -> state

PhaseOf(log, i) ==
    IF \A k \in DOMAIN log : log[k].step # i THEN "absent" ELSE PhaseAt(log, LastOf(log, i))

\* Actions whose outcome was recorded right after their execution.
Evaluated(log) ==
    {log[k].step : k \in
        {j \in DOMAIN log : /\ log[j].state \in Outcomes
                            /\ log[j - 1].state = "observed"
                            /\ log[j - 2].state \in Executions}}

Lifecycle == INSTANCE ActionLifecycle
                WITH N <- Len(Steps),
                     phase <- [i \in Actions |-> PhaseOf(timeline, i)],
                     evidence <- Evaluated(timeline)

\* Whatever fails, the timeline file only ever shows the promised lifecycle.
TimelineIsLifecycle == Lifecycle!LifecycleSpec
=============================================================================
