---------------------------- MODULE CampaignProofs ----------------------------
(* Proofs about CampaignRunner for every campaign, every budget and every bound *)
(* on faults: its types, what the kill switch bounds, the causal chain and the  *)
(* place of cleanup; then what a run leaves behind, that its logs are evidence  *)
(* of what was run, that its rows and its status tell what became of it, that   *)
(* its cleanups are never starved, and that its timeline implements             *)
(* ActionLifecycle.                                                             *)
EXTENDS CampaignProperties, WellFoundedInduction, TLAPS

\* Points of the loop body: run() is at an action of the campaign.
AtAction == Points \ ({"start", "next", "finish", "write_report", "artifacts", "finish_run"}
                      \union FinalPoints)

\* What the type invariant needs to be inductive: the locals read later in the
\* loop body have been assigned on every path that gets there.
Assigned ==
    /\ pc \in AtAction => index \in Actions
    /\ pc = "executed" => act.result # "none"
    /\ pc \in {"cleaned", "cleanup_failed", "verify", "record"} => act.cleanup # "not_started"

TypeInv == TypeOK /\ Assigned

\* The indices of the loop are natural numbers.
LEMMA IndexIsNat == ASSUME TypeOK PROVE index \in Nat
<1>1. Len(Steps) \in Nat
  BY CampaignAssumption
<1> QED
  BY <1>1 DEF TypeOK

LEMMA AppendTyped ==
    ASSUME NEW S, NEW log \in Seq(S), NEW entry \in S
    PROVE  Append(log, entry) \in Seq(S)
  OBVIOUS

\* The event emit appends is well typed.
LEMMA EventTyped ==
    ASSUME TypeInv, pc \in EmitPoints
    PROVE  Event \in EventType
<1>1. EventState \in EventStates
  <2>1. pc \in AtAction /\ index \in Actions
    BY DEF TypeInv, Assigned, AtAction, Points, EmitPoints, TryPoints, FinalPoints
  <2>2. Ability \in Abilities
    BY <2>1 DEF Ability, Abilities
  <2>3. Detections[Ability] \in {"detected", "missed", "not_evaluated"}
    BY <2>2, CampaignAssumption
  <2>4. act.result \in {"none", "simulated", "executed", "failed"}
        /\ act.cleanup \in {"not_started", "cleaned", "cleanup_failed"}
    BY DEF TypeInv, TypeOK, ActType
  <2> QED
    BY <2>3, <2>4 DEF TypeInv, Assigned, EventState, EventStates, Unsuccessful,
       EmitPoints, TryPoints
<1>2. sequence + 1 \in Nat /\ parent \in Nat /\ index \in Nat
  BY IndexIsNat DEF TypeInv, TypeOK
<1> QED
  BY <1>1, <1>2 DEF Event, EventType

\* Where run() goes after an event keeps what Assigned says.
LEMMA FollowingPoint ==
    ASSUME TypeInv, pc \in EmitPoints
    PROVE  /\ Following \in Points \ {"executed", "cleaned", "cleanup_failed"}
           /\ Following \in {"verify", "record"} => pc \in {"cleaned", "cleanup_failed", "verify"}
<1>1. CASE pc \in {"planned", "denied", "prevented", "authorized", "prepared", "attempted"}
  BY <1>1 DEF Following, Points, EmitPoints, TryPoints
<1>2. CASE pc \in {"executed", "observed", "detection", "handler", "cleanup_started"}
  BY <1>2 DEF Following, Points, EmitPoints, TryPoints
<1>3. CASE pc \in {"cleaned", "cleanup_failed", "verify"}
  BY <1>3 DEF Following, Points, EmitPoints, TryPoints, FinalPoints
<1> QED
  BY <1>1, <1>2, <1>3 DEF EmitPoints, TryPoints

-----------------------------------------------------------------------------
(* Types.                                                                      *)

LEMMA TypeInit == Init => TypeInv
<1> SUFFICES ASSUME Init PROVE TypeInv
  OBVIOUS
<1>1. act \in ActType
  BY DEF Init, FreshAction, ActType
<1>2. ref \in RefType
  BY DEF Init, RefType
<1>3. limits \in LimitsType
  <2>1. PICK u \in PriorUse : limits = [actions |-> u.actions, processes |-> u.processes,
                                       cleanups |-> u.cleanups, cancelled |-> FALSE]
    BY DEF Init
  <2>2. u \in [actions : Nat, processes : Nat, cleanups : Nat]
    BY CampaignAssumption
  <2> QED
    BY <2>1, <2>2 DEF LimitsType
<1>4. seen \in SeenType
  BY DEF Init, SeenType
<1>5. Len(Steps) \in Nat
  BY CampaignAssumption
<1>6. pc = "start" /\ mode \in Modes /\ index = 0 /\ timeline = <<>> /\ stored = <<>>
      /\ actions = <<>> /\ faults = 0
  BY DEF Init
<1>7. timeline \in Seq(EventType) /\ stored \in Seq(EventType) /\ actions \in Seq(RowType)
  BY <1>6
<1>8. faults \in 0..MaxFaults /\ index \in 0..Len(Steps)
  BY <1>5, <1>6, CampaignAssumption
<1> QED
  BY <1>1, <1>2, <1>3, <1>4, <1>6, <1>7, <1>8
     DEF Init, TypeInv, TypeOK, Assigned, Points, AtAction, Statuses, EmitPoints, TryPoints,
         FinalPoints

\* A finished command sequence assigns the local its caller reads next.
LEMMA ReturnTyped ==
    ASSUME TypeOK, NEW ok, Return(ok)
    PROVE  /\ act' \in ActType
           /\ \/ pc' = "cleaned" /\ act'.cleanup # "not_started"
              \/ pc' = "executed" /\ act'.result # "none"
<1>1. ref.cleaning \in BOOLEAN /\ ref.attempted \in BOOLEAN
  BY DEF TypeOK, RefType
<1>2. CASE ref.cleaning
  BY <1>2 DEF Return, GoTo, TypeOK, ActType
<1>3. CASE ~ref.cleaning
  <2>1. /\ \/ act' = [act EXCEPT !.result = "executed", !.executed = ref.attempted]
           \/ act' = [act EXCEPT !.result = "failed", !.executed = ref.attempted]
        /\ pc' = "executed"
    BY <1>3 DEF Return, GoTo
  <2> QED
    BY <1>1, <2>1 DEF TypeOK, ActType
<1> QED
  BY <1>2, <1>3

LEMMA SpawnedTyped ==
    ASSUME TypeOK, index \in Actions, Spawned
    PROVE  seen' \in SeenType
<1>1. seen.late + 1 \in Nat /\ seen.started \union {index} \in SUBSET Actions
  BY DEF TypeOK, SeenType
<1> QED
  BY <1>1 DEF Spawned, TypeOK, SeenType

LEMMA TypeStep == TypeInv /\ [Next]_vars => TypeInv'
<1> SUFFICES ASSUME TypeInv, [Next]_vars PROVE TypeInv'
  OBVIOUS
<1> USE DEF TypeInv, control, logs, records, clocks, GoTo, Move, AtAction, Points,
            FinalPoints, EmitPoints, TryPoints
<1>0. /\ index \in Nat
      /\ pc \in AtAction => index \in Actions
  BY IndexIsNat DEF Assigned
<1>a. Len(Steps) \in Nat /\ Actions = 1..Len(Steps)
  BY CampaignAssumption DEF Actions
<1>1. CASE RunLoop
  <2>1. CASE CreateRun
    BY <2>1 DEF CreateRun, TypeOK, Assigned
  <2>2. CASE NextStep
    <3>1. act' \in ActType /\ ref' \in RefType
      BY <2>2 DEF NextStep, FreshAction, ActType, RefType, TypeOK
    <3> QED
      BY <2>2, <3>1, <1>0, <1>a DEF NextStep, TypeOK, Assigned
  <2>3. CASE LoopEnds
    BY <2>3 DEF LoopEnds, TypeOK, Assigned
  <2>4. CASE Emit
    <3>1. act' \in ActType /\ act'.cleanup = act.cleanup
      <4>1. CASE pc = "detection"
        <5>1. Detections[Ability] \in {"detected", "missed", "not_evaluated"}
          BY <4>1, <1>0, CampaignAssumption DEF Ability, Abilities
        <5> QED
          BY <2>4, <4>1, <5>1 DEF Emit, ActType, TypeOK
      <4>2. CASE pc # "detection"
        BY <2>4, <4>2 DEF Emit, TypeOK
      <4> QED
        BY <4>1, <4>2
    <3>2. /\ pc' = Following /\ pc' \in Points \ {"executed", "cleaned", "cleanup_failed"}
          /\ pc' \in {"verify", "record"} => act'.cleanup # "not_started"
          /\ pc \in EmitPoints /\ index \in Actions
      BY <2>4, <3>1, <1>0, FollowingPoint DEF Emit, Assigned
    <3>3. timeline' \in Seq(EventType) /\ stored' \in Seq(EventType)
      BY <2>4, EventTyped DEF Emit, TypeOK
    <3>4. TypeOK'
      BY <2>4, <3>1, <3>2, <3>3 DEF Emit, TypeOK
    <3>5. Assigned'
      BY <2>4, <3>1, <3>2, <1>a DEF Emit, Assigned
    <3> QED
      BY <3>4, <3>5
  <2>5. CASE Authorize
    BY <2>5 DEF Authorize, TypeOK, Assigned
  <2>6. CASE RecordPrevented
    <3>1. Row("prevented", "not_required", "not_applicable", FALSE) \in RowType
      BY <1>0 DEF Row, RowType
    <3>2. actions' \in Seq(RowType)
      <4>1. actions' = Append(actions, Row("prevented", "not_required", "not_applicable", FALSE))
        BY <2>6, Zenon DEF RecordPrevented, Record
      <4> QED
        BY <3>1, <4>1, AppendTyped, Zenon DEF TypeOK
    <3> QED
      BY <2>6, <3>2 DEF RecordPrevented, Record, TypeOK, Assigned
  <2>7. CASE BeforeAction
    <3>1. limits' \in LimitsType
      BY <2>7 DEF BeforeAction, TypeOK, LimitsType
    <3> QED
      BY <2>7, <3>1, <1>0 DEF BeforeAction, Raise, TypeOK, Assigned
  <2>8. CASE Prepare
    BY <2>8 DEF Prepare, TypeOK, Assigned
  <2>9. CASE HandleException
    <3>1. act' \in ActType
      BY <2>9 DEF HandleException, TypeOK, ActType, LimitsType
    <3> QED
      BY <2>9, <3>1 DEF HandleException, TypeOK, Assigned
  <2>10. CASE ExecuteSimulated
    <3>1. act' \in ActType /\ act'.result # "none"
      BY <2>10 DEF ExecuteSimulated, TypeOK, ActType
    <3> QED
      BY <2>10, <3>1 DEF ExecuteSimulated, TypeOK, Assigned
  <2>11. CASE Execute
    <3>1. ref' \in RefType
      BY <2>11 DEF Execute, BeginSequence, RefType
    <3> QED
      BY <2>11, <3>1 DEF Execute, BeginSequence, TypeOK, Assigned
  <2>12. CASE CleanupNoop
    <3>1. act' \in ActType /\ act'.cleanup # "not_started"
      BY <2>12 DEF CleanupNoop, TypeOK, ActType
    <3>2. seen' \in SeenType
      BY <2>12, <1>0 DEF CleanupNoop, CleanupCalled, TypeOK, SeenType
    <3> QED
      BY <2>12, <3>1, <3>2 DEF CleanupNoop, TypeOK, Assigned
  <2>13. CASE Cleanup
    <3>1. ref' \in RefType
      BY <2>13 DEF Cleanup, BeginSequence, RefType
    <3>2. seen' \in SeenType
      BY <2>13, <1>0 DEF Cleanup, CleanupCalled, TypeOK, SeenType
    <3> QED
      BY <2>13, <3>1, <3>2 DEF Cleanup, BeginSequence, TypeOK, Assigned
  <2>14. CASE CleanupRaised
    <3>1. act' \in ActType /\ act'.cleanup # "not_started"
      BY <2>14 DEF CleanupRaised, TypeOK, ActType
    <3> QED
      BY <2>14, <3>1 DEF CleanupRaised, TypeOK, Assigned
  <2>15. CASE SequenceEnds
    <3>1. Return(~ref.nonzero)
      BY <2>15 DEF SequenceEnds
    <3> QED
      BY <2>15, <3>1, ReturnTyped DEF SequenceEnds, Return, TypeOK, Assigned
  <2>16. CASE ProcessRefused
    <3>1. seen' \in SeenType
      BY <2>16, <1>0 DEF ProcessRefused, TypeOK, SeenType
    <3>2. Return(FALSE)
      BY <2>16 DEF ProcessRefused
    <3> QED
      BY <2>16, <3>1, <3>2, ReturnTyped DEF ProcessRefused, Return, TypeOK, Assigned
  <2>17. CASE ProcessAllowed
    <3>1. limits' \in LimitsType
      <4>1. limits.cleanups + 1 \in Nat /\ limits.processes + 1 \in Nat
        BY DEF TypeOK, LimitsType
      <4>2. CASE ref.cleaning
        BY <2>17, <4>1, <4>2 DEF ProcessAllowed, TypeOK, LimitsType
      <4>3. CASE ~ref.cleaning
        BY <2>17, <4>1, <4>3 DEF ProcessAllowed, TypeOK, LimitsType
      <4> QED
        BY <4>2, <4>3
    <3>2. ref' \in RefType
      BY <2>17 DEF ProcessAllowed, TypeOK, RefType
    <3> QED
      BY <2>17, <3>1, <3>2 DEF ProcessAllowed, TypeOK, Assigned
  <2>18. CASE CommandTimesOut
    <3>1. seen' \in SeenType
      BY <2>18, <1>0, SpawnedTyped DEF CommandTimesOut
    <3>2. Return(FALSE)
      BY <2>18 DEF CommandTimesOut
    <3> QED
      BY <2>18, <3>1, <3>2, ReturnTyped DEF CommandTimesOut, Return, TypeOK, Assigned
  <2>19. CASE RecordAction
    <3>1. Row(RowStatus, act.cleanup, act.detection, act.executed) \in RowType
      BY <2>19, <1>0 DEF RecordAction, Row, RowType, RowStatus, Unsuccessful, Failing,
         TypeOK, ActType, Assigned
    <3>2. stop_campaign' \in BOOLEAN
      BY <2>19 DEF RecordAction, Record, OnFailure, TypeOK, ActType
    <3>3. actions' \in Seq(RowType)
      BY <2>19, <3>1 DEF RecordAction, Record, TypeOK
    <3> QED
      BY <2>19, <3>2, <3>3 DEF RecordAction, Record, TypeOK, Assigned
  <2>20. CASE Finish
    BY <2>20 DEF Finish, TypeOK, Assigned, Statuses
  <2>21. CASE WriteReport
    BY <2>21 DEF WriteReport, TypeOK, Assigned
  <2>22. CASE WriteArtifacts
    BY <2>22 DEF WriteArtifacts, TypeOK, Assigned
  <2>23. CASE FinishRun
    BY <2>23 DEF FinishRun, TypeOK, Assigned
  <2> QED
    BY <1>1, <2>1, <2>2, <2>3, <2>4, <2>5, <2>6, <2>7, <2>8, <2>9, <2>10, <2>11, <2>12,
       <2>13, <2>14, <2>15, <2>16, <2>17, <2>18, <2>19, <2>20, <2>21, <2>22, <2>23
       DEF RunLoop
<1>2. CASE Environment
  <2>1. CASE EmitFileError
    <3>1. pc' \in {"cleanup_except", "cleanup_started", "except", "aborted"} /\ raised' \in BOOLEAN
      BY <2>1 DEF EmitFileError, Raise, RaiseUncaught, TypeOK
    <3>2. faults' \in 0..MaxFaults
      BY <2>1, CampaignAssumption DEF EmitFileError, Fault, TypeOK
    <3> QED
      BY <2>1, <3>1, <3>2, <1>0 DEF EmitFileError, TypeOK, Assigned
  <2>2. CASE EmitStoreError
    <3>1. pc' \in {"cleanup_started", "aborted"} /\ raised' \in BOOLEAN
      BY <2>2 DEF EmitStoreError, RaiseUncaught, TypeOK
    <3>2. faults' \in 0..MaxFaults
      BY <2>2, CampaignAssumption DEF EmitStoreError, Fault, TypeOK
    <3>3. timeline' \in Seq(EventType)
      BY <2>2, EventTyped DEF EmitStoreError, TypeOK
    <3> QED
      BY <2>2, <3>1, <3>2, <3>3, <1>0 DEF EmitStoreError, TypeOK, Assigned
  <2>3. CASE WriteError
    BY <2>3, CampaignAssumption DEF WriteError, Fault, TypeOK, Assigned
  <2>4. CASE PrepareRaises
    <3>1. seen' \in SeenType
      BY <2>4, <1>0 DEF PrepareRaises, CleanupCalled, TypeOK, SeenType
    <3> QED
      BY <2>4, <3>1, <1>0 DEF PrepareRaises, TypeOK, Assigned
  <2>5. CASE CommandEnds
    <3>1. ref' \in RefType
      <4>1. PICK failing \in BOOLEAN :
                ref' = [ref EXCEPT !.argv = @ + 1, !.nonzero = @ \/ failing]
        BY <2>5 DEF CommandEnds
      <4>2. ref.argv + 1 \in Nat
        BY DEF TypeOK, RefType
      <4>3. (ref.nonzero \/ failing) \in BOOLEAN
        BY Zenon
      <4> QED
        BY <4>1, <4>2, <4>3, Zenon DEF TypeOK, RefType
    <3>2. seen' \in SeenType
      BY <2>5, <1>0, SpawnedTyped DEF CommandEnds
    <3> QED
      BY <2>5, <3>1, <3>2, <1>0 DEF CommandEnds, TypeOK, Assigned
  <2>6. CASE CommandNotStarted
    <3>1. Return(FALSE)
      BY <2>6 DEF CommandNotStarted
    <3> QED
      BY <2>6, <3>1, ReturnTyped DEF CommandNotStarted, Return, TypeOK, Assigned
  <2>7. CASE Cancel
    <3>1. limits' \in LimitsType
      BY <2>7 DEF Cancel, TypeOK, LimitsType
    <3> QED
      BY <2>7, <3>1 DEF Cancel, TypeOK, Assigned
  <2>8. CASE ClockPasses
    <3>1. overtime' \in BOOLEAN /\ expired' \in BOOLEAN
      BY <2>8 DEF ClockPasses, TypeOK
    <3> QED
      BY <2>8, <3>1 DEF ClockPasses, TypeOK, Assigned
  <2>9. CASE Interrupt
    <3>1. seen' \in SeenType
      BY <2>9, <1>0, SpawnedTyped DEF Interrupt, TypeOK
    <3>2. pc' \in {"cleanup_started", "aborted"} /\ raised' \in BOOLEAN
      BY <2>9 DEF Interrupt, RaiseUncaught, TypeOK
    <3>3. faults' \in 0..MaxFaults
      BY <2>9, CampaignAssumption DEF Interrupt, Fault, TypeOK
    <3>4. pc' = "cleanup_started" => pc \in AtAction
      BY <2>9 DEF Interrupt, RaiseUncaught, InTry
    <3> QED
      BY <2>9, <3>1, <3>2, <3>3, <3>4, <1>0, <1>a DEF Interrupt, TypeOK, Assigned
  <2>10. CASE Crash
    <3>1. timeline' \in Seq(EventType)
      BY <2>10, EventTyped DEF Crash, TypeOK
    <3>2. faults' \in 0..MaxFaults
      BY <2>10, CampaignAssumption DEF Crash, Fault, TypeOK
    <3> QED
      BY <2>10, <3>1, <3>2 DEF Crash, TypeOK, Assigned
  <2> QED
    BY <1>2, <2>1, <2>2, <2>3, <2>4, <2>5, <2>6, <2>7, <2>8, <2>9, <2>10 DEF Environment
<1>3. CASE UNCHANGED vars
  BY <1>3 DEF vars, TypeOK, Assigned
<1> QED
  BY <1>1, <1>2, <1>3 DEF Next, Finished

\* Every reachable state of a run is well typed, for every campaign.
THEOREM TypeCorrect == Spec => []TypeOK
<1>1. TypeInv => TypeOK
  BY DEF TypeInv
<1> QED
  BY <1>1, TypeInit, TypeStep, PTL DEF Spec

-----------------------------------------------------------------------------
(* The kill switch.                                                            *)

\* No command is late before the switch is set, nor while one whose checks the
\* switch did not stop is still to start; the check stops every later one.
KillInv ==
    /\ seen.late <= 1
    /\ ~limits.cancelled => seen.late = 0
    /\ pc = "spawn" /\ ~ref.cleaning => seen.late = 0

\* A step that starts no command and does not touch the switch.
LEMMA QuietStep ==
    ASSUME KillInv, seen'.late = seen.late, limits'.cancelled = limits.cancelled, pc' # "spawn"
    PROVE  KillInv'
  BY DEF KillInv

\* A step in which the command that passed its checks starts.
LEMMA SpawnStep ==
    ASSUME TypeOK, KillInv, Spawned, pc = "spawn", pc' # "spawn", limits' = limits
    PROVE  KillInv'
<1>1. seen \in SeenType /\ seen.late \in Nat
  BY DEF TypeOK, SeenType
<1>2. CASE ref.cleaning
  BY <1>1, <1>2 DEF KillInv, Spawned
<1>3. CASE ~ref.cleaning
  <2>1. seen'.late = IF limits.cancelled THEN seen.late + 1 ELSE seen.late
    BY <1>1, <1>3 DEF Spawned, SeenType
  <2> QED
    BY <1>3, <2>1 DEF KillInv
<1> QED
  BY <1>2, <1>3

LEMMA KillStep == TypeInv /\ KillInv /\ [Next]_vars => KillInv'
<1> SUFFICES ASSUME TypeInv, KillInv, [Next]_vars PROVE KillInv'
  OBVIOUS
<1> USE DEF GoTo, Move
<1>0. limits \in LimitsType /\ seen \in SeenType /\ ref \in RefType
  BY DEF TypeInv, TypeOK
<1>1. CASE RunLoop
  <2>1. CASE CreateRun
    BY <2>1, QuietStep DEF CreateRun
  <2>2. CASE NextStep
    BY <2>2, QuietStep DEF NextStep
  <2>3. CASE LoopEnds
    BY <2>3, QuietStep DEF LoopEnds
  <2>4. CASE Emit
    <3>1. pc' # "spawn"
      BY <2>4, FollowingPoint DEF Emit, Following, EmitPoints, TryPoints
    <3> QED
      BY <2>4, <3>1, QuietStep DEF Emit
  <2>5. CASE Authorize
    BY <2>5, QuietStep DEF Authorize
  <2>6. CASE RecordPrevented
    BY <2>6, QuietStep DEF RecordPrevented, Record
  <2>7. CASE BeforeAction
    <3>1. limits'.cancelled = limits.cancelled
      BY <2>7, <1>0 DEF BeforeAction, LimitsType
    <3> QED
      BY <2>7, <3>1, QuietStep DEF BeforeAction, Raise
  <2>8. CASE Prepare
    BY <2>8, QuietStep DEF Prepare
  <2>9. CASE HandleException
    BY <2>9, QuietStep DEF HandleException
  <2>10. CASE ExecuteSimulated
    BY <2>10, QuietStep DEF ExecuteSimulated
  <2>11. CASE Execute
    BY <2>11, QuietStep DEF Execute, BeginSequence
  <2>12. CASE CleanupNoop
    BY <2>12, <1>0, QuietStep DEF CleanupNoop, CleanupCalled, SeenType
  <2>13. CASE Cleanup
    BY <2>13, <1>0, QuietStep DEF Cleanup, CleanupCalled, BeginSequence, SeenType
  <2>14. CASE CleanupRaised
    BY <2>14, QuietStep DEF CleanupRaised
  <2>15. CASE SequenceEnds
    BY <2>15, QuietStep DEF SequenceEnds, Return
  <2>16. CASE ProcessRefused
    <3>1. seen'.late = seen.late
      BY <2>16, <1>0 DEF ProcessRefused, SeenType
    <3> QED
      BY <2>16, <3>1, QuietStep DEF ProcessRefused, Return
  <2>17. CASE ProcessAllowed
    <3>1. limits'.cancelled = limits.cancelled /\ ref'.cleaning = ref.cleaning
      BY <2>17, <1>0 DEF ProcessAllowed, LimitsType, RefType
    <3>2. seen' = seen
      BY <2>17 DEF ProcessAllowed
    <3>3. ref.cleaning \/ ~limits.cancelled
      BY <2>17 DEF ProcessAllowed, LimitsRefuseProcess
    <3> QED
      BY <3>1, <3>2, <3>3 DEF KillInv
  <2>18. CASE CommandTimesOut
    BY <2>18, SpawnStep DEF CommandTimesOut, Return, TypeInv
  <2>19. CASE RecordAction
    BY <2>19, QuietStep DEF RecordAction, Record
  <2>20. CASE Finish
    BY <2>20, QuietStep DEF Finish
  <2>21. CASE WriteReport
    BY <2>21, QuietStep DEF WriteReport
  <2>22. CASE WriteArtifacts
    BY <2>22, QuietStep DEF WriteArtifacts
  <2>23. CASE FinishRun
    BY <2>23, QuietStep DEF FinishRun
  <2> QED
    BY <1>1, <2>1, <2>2, <2>3, <2>4, <2>5, <2>6, <2>7, <2>8, <2>9, <2>10, <2>11, <2>12,
       <2>13, <2>14, <2>15, <2>16, <2>17, <2>18, <2>19, <2>20, <2>21, <2>22, <2>23
       DEF RunLoop
<1>2. CASE Environment
  <2>1. CASE EmitFileError
    BY <2>1, QuietStep DEF EmitFileError, Raise, RaiseUncaught
  <2>2. CASE EmitStoreError
    BY <2>2, QuietStep DEF EmitStoreError, RaiseUncaught
  <2>3. CASE WriteError
    BY <2>3, QuietStep DEF WriteError
  <2>4. CASE PrepareRaises
    BY <2>4, <1>0, QuietStep DEF PrepareRaises, CleanupCalled, SeenType
  <2>5. CASE CommandEnds
    <3>1. ref \in RefType /\ pc' = "check" /\ Spawned /\ pc = "spawn" /\ limits' = limits
      BY <2>5, <1>0 DEF CommandEnds
    <3> QED
      BY <3>1, SpawnStep DEF TypeInv
  <2>6. CASE CommandNotStarted
    BY <2>6, QuietStep DEF CommandNotStarted, Return
  <2>7. CASE Cancel
    BY <2>7, <1>0 DEF Cancel, KillInv, LimitsType, SeenType
  <2>8. CASE ClockPasses
    BY <2>8, QuietStep DEF ClockPasses
  <2>9. CASE Interrupt
    <3>1. pc' # "spawn" /\ limits' = limits
      BY <2>9 DEF Interrupt, RaiseUncaught
    <3>2. CASE pc = "spawn"
      BY <2>9, <3>1, <3>2, SpawnStep DEF Interrupt, TypeInv
    <3>3. CASE pc # "spawn"
      BY <2>9, <3>1, <3>3, QuietStep DEF Interrupt
    <3> QED
      BY <3>2, <3>3
  <2>10. CASE Crash
    BY <2>10, QuietStep DEF Crash
  <2> QED
    BY <1>2, <2>1, <2>2, <2>3, <2>4, <2>5, <2>6, <2>7, <2>8, <2>9, <2>10 DEF Environment
<1>3. CASE UNCHANGED vars
  BY <1>3 DEF vars, KillInv
<1> QED
  BY <1>1, <1>2, <1>3 DEF Next, Finished

\* Whenever the kill switch is set, at most one command starts after it: the one
\* whose look at the switch came before.
THEOREM KillSwitchBounded == Spec => []KillSwitchBound
<1>1. Init => KillInv
  BY DEF Init, KillInv
<1>2. KillInv => KillSwitchBound
  BY DEF KillInv, KillSwitchBound
<1> QED
  BY <1>1, <1>2, TypeInit, TypeStep, KillStep, PTL DEF Spec

-----------------------------------------------------------------------------
(* The causal chain.                                                           *)

\* log holds the event parent_id names, recorded for the current action.
HoldsParent(log) == \E j \in DOMAIN log : log[j].seq = parent /\ log[j].step = index

\* Past the first event of an action, parent_id is known to both logs.
ChainInv ==
    /\ CausalChain
    /\ pc \in AtAction \ {"planned"} => HoldsParent(timeline) /\ HoldsParent(stored)

LEMMA PlannedEvent == ASSUME TypeInv, pc \in EmitPoints PROVE
    (Event.state = "planned") <=> (pc = "planned")
<1>1. Event.state = EventState
  BY DEF Event
<1>2. CASE pc = "planned"
  BY <1>1, <1>2 DEF EventState
<1>3. CASE pc = "detection"
  <2>1. pc \in AtAction
    BY <1>3 DEF AtAction, Points, EmitPoints, TryPoints, FinalPoints
  <2>2. Detections[Ability] \in {"detected", "missed", "not_evaluated"}
    BY <2>1, CampaignAssumption DEF TypeInv, Assigned, Ability, Abilities
  <2> QED
    BY <1>1, <1>3, <2>2 DEF EventState
<1>4. CASE pc \notin {"planned", "detection"}
  <2>1. act \in ActType
    BY DEF TypeInv, TypeOK
  <2>2. act.result # "planned" /\ act.cleanup # "planned"
    BY <2>1 DEF ActType
  <2> QED
    BY <1>1, <1>4, <2>2 DEF EventState, EmitPoints, TryPoints, Unsuccessful
<1> QED
  BY <1>2, <1>3, <1>4

\* An event appended under a parent the log holds keeps the log chained, and the
\* parent held.
LEMMA AppendChained ==
    ASSUME TypeInv, pc \in EmitPoints, NEW log \in Seq(EventType), Chained(log),
           pc # "planned" => HoldsParent(log)
    PROVE  /\ Chained(Append(log, Event))
           /\ \E j \in DOMAIN Append(log, Event) :
                  /\ Append(log, Event)[j].seq = sequence + 1
                  /\ Append(log, Event)[j].step = index
           /\ HoldsParent(log) => HoldsParent(Append(log, Event))
<1> DEFINE new == Append(log, Event)
<1>1. Event \in EventType
  BY EventTyped
<1>2. /\ new \in Seq(EventType) /\ Len(new) = Len(log) + 1
      /\ DOMAIN new = 1..(Len(log) + 1) /\ DOMAIN log = 1..Len(log)
      /\ \A j \in DOMAIN log : new[j] = log[j]
      /\ new[Len(log) + 1] = Event
  BY <1>1
<1>3. Event.seq = sequence + 1 /\ Event.step = index
      /\ Event.parent = IF pc = "planned" THEN 0 ELSE parent
  BY DEF Event
<1> HIDE DEF new
<1>4. ASSUME NEW k \in DOMAIN new
      PROVE  IF new[k].state = "planned"
             THEN new[k].parent = 0
             ELSE \E j \in 1..(k - 1) : new[j].seq = new[k].parent /\ new[j].step = new[k].step
  <2>1. CASE k \in DOMAIN log
    <3>1. new[k] = log[k] /\ \A j \in 1..(k - 1) : j \in DOMAIN log /\ new[j] = log[j]
      BY <1>2, <2>1
    <3> QED
      BY <2>1, <3>1 DEF Chained
  <2>2. CASE k = Len(log) + 1
    <3>1. new[k] = Event
      BY <1>2, <2>2
    <3>2. CASE pc = "planned"
      BY <1>3, <3>1, <3>2, PlannedEvent
    <3>3. CASE pc # "planned"
      <4>1. PICK j \in DOMAIN log : log[j].seq = parent /\ log[j].step = index
        BY <3>3 DEF HoldsParent
      <4>2. j \in 1..(k - 1) /\ new[j] = log[j]
        BY <1>2, <2>2, <4>1
      <4> QED
        BY <1>3, <3>1, <3>3, <4>1, <4>2, PlannedEvent
    <3> QED
      BY <3>2, <3>3
  <2> QED
    BY <1>2, <2>1, <2>2
<1>5. Chained(new)
  BY <1>4 DEF Chained
<1>6. \E j \in DOMAIN new : new[j].seq = sequence + 1 /\ new[j].step = index
  BY <1>2, <1>3
<1>7. HoldsParent(log) => HoldsParent(new)
  BY <1>2 DEF HoldsParent
<1> QED
  BY <1>5, <1>6, <1>7 DEF new

\* A step that writes no event and does not enter an action past its first one.
LEMMA UnloggedStep ==
    ASSUME ChainInv, timeline' = timeline, stored' = stored, parent' = parent,
           index' = index,
           pc' \in AtAction \ {"planned"} => pc \in AtAction \ {"planned"}
    PROVE  ChainInv'
  BY DEF ChainInv, CausalChain, Chained, HoldsParent, AtAction, Points, EmitPoints, TryPoints,
     FinalPoints

LEMMA ChainStep == TypeInv /\ ChainInv /\ [Next]_vars => ChainInv'
<1> SUFFICES ASSUME TypeInv, ChainInv, [Next]_vars PROVE ChainInv'
  OBVIOUS
<1> USE DEF GoTo, Move, control, logs
<1>p. pc \in EmitPoints => pc \in AtAction
  BY DEF AtAction, Points, EmitPoints, TryPoints, FinalPoints
<1>l. timeline \in Seq(EventType) /\ stored \in Seq(EventType)
  BY DEF TypeInv, TypeOK
<1>1. CASE RunLoop
  <2>1. CASE CreateRun
    BY <2>1, UnloggedStep DEF CreateRun, AtAction, Points, EmitPoints, TryPoints, FinalPoints
  <2>2. CASE NextStep
    BY <2>2 DEF NextStep, ChainInv, CausalChain, Chained
  <2>3. CASE LoopEnds
    BY <2>3, UnloggedStep DEF LoopEnds, AtAction, Points, EmitPoints, TryPoints, FinalPoints
  <2>4. CASE Emit
    <3>1. /\ pc \in EmitPoints /\ index' = index /\ parent' = sequence + 1
          /\ timeline' = Append(timeline, Event) /\ stored' = Append(stored, Event)
      BY <2>4 DEF Emit
    <3>2. pc # "planned" => HoldsParent(timeline) /\ HoldsParent(stored)
      BY <1>p, <3>1 DEF ChainInv
    <3>3. Chained(timeline') /\ Chained(stored')
      BY <3>1, <3>2, <1>l, AppendChained DEF ChainInv, CausalChain
    <3>4. HoldsParent(timeline)' /\ HoldsParent(stored)'
      BY <3>1, <3>2, <1>l, AppendChained DEF ChainInv, CausalChain, HoldsParent
    <3> QED
      BY <3>3, <3>4 DEF ChainInv, CausalChain, Chained
  <2>5. CASE Authorize
    BY <2>5, UnloggedStep DEF Authorize, AtAction, Points, EmitPoints, TryPoints, FinalPoints
  <2>6. CASE RecordPrevented
    BY <2>6, UnloggedStep DEF RecordPrevented, Record, AtAction, Points, EmitPoints, TryPoints, FinalPoints
  <2>7. CASE BeforeAction
    BY <2>7, UnloggedStep DEF BeforeAction, Raise, AtAction, Points, EmitPoints, TryPoints, FinalPoints
  <2>8. CASE Prepare
    BY <2>8, UnloggedStep DEF Prepare, AtAction, Points, EmitPoints, TryPoints, FinalPoints
  <2>9. CASE HandleException
    BY <2>9, UnloggedStep DEF HandleException, AtAction, Points, EmitPoints, TryPoints, FinalPoints
  <2>10. CASE ExecuteSimulated
    BY <2>10, UnloggedStep DEF ExecuteSimulated, AtAction, Points, EmitPoints, TryPoints, FinalPoints
  <2>11. CASE Execute
    BY <2>11, UnloggedStep DEF Execute, BeginSequence, AtAction, Points, EmitPoints, TryPoints, FinalPoints
  <2>12. CASE CleanupNoop
    BY <2>12, UnloggedStep DEF CleanupNoop, AtAction, Points, EmitPoints, TryPoints, FinalPoints
  <2>13. CASE Cleanup
    BY <2>13, UnloggedStep DEF Cleanup, BeginSequence, AtAction, Points, EmitPoints, TryPoints, FinalPoints
  <2>14. CASE CleanupRaised
    BY <2>14, UnloggedStep DEF CleanupRaised, AtAction, Points, EmitPoints, TryPoints, FinalPoints
  <2>15. CASE SequenceEnds
    BY <2>15, UnloggedStep DEF SequenceEnds, Return, AtAction, Points, EmitPoints, TryPoints, FinalPoints
  <2>16. CASE ProcessRefused
    BY <2>16, UnloggedStep DEF ProcessRefused, Return, AtAction, Points, EmitPoints, TryPoints, FinalPoints
  <2>17. CASE ProcessAllowed
    BY <2>17, UnloggedStep DEF ProcessAllowed, AtAction, Points, EmitPoints, TryPoints, FinalPoints
  <2>18. CASE CommandTimesOut
    BY <2>18, UnloggedStep DEF CommandTimesOut, Return, AtAction, Points, EmitPoints, TryPoints, FinalPoints
  <2>19. CASE RecordAction
    BY <2>19, UnloggedStep DEF RecordAction, Record, AtAction, Points, EmitPoints, TryPoints, FinalPoints
  <2>20. CASE Finish
    BY <2>20, UnloggedStep DEF Finish, AtAction, Points, EmitPoints, TryPoints, FinalPoints
  <2>21. CASE WriteReport
    BY <2>21, UnloggedStep DEF WriteReport, records, AtAction, Points, EmitPoints, TryPoints, FinalPoints
  <2>22. CASE WriteArtifacts
    BY <2>22, UnloggedStep DEF WriteArtifacts, AtAction, Points, EmitPoints, TryPoints, FinalPoints
  <2>23. CASE FinishRun
    BY <2>23, UnloggedStep DEF FinishRun, AtAction, Points, EmitPoints, TryPoints, FinalPoints
  <2> QED
    BY <1>1, <2>1, <2>2, <2>3, <2>4, <2>5, <2>6, <2>7, <2>8, <2>9, <2>10, <2>11, <2>12,
       <2>13, <2>14, <2>15, <2>16, <2>17, <2>18, <2>19, <2>20, <2>21, <2>22, <2>23
       DEF RunLoop
<1>2. CASE Environment
  <2>1. CASE EmitFileError
    <3>1. pc' \in AtAction => pc \in AtAction \ {"planned"}
      BY <2>1, <1>p DEF EmitFileError, Raise, RaiseUncaught, InTry, AtAction, Points, EmitPoints, TryPoints, FinalPoints
    <3> QED
      BY <2>1, <3>1, UnloggedStep DEF EmitFileError
  <2>2. CASE EmitStoreError
    <3>1. /\ pc \in EmitPoints /\ index' = index /\ parent' = parent
          /\ timeline' = Append(timeline, Event) /\ stored' = stored
      BY <2>2 DEF EmitStoreError
    <3>2. pc # "planned" => HoldsParent(timeline) /\ HoldsParent(stored)
      BY <1>p, <3>1 DEF ChainInv
    <3>3. Chained(timeline') /\ Chained(stored')
      BY <3>1, <3>2, <1>l, AppendChained DEF ChainInv, CausalChain
    <3>4. pc' \in AtAction => pc # "planned"
      BY <2>2 DEF EmitStoreError, RaiseUncaught, InTry, AtAction, Points, EmitPoints, TryPoints, FinalPoints
    <3>5. pc' \in AtAction => HoldsParent(timeline)' /\ HoldsParent(stored)'
      BY <3>1, <3>2, <3>4, <1>l, AppendChained DEF ChainInv, CausalChain, HoldsParent
    <3> QED
      BY <3>3, <3>5 DEF ChainInv, CausalChain, Chained, AtAction, Points, EmitPoints,
         TryPoints, FinalPoints
  <2>3. CASE WriteError
    BY <2>3, UnloggedStep DEF WriteError, AtAction, Points, EmitPoints, TryPoints, FinalPoints
  <2>4. CASE PrepareRaises
    BY <2>4, UnloggedStep DEF PrepareRaises, AtAction, Points, EmitPoints, TryPoints, FinalPoints
  <2>5. CASE CommandEnds
    BY <2>5, UnloggedStep DEF CommandEnds, AtAction, Points, EmitPoints, TryPoints, FinalPoints
  <2>6. CASE CommandNotStarted
    BY <2>6, UnloggedStep DEF CommandNotStarted, Return, AtAction, Points, EmitPoints, TryPoints, FinalPoints
  <2>7. CASE Cancel
    BY <2>7, UnloggedStep DEF Cancel, AtAction, Points, EmitPoints, TryPoints, FinalPoints
  <2>8. CASE ClockPasses
    BY <2>8, UnloggedStep DEF ClockPasses, AtAction, Points, EmitPoints, TryPoints, FinalPoints
  <2>9. CASE Interrupt
    BY <2>9, UnloggedStep DEF Interrupt, RaiseUncaught, InTry, AtAction, Points, EmitPoints, TryPoints, FinalPoints
  <2>10. CASE Crash
    <3>1. pc' = "crashed" /\ stored' = stored
      BY <2>10 DEF Crash
    <3>2. \/ timeline' = timeline
          \/ pc \in EmitPoints /\ timeline' = Append(timeline, Event)
      BY <2>10 DEF Crash
    <3>3. Chained(timeline') /\ Chained(stored')
      BY <3>1, <3>2, <1>p, <1>l, AppendChained DEF ChainInv, CausalChain
    <3> QED
      BY <3>1, <3>3 DEF ChainInv, CausalChain, Chained, AtAction, FinalPoints
  <2> QED
    BY <1>2, <2>1, <2>2, <2>3, <2>4, <2>5, <2>6, <2>7, <2>8, <2>9, <2>10 DEF Environment
<1>3. CASE UNCHANGED vars
  BY <1>3, UnloggedStep DEF vars
<1> QED
  BY <1>1, <1>2, <1>3 DEF Next, Finished

\* In the timeline and in the database alike, every event but a planned one names an
\* earlier event of its own action as its parent, whichever writes failed between them.
THEOREM CausalChainHolds == Spec => []CausalChain
<1>1. Init => ChainInv
  BY DEF Init, ChainInv, CausalChain, Chained, AtAction, Points
<1>2. ChainInv => CausalChain
  BY DEF ChainInv
<1> QED
  BY <1>1, <1>2, TypeInit, TypeStep, ChainStep, PTL DEF Spec

-----------------------------------------------------------------------------
(* Cleanup.                                                                    *)

\* No step but a start of a command leaves more actions open, and a step that keeps one
\* open stays where its cleanup still lies ahead, or ends the run.
Open == seen.started \ seen.cleanup_called
BeforeCleanup ==
    InTry \/ pc \in {"handler", "cleanup_started", "cleanup", "aborted", "crashed"}

LEMMA OpenStep ==
    ASSUME CleanupBeforeNext, Open' \subseteq Open, index' = index,
           BeforeCleanup => BeforeCleanup' \/ Open' = {}
    PROVE  CleanupBeforeNext'
  BY DEF CleanupBeforeNext, Open, BeforeCleanup, InTry, TryPoints

LEMMA CleanupStep == TypeInv /\ CleanupBeforeNext /\ [Next]_vars => CleanupBeforeNext'
<1> SUFFICES ASSUME TypeInv, CleanupBeforeNext, [Next]_vars PROVE CleanupBeforeNext'
  OBVIOUS
<1> USE DEF GoTo, Move, control
<1>0. seen \in SeenType /\ ref \in RefType
  BY DEF TypeInv, TypeOK
<1>1. Open \subseteq {index} /\ (Open # {} => BeforeCleanup)
  BY DEF CleanupBeforeNext, Open, BeforeCleanup
<1>2. ASSUME Spawned, pc = "spawn", index' = index,
             pc' \in {"check", "executed", "cleaned", "cleanup_started", "aborted"},
             ref'.cleaning = ref.cleaning,
             pc' \in {"check", "executed"} \/ ref.cleaning \/ pc' = "cleanup_started"
      PROVE  CleanupBeforeNext'
  <2>1. CASE ref.cleaning
    <3>1. seen' = seen /\ Open = {}
      BY <1>1, <1>2, <2>1 DEF Spawned, BeforeCleanup, InTry, TryPoints
    <3> QED
      BY <3>1 DEF CleanupBeforeNext, Open
  <2>2. CASE ~ref.cleaning
    <3>1. seen'.started = seen.started \union {index}
          /\ seen'.cleanup_called = seen.cleanup_called
      BY <1>0, <1>2, <2>2 DEF Spawned, SeenType
    <3>2. Open' \subseteq {index}
      BY <1>1, <3>1 DEF Open
    <3>3. BeforeCleanup'
      BY <1>2, <2>2 DEF BeforeCleanup, InTry, TryPoints
    <3> QED
      BY <1>2, <3>2, <3>3 DEF CleanupBeforeNext, Open, BeforeCleanup
  <2> QED
    BY <2>1, <2>2
<1>3. CASE RunLoop
  <2>1. CASE CreateRun
    BY <2>1, OpenStep DEF CreateRun, BeforeCleanup, InTry, TryPoints, Open
  <2>2. CASE NextStep
    <3>1. seen' = seen /\ Open = {}
      BY <2>2, <1>1 DEF NextStep, BeforeCleanup, InTry, TryPoints
    <3> QED
      BY <3>1 DEF CleanupBeforeNext, Open
  <2>3. CASE LoopEnds
    BY <2>3, OpenStep DEF LoopEnds, BeforeCleanup, InTry, TryPoints, Open
  <2>4. CASE Emit
    <3>1. seen' = seen /\ index' = index /\ ref' = ref /\ pc' = Following /\ pc \in EmitPoints
      BY <2>4 DEF Emit
    <3>2. BeforeCleanup => pc \in TryPoints \union {"handler", "cleanup_started"}
      BY <3>1 DEF BeforeCleanup, InTry, EmitPoints, TryPoints
    <3>3. BeforeCleanup => pc' \in {"attempted", "execute", "observed", "detection",
                                   "cleanup_started", "cleanup"}
      BY <3>1, <3>2 DEF Following, TryPoints
    <3>4. BeforeCleanup => BeforeCleanup'
      BY <3>3 DEF BeforeCleanup, InTry, TryPoints
    <3> QED
      BY <3>1, <3>4, OpenStep DEF Open
  <2>5. CASE Authorize
    BY <2>5, OpenStep DEF Authorize, BeforeCleanup, InTry, TryPoints, Open
  <2>6. CASE RecordPrevented
    BY <2>6, OpenStep DEF RecordPrevented, Record, BeforeCleanup, InTry, TryPoints, Open
  <2>7. CASE BeforeAction
    BY <2>7, OpenStep DEF BeforeAction, Raise, BeforeCleanup, InTry, TryPoints, Open
  <2>8. CASE Prepare
    BY <2>8, OpenStep DEF Prepare, BeforeCleanup, InTry, TryPoints, Open
  <2>9. CASE HandleException
    BY <2>9, OpenStep DEF HandleException, BeforeCleanup, InTry, TryPoints, Open
  <2>10. CASE ExecuteSimulated
    BY <2>10, OpenStep DEF ExecuteSimulated, BeforeCleanup, InTry, TryPoints, Open
  <2>11. CASE Execute
    BY <2>11, OpenStep DEF Execute, BeginSequence, BeforeCleanup, InTry, TryPoints, Open
  <2>12. CASE CleanupNoop
    <3>1. seen'.started = seen.started /\ seen'.cleanup_called = seen.cleanup_called \union {index}
      BY <2>12, <1>0 DEF CleanupNoop, CleanupCalled, SeenType
    <3>2. Open' = {}
      BY <3>1, <1>1 DEF Open
    <3> QED
      BY <2>12, <3>2, OpenStep DEF CleanupNoop
  <2>13. CASE Cleanup
    <3>1. seen'.started = seen.started /\ seen'.cleanup_called = seen.cleanup_called \union {index}
      BY <2>13, <1>0 DEF Cleanup, CleanupCalled, SeenType
    <3>2. Open' = {}
      BY <3>1, <1>1 DEF Open
    <3> QED
      BY <2>13, <3>2, OpenStep DEF Cleanup, BeginSequence
  <2>14. CASE CleanupRaised
    BY <2>14, OpenStep DEF CleanupRaised, BeforeCleanup, InTry, TryPoints, Open
  <2>15. CASE SequenceEnds
    BY <2>15, OpenStep DEF SequenceEnds, Return, BeforeCleanup, InTry, TryPoints, Open
  <2>16. CASE ProcessRefused
    <3>1. seen'.started = seen.started /\ seen'.cleanup_called = seen.cleanup_called
      BY <2>16, <1>0 DEF ProcessRefused, SeenType
    <3> QED
      BY <2>16, <3>1, OpenStep DEF ProcessRefused, Return, BeforeCleanup, InTry, TryPoints, Open
  <2>17. CASE ProcessAllowed
    <3>1. ref'.cleaning = ref.cleaning
      BY <2>17, <1>0 DEF ProcessAllowed, RefType
    <3> QED
      BY <2>17, <3>1, OpenStep DEF ProcessAllowed, BeforeCleanup, InTry, TryPoints, Open
  <2>18. CASE CommandTimesOut
    BY <2>18, <1>2 DEF CommandTimesOut, Return
  <2>19. CASE RecordAction
    BY <2>19, OpenStep DEF RecordAction, Record, BeforeCleanup, InTry, TryPoints, Open
  <2>20. CASE Finish
    BY <2>20, OpenStep DEF Finish, BeforeCleanup, InTry, TryPoints, Open
  <2>21. CASE WriteReport
    BY <2>21, OpenStep DEF WriteReport, BeforeCleanup, InTry, TryPoints, Open
  <2>22. CASE WriteArtifacts
    BY <2>22, OpenStep DEF WriteArtifacts, BeforeCleanup, InTry, TryPoints, Open
  <2>23. CASE FinishRun
    BY <2>23, OpenStep DEF FinishRun, BeforeCleanup, InTry, TryPoints, Open
  <2> QED
    BY <1>3, <2>1, <2>2, <2>3, <2>4, <2>5, <2>6, <2>7, <2>8, <2>9, <2>10, <2>11, <2>12,
       <2>13, <2>14, <2>15, <2>16, <2>17, <2>18, <2>19, <2>20, <2>21, <2>22, <2>23
       DEF RunLoop
<1>4. CASE Environment
  <2>1. CASE EmitFileError
    BY <2>1, OpenStep DEF EmitFileError, Raise, RaiseUncaught, BeforeCleanup, InTry, TryPoints, Open
  <2>2. CASE EmitStoreError
    BY <2>2, OpenStep DEF EmitStoreError, RaiseUncaught, BeforeCleanup, InTry, TryPoints, Open
  <2>3. CASE WriteError
    BY <2>3, OpenStep DEF WriteError, BeforeCleanup, InTry, TryPoints, Open
  <2>4. CASE PrepareRaises
    <3>1. CASE pc = "cleanup"
      <4>1. /\ seen'.started = seen.started
            /\ seen'.cleanup_called = seen.cleanup_called \union {index}
        BY <2>4, <3>1, <1>0 DEF PrepareRaises, CleanupCalled, SeenType
      <4>2. Open' = {}
        BY <4>1, <1>1 DEF Open
      <4> QED
        BY <2>4, <4>2, OpenStep DEF PrepareRaises
    <3>2. CASE pc # "cleanup"
      BY <2>4, <3>2, OpenStep DEF PrepareRaises, BeforeCleanup, InTry, TryPoints, Open
    <3> QED
      BY <3>1, <3>2
  <2>5. CASE CommandEnds
    <3>1. ref'.cleaning = ref.cleaning
      BY <2>5, <1>0 DEF CommandEnds, RefType
    <3> QED
      BY <2>5, <3>1, <1>2 DEF CommandEnds
  <2>6. CASE CommandNotStarted
    BY <2>6, OpenStep DEF CommandNotStarted, Return, BeforeCleanup, InTry, TryPoints, Open
  <2>7. CASE Cancel
    BY <2>7, OpenStep DEF Cancel, BeforeCleanup, InTry, TryPoints, Open
  <2>8. CASE ClockPasses
    BY <2>8, OpenStep DEF ClockPasses, BeforeCleanup, InTry, TryPoints, Open
  <2>9. CASE Interrupt
    <3>1. /\ index' = index /\ ref' = ref
          /\ pc' = IF InTry THEN "cleanup_started" ELSE "aborted"
      BY <2>9 DEF Interrupt, RaiseUncaught, EmitPoints
    <3>2. CASE pc = "spawn"
      BY <2>9, <3>1, <3>2, <1>2 DEF Interrupt, InTry
    <3>3. CASE pc # "spawn"
      <4>1. seen' = seen
        BY <2>9, <3>3 DEF Interrupt
      <4> QED
        BY <3>1, <4>1, OpenStep DEF BeforeCleanup, Open
    <3> QED
      BY <3>2, <3>3
  <2>10. CASE Crash
    BY <2>10, OpenStep DEF Crash, BeforeCleanup, InTry, TryPoints, Open
  <2> QED
    BY <1>4, <2>1, <2>2, <2>3, <2>4, <2>5, <2>6, <2>7, <2>8, <2>9, <2>10 DEF Environment
<1>5. CASE UNCHANGED vars
  BY <1>5 DEF vars, CleanupBeforeNext, InTry, TryPoints
<1> QED
  BY <1>3, <1>4, <1>5 DEF Next, Finished

\* run() never gets past an action that started a command without calling
\* provider.cleanup for it, in any campaign and whatever fails.
THEOREM CleanupComesFirst == Spec => []CleanupBeforeNext
<1>1. Init => CleanupBeforeNext
  BY DEF Init, CleanupBeforeNext
<1> QED
  BY <1>1, TypeInit, TypeStep, CleanupStep, PTL DEF Spec

-----------------------------------------------------------------------------
(* The invariants.                                                             *)

\* Points at which the lifecycle of the current action is complete so far, if nothing
\* went wrong.
OnPath == AtAction \ {"denied", "prevented", "record_prevented", "except", "handler",
                      "cleanup_except", "cleanup_failed"}

\* The events of a complete lifecycle that are recorded at a point of it.
DepthAt(p, cleaning) ==
    CASE p = "planned" -> 0
      [] p \in {"authorize", "authorized"} -> 1
      [] p \in {"before_action", "prepare", "prepared"} -> 2
      [] p = "attempted" -> 3
      [] p \in {"execute", "executed"} -> 4
      [] p \in {"check", "spawn"} -> IF cleaning THEN 8 ELSE 4
      [] p = "observed" -> 5
      [] p = "detection" -> 6
      [] p = "cleanup_started" -> 7
      [] p \in {"cleanup", "cleaned"} -> 8
      [] p = "verify" -> 9
      [] p = "record" -> 10

Depth == DepthAt(pc, ref.cleaning)

\* The log ends with the first d events of a complete lifecycle of action i.
HasTail(log, i, d) ==
    /\ d <= Len(log)
    /\ \A e \in 1..d :
          LET k == Len(log) - d + e
          IN  /\ log[k].step = i
              /\ log[k].state \in FullLifecycle[e]
              /\ log[k].parent = IF e = 1 THEN 0 ELSE log[k - 1].seq

\* Nothing went wrong with the current action so far.
Smooth ==
    /\ ~act.error /\ ~raised
    /\ Depth >= 5 => act.result \in Executions
    /\ Depth >= 9 => act.cleanup = "cleaned"

\* As long as nothing goes wrong, both logs hold the lifecycle up to here.
TailInv ==
    pc \in OnPath /\ Smooth =>
        /\ HasTail(timeline, index, Depth) /\ HasTail(stored, index, Depth)
        /\ Depth > 0 => /\ timeline[Len(timeline)].seq = parent
                        /\ stored[Len(stored)].seq = parent

\* Points before the end of the try block, and those where an exception may be waiting.
BeforeFinally ==
    \/ pc \in {"planned", "authorize", "denied", "prevented", "record_prevented", "authorized",
               "before_action", "prepare", "prepared", "attempted", "execute", "executed",
               "observed", "detection"}
    \/ pc \in {"check", "spawn"} /\ ~ref.cleaning

InFinally ==
    \/ pc \in {"cleanup_started", "cleanup", "cleaned", "cleanup_except", "cleanup_failed"}
    \/ pc \in {"check", "spawn"} /\ ref.cleaning

\* What the flags of the exception handling say at each point.
FlowInv ==
    /\ BeforeFinally => ~act.error
    /\ raised => InFinally \/ pc \in FinalPoints
    /\ pc = "handler" => act.error
    /\ pc = "cleanup_failed" => act.error /\ act.cleanup = "cleanup_failed"

Intent(log, i) == {"planned", "authorized", "prepared", "attempted"} \subseteq StatesOf(log, i)

Good(k) == actions[k].status \in {"simulated", "completed"}

\* The row ends the campaign.
Ends(k) ==
    \/ actions[k].status = "cancelled"
    \/ actions[k].status \in Failing /\ Steps[k].on_failure = "stop"

\* Rows are those of the steps that are behind, and one that ends the campaign is the last.
RowInv ==
    /\ pc \in AtAction => Len(actions) = index - 1
    /\ pc \in Points \ (AtAction \union FinalPoints) => Len(actions) = index
    /\ \A k \in DOMAIN actions : actions[k].step = k /\ k <= index
    /\ \A k \in DOMAIN actions : Ends(k) => k = index /\ stop_campaign
    /\ stop_campaign => pc \notin AtAction
    /\ \A j \in DOMAIN timeline : timeline[j].step \in 1..index

\* No row hides a failed cleanup.
CleanupInv ==
    \A j \in DOMAIN timeline :
        timeline[j].state = "cleanup_failed" =>
            LET i == timeline[j].step
            IN  /\ i \in DOMAIN actions => ~Good(i)
                /\ pc \in AtAction /\ i = index => pc \in {"verify", "record"} /\ ~Verified

\* The outcome is computed from the rows, and handed on to the report and the runs row.
OutcomeInv ==
    /\ pc \in {"write_report", "artifacts", "finish_run", "done"} /\ outcome = "completed" =>
          Len(actions) = Len(Steps) /\ \A k \in DOMAIN actions : Good(k)
    /\ pc \in {"artifacts", "finish_run", "done"} => report = outcome
    /\ run_status = "completed" => pc = "done" /\ outcome = "completed"

RunInv == TypeInv /\ FlowInv /\ TailInv /\ RowInv /\ CleanupInv /\ OutcomeInv

EvidenceInv ==
    /\ \A i \in seen.started : Intent(stored, i)
    /\ VerifiedIsEvidenced
    /\ StoreFollowsTimeline

-----------------------------------------------------------------------------
(* The budget of cleanup commands.                                             *)

\* The cleanup commands of the campaign up to the current one, drawn from a reserve that
\* the tracker already had.
Spent ==
    IF pc \in {"check", "spawn"} /\ ref.cleaning
    THEN CleanupTotal[index - 1] + ref.argv + (IF pc = "spawn" THEN 1 ELSE 0)
    ELSE IF BeforeFinally \/ pc \in {"except", "handler", "cleanup_started", "cleanup"}
    THEN CleanupTotal[index - 1]
    ELSE CleanupTotal[index]

\* A sequence runs no more commands than it has, and the tracker counts no more cleanup
\* commands than are spent.
InSequence ==
    /\ pc \in {"check", "spawn"} => ref.argv <= SequenceLength
    /\ pc = "spawn" => ref.argv < SequenceLength

Budget ==
    /\ InSequence
    /\ \E u \in PriorUse : limits.cleanups <= u.cleanups + Spent

ReserveInv == Budget /\ ReserveSuffices

-----------------------------------------------------------------------------
(* The phases of ActionLifecycle.                                              *)

\* The events of an action stand together, in the order of the campaign, the last one of
\* every action can be told, and those that PhaseAt and Evaluated look behind are not the
\* first.
Ordered(log) ==
    /\ \A j, k \in DOMAIN log : j <= k => log[j].step <= log[k].step
    /\ \A k \in DOMAIN log : Lasts(log, log[k].step) # {}
    /\ \A k \in DOMAIN log : /\ log[k].state \in Outcomes => k >= 3
                             /\ log[k].state \in {"failed", "cancelled"} => k >= 2

LastState == timeline[Len(timeline)].state
LastPhase == PhaseAt(timeline, Len(timeline))

\* What the last event of the timeline is at a point, and the phase that it tells.
Here(p, cleaning, state, told) ==
    /\ p \in {"authorize", "denied", "authorized"} => state = "planned"
    /\ p = "prevented" => state = "denied"
    /\ p = "record_prevented" => state = "prevented"
    /\ p \in {"before_action", "prepare", "prepared"} => state = "authorized"
    /\ p \in {"attempted", "execute", "executed", "observed", "detection"}
          \/ (p \in {"check", "spawn"} /\ ~cleaning) =>
          told = "active" /\ state \notin {"authorized", "cleaned", "cleanup_failed"}
    /\ p \in {"except", "handler"} =>
          /\ state \notin {"cleaned", "cleanup_failed"}
          /\ told = IF state = "authorized" THEN "authorized" ELSE "active"
    /\ p = "cleanup_started" => told \in {"authorized", "active"}
    /\ p \in {"cleanup", "cleaned", "cleanup_except", "cleanup_failed"}
          \/ (p \in {"check", "spawn"} /\ cleaning) => state = "cleanup_started"
    /\ p = "verify" => state \in {"cleaned", "cleanup_failed"}
    /\ p = "record" => told \in {"verified", "failed", "cancelled"}

\* The last event of the timeline is of the current action from the first one on, and tells
\* how far it has got.
HereInv ==
    /\ pc = "planned" => \A j \in DOMAIN timeline : timeline[j].step # index
    /\ pc \in AtAction \ {"planned"} => timeline # <<>> /\ timeline[Len(timeline)].step = index
    /\ pc \in AtAction => Here(pc, ref.cleaning, LastState, LastPhase)
    /\ pc = "observed" => Len(timeline) >= 2
    /\ pc = "detection" => Len(timeline) >= 3
    /\ pc = "verify" /\ Verified => LastState = "cleaned"
    /\ pc = "record" /\ LastPhase = "cancelled" => act.cancelled

\* The actions behind are settled, and one that was cancelled is the last.
BehindInv ==
    \A i \in 1..index :
        pc = "next" \/ (pc \in AtAction /\ i < index) =>
            /\ PhaseOf(timeline, i) \in Lifecycle!Settled
            /\ PhaseOf(timeline, i) = "cancelled" => stop_campaign

PhaseInv ==
    /\ pc = "start" => index = 0
    /\ Ordered(timeline)
    /\ HereInv
    /\ BehindInv

-----------------------------------------------------------------------------
(* Control.                                                                    *)

\* A command sequence that ends changes the local it is for, and nothing else.
LEMMA ReturnEffect ==
    ASSUME TypeOK, NEW ok, Return(ok)
    PROVE  /\ act'.error = act.error /\ act'.cancelled = act.cancelled
           /\ pc' = IF ref.cleaning THEN "cleaned" ELSE "executed"
           /\ ref.cleaning => act'.result = act.result
           /\ UNCHANGED <<mode, index, stop_campaign, raised, outcome, ref, sequence, parent,
                          timeline, stored, actions, report, run_status, limits, faults>>
<1>1. act \in ActType
  BY DEF TypeOK
<1>2. UNCHANGED <<mode, index, stop_campaign, raised, outcome, ref, sequence, parent,
                  timeline, stored, actions, report, run_status, limits, faults>>
  BY DEF Return, control, logs, records
<1>3. CASE ref.cleaning
  BY <1>1, <1>2, <1>3 DEF Return, GoTo, ActType
<1>4. CASE ~ref.cleaning
  <2>1. PICK r \in {"executed", "failed"} :
           act' = [act EXCEPT !.result = r, !.executed = ref.attempted]
    BY <1>4 DEF Return
  <2>2. pc' = "executed"
    BY <1>4 DEF Return, GoTo
  <2> QED
    BY <1>1, <1>2, <1>4, <2>1, <2>2 DEF ActType
<1> QED
  BY <1>3, <1>4

\* The flags of the exception handling are as FlowInv says after every step.
LEMMA FlowStep == TypeInv /\ FlowInv /\ [Next]_vars => FlowInv'
<1> SUFFICES ASSUME TypeInv, FlowInv, [Next]_vars PROVE FlowInv'
  OBVIOUS
<1> USE DEF GoTo, Move, control, logs, records, clocks
<1>0. TypeOK /\ act \in ActType /\ ref \in RefType /\ raised \in BOOLEAN
  BY DEF TypeInv, TypeOK
<1>1. CASE RunLoop
  <2>1. CASE CreateRun
    BY <2>1, <1>0 DEF CreateRun, FlowInv, BeforeFinally, InFinally, InTry, TryPoints, EmitPoints, FinalPoints
  <2>2. CASE NextStep
    <3>1. pc = "next" /\ pc' = "planned" /\ raised' = raised /\ ~act'.error
      BY <2>2 DEF NextStep, FreshAction
    <3> QED
      BY <3>1, <1>0 DEF FlowInv, BeforeFinally, InFinally, FinalPoints
  <2>3. CASE LoopEnds
    BY <2>3, <1>0 DEF LoopEnds, FlowInv, BeforeFinally, InFinally, InTry, TryPoints, EmitPoints, FinalPoints
  <2>4. CASE Emit
    <3>1. /\ pc \in EmitPoints /\ pc' = Following /\ raised' = raised /\ ref' = ref
          /\ act'.error = act.error /\ act'.cleanup = act.cleanup
      BY <2>4, <1>0 DEF Emit, ActType
    <3> QED
      BY <3>1 DEF Following, FlowInv, BeforeFinally, InFinally, EmitPoints, TryPoints, FinalPoints
  <2>5. CASE Authorize
    BY <2>5, <1>0 DEF Authorize, FlowInv, BeforeFinally, InFinally, InTry, TryPoints, EmitPoints, FinalPoints
  <2>6. CASE RecordPrevented
    BY <2>6, <1>0 DEF RecordPrevented, Record, FlowInv, BeforeFinally, InFinally, InTry, TryPoints, EmitPoints, FinalPoints
  <2>7. CASE BeforeAction
    BY <2>7, <1>0 DEF BeforeAction, Raise, FlowInv, BeforeFinally, InFinally, InTry, TryPoints, EmitPoints, FinalPoints
  <2>8. CASE Prepare
    BY <2>8, <1>0 DEF Prepare, FlowInv, BeforeFinally, InFinally, InTry, TryPoints, EmitPoints, FinalPoints
  <2>9. CASE HandleException
    BY <2>9, <1>0 DEF HandleException, FlowInv, BeforeFinally, InFinally, InTry, TryPoints, EmitPoints, FinalPoints
  <2>10. CASE ExecuteSimulated
    BY <2>10, <1>0 DEF ExecuteSimulated, FlowInv, BeforeFinally, InFinally, InTry, TryPoints, EmitPoints, FinalPoints
  <2>11. CASE Execute
    BY <2>11, <1>0 DEF Execute, BeginSequence, FlowInv, BeforeFinally, InFinally, InTry, TryPoints, EmitPoints, FinalPoints
  <2>12. CASE CleanupNoop
    BY <2>12, <1>0 DEF CleanupNoop, FlowInv, BeforeFinally, InFinally, InTry, TryPoints, EmitPoints, FinalPoints
  <2>13. CASE Cleanup
    BY <2>13, <1>0 DEF Cleanup, BeginSequence, FlowInv, BeforeFinally, InFinally, InTry, TryPoints, EmitPoints, FinalPoints
  <2>14. CASE CleanupRaised
    BY <2>14, <1>0 DEF CleanupRaised, FlowInv, BeforeFinally, InFinally, InTry, TryPoints, EmitPoints, FinalPoints
  <2>15. CASE SequenceEnds
    <3>1. Return(~ref.nonzero)
      BY <2>15 DEF SequenceEnds
    <3> QED
      BY <2>15, <3>1, <1>0, ReturnEffect DEF SequenceEnds, FlowInv, BeforeFinally, InFinally, FinalPoints
  <2>16. CASE ProcessRefused
    <3>1. Return(FALSE)
      BY <2>16 DEF ProcessRefused
    <3> QED
      BY <2>16, <3>1, <1>0, ReturnEffect DEF ProcessRefused, FlowInv, BeforeFinally, InFinally, FinalPoints
  <2>17. CASE ProcessAllowed
    BY <2>17, <1>0 DEF ProcessAllowed, FlowInv, BeforeFinally, InFinally, InTry, TryPoints, EmitPoints, FinalPoints
  <2>18. CASE CommandTimesOut
    <3>1. Return(FALSE)
      BY <2>18 DEF CommandTimesOut
    <3> QED
      BY <2>18, <3>1, <1>0, ReturnEffect DEF CommandTimesOut, FlowInv, BeforeFinally, InFinally, FinalPoints
  <2>19. CASE RecordAction
    BY <2>19, <1>0 DEF RecordAction, Record, FlowInv, BeforeFinally, InFinally, InTry, TryPoints, EmitPoints, FinalPoints
  <2>20. CASE Finish
    BY <2>20, <1>0 DEF Finish, FlowInv, BeforeFinally, InFinally, InTry, TryPoints, EmitPoints, FinalPoints
  <2>21. CASE WriteReport
    BY <2>21, <1>0 DEF WriteReport, FlowInv, BeforeFinally, InFinally, InTry, TryPoints, EmitPoints, FinalPoints
  <2>22. CASE WriteArtifacts
    BY <2>22, <1>0 DEF WriteArtifacts, FlowInv, BeforeFinally, InFinally, InTry, TryPoints, EmitPoints, FinalPoints
  <2>23. CASE FinishRun
    BY <2>23, <1>0 DEF FinishRun, FlowInv, BeforeFinally, InFinally, InTry, TryPoints, EmitPoints, FinalPoints
  <2> QED
    BY <1>1, <2>1, <2>2, <2>3, <2>4, <2>5, <2>6, <2>7, <2>8, <2>9, <2>10, <2>11, <2>12, <2>13, <2>14, <2>15, <2>16, <2>17, <2>18, <2>19, <2>20, <2>21, <2>22, <2>23 DEF RunLoop
<1>2. CASE Environment
  <2>1. CASE EmitFileError
    BY <2>1, <1>0 DEF EmitFileError, Raise, RaiseUncaught, FlowInv, BeforeFinally, InFinally, InTry, TryPoints, EmitPoints, FinalPoints
  <2>2. CASE EmitStoreError
    BY <2>2, <1>0 DEF EmitStoreError, RaiseUncaught, FlowInv, BeforeFinally, InFinally, InTry, TryPoints, EmitPoints, FinalPoints
  <2>3. CASE WriteError
    BY <2>3, <1>0 DEF WriteError, FlowInv, BeforeFinally, InFinally, InTry, TryPoints, EmitPoints, FinalPoints
  <2>4. CASE PrepareRaises
    BY <2>4, <1>0 DEF PrepareRaises, FlowInv, BeforeFinally, InFinally, InTry, TryPoints, EmitPoints, FinalPoints
  <2>5. CASE CommandEnds
    BY <2>5, <1>0 DEF CommandEnds, FlowInv, BeforeFinally, InFinally, InTry, TryPoints, EmitPoints, FinalPoints
  <2>6. CASE CommandNotStarted
    <3>1. Return(FALSE)
      BY <2>6 DEF CommandNotStarted
    <3> QED
      BY <2>6, <3>1, <1>0, ReturnEffect DEF CommandNotStarted, FlowInv, BeforeFinally, InFinally, FinalPoints
  <2>7. CASE Cancel
    BY <2>7, <1>0 DEF Cancel, FlowInv, BeforeFinally, InFinally, InTry, TryPoints, EmitPoints, FinalPoints
  <2>8. CASE ClockPasses
    BY <2>8, <1>0 DEF ClockPasses, FlowInv, BeforeFinally, InFinally, InTry, TryPoints, EmitPoints, FinalPoints
  <2>9. CASE Interrupt
    BY <2>9, <1>0 DEF Interrupt, RaiseUncaught, FlowInv, BeforeFinally, InFinally, InTry, TryPoints, EmitPoints, FinalPoints
  <2>10. CASE Crash
    BY <2>10, <1>0 DEF Crash, FlowInv, BeforeFinally, InFinally, InTry, TryPoints, EmitPoints, FinalPoints
  <2> QED
    BY <1>2, <2>1, <2>2, <2>3, <2>4, <2>5, <2>6, <2>7, <2>8, <2>9, <2>10 DEF Environment
<1>3. CASE UNCHANGED vars
  BY <1>3 DEF vars, FlowInv, BeforeFinally, InFinally
<1> QED
  BY <1>1, <1>2, <1>3 DEF Next, Finished

-----------------------------------------------------------------------------
(* The logs of an action that goes well.                                       *)

\* What the log holds after an event is added to it.
LEMMA AppendFacts ==
    ASSUME NEW log \in Seq(EventType), NEW e \in EventType
    PROVE  /\ Append(log, e) \in Seq(EventType)
           /\ Len(Append(log, e)) = Len(log) + 1 /\ Len(log) \in Nat
           /\ DOMAIN log = 1..Len(log) /\ DOMAIN Append(log, e) = 1..(Len(log) + 1)
           /\ \A k \in 1..Len(log) : Append(log, e)[k] = log[k]
           /\ Append(log, e)[Len(log) + 1] = e
  OBVIOUS

\* The next event of the lifecycle makes a tail one longer.
LEMMA TailExtends ==
    ASSUME NEW log \in Seq(EventType), NEW e \in EventType, NEW i, NEW d \in 0..9,
           HasTail(log, i, d), e.step = i, e.state \in FullLifecycle[d + 1],
           e.parent = IF d = 0 THEN 0 ELSE log[Len(log)].seq
    PROVE  HasTail(Append(log, e), i, d + 1)
<1> DEFINE new == Append(log, e)
<1>1. /\ Len(new) = Len(log) + 1 /\ Len(log) \in Nat
      /\ \A k \in 1..Len(log) : new[k] = log[k]
      /\ new[Len(log) + 1] = e
  BY AppendFacts
<1>2. d <= Len(log)
  BY DEF HasTail
<1> HIDE DEF new
<1>3. ASSUME NEW s \in 1..(d + 1)
      PROVE  LET k == Len(new) - (d + 1) + s
             IN  /\ new[k].step = i
                 /\ new[k].state \in FullLifecycle[s]
                 /\ new[k].parent = IF s = 1 THEN 0 ELSE new[k - 1].seq
  <2>1. CASE s = d + 1
    <3>1. Len(new) - (d + 1) + s = Len(log) + 1
      BY <1>1, <2>1
    <3>2. s # 1 => new[Len(log)] = log[Len(log)]
      BY <1>1, <1>2, <2>1
    <3> QED
      BY <1>1, <2>1, <3>1, <3>2
  <2>2. CASE s \in 1..d
    <3> DEFINE k == Len(log) - d + s
    <3>1. Len(new) - (d + 1) + s = k /\ k \in 1..Len(log) /\ (s # 1 => k - 1 \in 1..Len(log))
      BY <1>1, <1>2, <2>2
    <3>2. /\ log[k].step = i
          /\ log[k].state \in FullLifecycle[s]
          /\ log[k].parent = IF s = 1 THEN 0 ELSE log[k - 1].seq
      BY <2>2 DEF HasTail
    <3>3. new[k] = log[k] /\ (s # 1 => new[k - 1] = log[k - 1])
      BY <1>1, <3>1
    <3> QED
      BY <3>1, <3>2, <3>3
  <2> QED
    BY <2>1, <2>2
<1>4. d + 1 <= Len(new)
  BY <1>1, <1>2
<1> QED
  BY <1>3, <1>4 DEF HasTail, new

\* DepthAt, point by point.
LEMMA Depths ==
    ASSUME NEW c
    PROVE  /\ DepthAt("planned", c) = 0
           /\ DepthAt("authorize", c) = 1 /\ DepthAt("authorized", c) = 1
           /\ DepthAt("before_action", c) = 2 /\ DepthAt("prepare", c) = 2
           /\ DepthAt("prepared", c) = 2 /\ DepthAt("attempted", c) = 3
           /\ DepthAt("execute", c) = 4 /\ DepthAt("executed", c) = 4
           /\ DepthAt("check", c) = (IF c THEN 8 ELSE 4)
           /\ DepthAt("spawn", c) = (IF c THEN 8 ELSE 4)
           /\ DepthAt("observed", c) = 5 /\ DepthAt("detection", c) = 6
           /\ DepthAt("cleanup_started", c) = 7
           /\ DepthAt("cleanup", c) = 8 /\ DepthAt("cleaned", c) = 8
           /\ DepthAt("verify", c) = 9 /\ DepthAt("record", c) = 10
  BY DEF DepthAt

\* A step that writes nothing and stays at the same depth of the lifecycle, or leaves it.
LEMMA QuietTail ==
    ASSUME TailInv, UNCHANGED <<timeline, stored, parent, index>>,
           pc' \in OnPath /\ Smooth' => pc \in OnPath /\ Smooth /\ Depth' = Depth
    PROVE  TailInv'
  BY DEF TailInv, HasTail, OnPath, AtAction, Points, EmitPoints, TryPoints, FinalPoints

\* An event after which the lifecycle is still complete is the next one of it.
LEMMA NextOfLifecycle ==
    ASSUME TypeInv, FlowInv, Emit, pc' \in OnPath, Smooth'
    PROVE  /\ pc \in OnPath /\ Smooth
           /\ Depth \in 0..9 /\ Depth' = Depth + 1
           /\ EventState \in FullLifecycle[Depth + 1]
<1>1. /\ pc \in EmitPoints /\ pc' = Following /\ raised' = raised
      /\ act'.error = act.error /\ act'.cleanup = act.cleanup /\ act'.result = act.result
  BY DEF Emit, GoTo, control, TypeInv, TypeOK, ActType
<1>2. CASE pc \in {"planned", "authorized", "prepared", "attempted", "observed", "cleanup_started"}
  <2>1. /\ EventState = pc /\ Depth \in 0..9 /\ Depth' = Depth + 1
        /\ pc \in FullLifecycle[Depth + 1]
    <3>1. CASE pc = "planned"
      BY <1>1, <3>1, Depths DEF Following, EventState, FullLifecycle, Depth
    <3>2. CASE pc = "authorized"
      BY <1>1, <3>2, Depths DEF Following, EventState, FullLifecycle, Depth
    <3>3. CASE pc = "prepared"
      BY <1>1, <3>3, Depths DEF Following, EventState, FullLifecycle, Depth
    <3>4. CASE pc = "attempted"
      BY <1>1, <3>4, Depths DEF Following, EventState, FullLifecycle, Depth
    <3>5. CASE pc = "observed"
      BY <1>1, <3>5, Depths DEF Following, EventState, FullLifecycle, Depth
    <3>6. CASE pc = "cleanup_started"
      BY <1>1, <3>6, Depths DEF Following, EventState, FullLifecycle, Depth
    <3> QED
      BY <1>2, <3>1, <3>2, <3>3, <3>4, <3>5, <3>6
  <2>2. pc \in OnPath
    BY <1>2 DEF OnPath, AtAction, Points, EmitPoints, TryPoints, FinalPoints
  <2>3. Smooth
    BY <1>1, <2>1 DEF Smooth
  <2> QED
    BY <2>1, <2>2, <2>3
<1>3. CASE pc = "executed"
  BY <1>1, <1>3, Depths DEF Following, EventState, FullLifecycle, OnPath, Smooth, Depth, AtAction,
     Points, EmitPoints, TryPoints, FinalPoints, Executions
<1>4. CASE pc = "detection"
  <2>1. index \in Actions
    BY <1>4 DEF TypeInv, Assigned, AtAction, Points, EmitPoints, TryPoints, FinalPoints
  <2>2. Detections[Ability] \in {"detected", "missed", "not_evaluated"}
    BY <2>1, CampaignAssumption DEF Ability, Abilities
  <2> QED
    BY <1>1, <1>4, <2>2, Depths DEF Following, EventState, FullLifecycle, OnPath, Smooth, Depth, AtAction,
       Points, EmitPoints, TryPoints, FinalPoints
<1>5. CASE pc = "cleaned"
  BY <1>1, <1>5, Depths DEF Following, EventState, FullLifecycle, OnPath, Smooth, Depth, AtAction,
     Points, EmitPoints, TryPoints, FinalPoints
<1>6. CASE pc = "verify"
  BY <1>1, <1>6, Depths DEF Following, EventState, FullLifecycle, OnPath, Smooth, Depth, AtAction,
     Points, EmitPoints, TryPoints, FinalPoints, Verified, Executions
<1>7. CASE pc \in {"denied", "prevented", "handler", "cleanup_failed"}
  BY <1>1, <1>7, Depths DEF Following, FlowInv, OnPath, Smooth
<1> QED
  BY <1>1, <1>2, <1>3, <1>4, <1>5, <1>6, <1>7 DEF EmitPoints, TryPoints

\* Emit keeps both logs complete.
LEMMA EmitTail ==
    ASSUME TypeInv, FlowInv, TailInv, Emit
    PROVE  TailInv'
<1> SUFFICES ASSUME pc' \in OnPath, Smooth'
             PROVE  /\ HasTail(timeline', index', Depth') /\ HasTail(stored', index', Depth')
                    /\ timeline'[Len(timeline')].seq = parent' /\ stored'[Len(stored')].seq = parent'
  BY DEF TailInv
<1>1. /\ pc \in OnPath /\ Smooth /\ Depth \in 0..9 /\ Depth' = Depth + 1
      /\ EventState \in FullLifecycle[Depth + 1]
  BY NextOfLifecycle
<1>2. /\ pc \in EmitPoints /\ index' = index /\ parent' = sequence + 1
      /\ timeline' = Append(timeline, Event) /\ stored' = Append(stored, Event)
  BY DEF Emit, control
<1>3. Event \in EventType /\ timeline \in Seq(EventType) /\ stored \in Seq(EventType)
  BY <1>2, EventTyped DEF TypeInv, TypeOK
<1>4. /\ Event.step = index /\ Event.state = EventState /\ Event.seq = sequence + 1
      /\ Event.parent = IF Depth = 0 THEN 0 ELSE parent
  BY <1>1, <1>2, Depths DEF Event, Depth, OnPath, AtAction, Points, EmitPoints, TryPoints, FinalPoints
<1>5. /\ HasTail(timeline, index, Depth) /\ HasTail(stored, index, Depth)
      /\ Depth > 0 => timeline[Len(timeline)].seq = parent /\ stored[Len(stored)].seq = parent
  BY <1>1 DEF TailInv
<1>6. HasTail(timeline', index', Depth')
  <2>1. Event.parent = IF Depth = 0 THEN 0 ELSE timeline[Len(timeline)].seq
    BY <1>1, <1>4, <1>5
  <2>2. HasTail(Append(timeline, Event), index, Depth + 1)
    BY <1>1, <1>3, <1>4, <1>5, <2>1, TailExtends
  <2> QED
    BY <1>1, <1>2, <2>2
<1>7. HasTail(stored', index', Depth')
  <2>1. Event.parent = IF Depth = 0 THEN 0 ELSE stored[Len(stored)].seq
    BY <1>1, <1>4, <1>5
  <2>2. HasTail(Append(stored, Event), index, Depth + 1)
    BY <1>1, <1>3, <1>4, <1>5, <2>1, TailExtends
  <2> QED
    BY <1>1, <1>2, <2>2
<1>8. timeline'[Len(timeline')] = Event /\ stored'[Len(stored')] = Event
  BY <1>2, <1>3, AppendFacts
<1> QED
  BY <1>2, <1>4, <1>6, <1>7, <1>8

\* A command sequence that ends leaves the action where it was in its lifecycle.
LEMMA ReturnTail ==
    ASSUME TypeInv, TailInv, NEW ok, Return(ok), pc \in {"check", "spawn"}
    PROVE  TailInv'
<1>1. /\ act'.error = act.error
      /\ pc' = IF ref.cleaning THEN "cleaned" ELSE "executed"
      /\ ref.cleaning => act'.result = act.result
      /\ UNCHANGED <<raised, ref, index, parent, timeline, stored>>
  BY ReturnEffect DEF TypeInv
<1>2. pc \in OnPath
  BY DEF OnPath, AtAction, Points, FinalPoints
<1>3. Smooth' => Smooth
  BY <1>1, Depths DEF Smooth, Depth
<1>4. Depth' = Depth
  BY <1>1, Depths DEF Depth
<1> QED
  BY <1>1, <1>2, <1>3, <1>4, QuietTail

LEMMA TailStep == TypeInv /\ FlowInv /\ TailInv /\ [Next]_vars => TailInv'
<1> SUFFICES ASSUME TypeInv, FlowInv, TailInv, [Next]_vars PROVE TailInv'
  OBVIOUS
<1> USE DEF GoTo, Move, control, logs, records, clocks
<1>0. TypeOK /\ act \in ActType /\ ref \in RefType /\ raised \in BOOLEAN
  BY DEF TypeInv, TypeOK
<1>1. CASE RunLoop
  <2>1. CASE CreateRun
    BY <2>1, <1>0, Depths, QuietTail DEF CreateRun, OnPath, Smooth, Depth, AtAction, Points, EmitPoints, TryPoints, FinalPoints
  <2>2. CASE NextStep
    <3>1. pc' = "planned" /\ timeline' = timeline /\ stored' = stored
      BY <2>2 DEF NextStep
    <3>2. Depth' = 0 /\ \A log \in Seq(EventType) : HasTail(log, index', 0)
      BY <3>1, Depths DEF Depth, HasTail
    <3> QED
      BY <3>1, <3>2, <1>0 DEF TailInv, TypeOK
  <2>3. CASE LoopEnds
    BY <2>3, <1>0, Depths, QuietTail DEF LoopEnds, OnPath, Smooth, Depth, AtAction, Points, EmitPoints, TryPoints, FinalPoints
  <2>4. CASE Emit
    BY <2>4, EmitTail
  <2>5. CASE Authorize
    BY <2>5, <1>0, Depths, QuietTail DEF Authorize, OnPath, Smooth, Depth, AtAction, Points, EmitPoints, TryPoints, FinalPoints
  <2>6. CASE RecordPrevented
    BY <2>6, <1>0, Depths, QuietTail DEF RecordPrevented, Record, OnPath, Smooth, Depth, AtAction, Points, EmitPoints, TryPoints, FinalPoints
  <2>7. CASE BeforeAction
    BY <2>7, <1>0, Depths, QuietTail DEF BeforeAction, Raise, OnPath, Smooth, Depth, AtAction, Points, EmitPoints, TryPoints, FinalPoints
  <2>8. CASE Prepare
    BY <2>8, <1>0, Depths, QuietTail DEF Prepare, OnPath, Smooth, Depth, AtAction, Points, EmitPoints, TryPoints, FinalPoints
  <2>9. CASE HandleException
    BY <2>9, <1>0, Depths, QuietTail DEF HandleException, OnPath, Smooth, Depth, AtAction, Points, EmitPoints, TryPoints, FinalPoints
  <2>10. CASE ExecuteSimulated
    BY <2>10, <1>0, Depths, QuietTail DEF ExecuteSimulated, OnPath, Smooth, Depth, AtAction, Points, EmitPoints, TryPoints, FinalPoints
  <2>11. CASE Execute
    BY <2>11, <1>0, Depths, QuietTail DEF Execute, BeginSequence, OnPath, Smooth, Depth, AtAction, Points, EmitPoints, TryPoints, FinalPoints
  <2>12. CASE CleanupNoop
    BY <2>12, <1>0, Depths, QuietTail DEF CleanupNoop, OnPath, Smooth, Depth, AtAction, Points, EmitPoints, TryPoints, FinalPoints
  <2>13. CASE Cleanup
    BY <2>13, <1>0, Depths, QuietTail DEF Cleanup, BeginSequence, OnPath, Smooth, Depth, AtAction, Points, EmitPoints, TryPoints, FinalPoints
  <2>14. CASE CleanupRaised
    BY <2>14, <1>0, Depths, QuietTail DEF CleanupRaised, OnPath, Smooth, Depth, AtAction, Points, EmitPoints, TryPoints, FinalPoints
  <2>15. CASE SequenceEnds
    <3>1. Return(~ref.nonzero) /\ pc \in {"check", "spawn"}
      BY <2>15 DEF SequenceEnds
    <3> QED
      BY <3>1, ReturnTail
  <2>16. CASE ProcessRefused
    <3>1. Return(FALSE) /\ pc \in {"check", "spawn"}
      BY <2>16 DEF ProcessRefused
    <3> QED
      BY <3>1, ReturnTail
  <2>17. CASE ProcessAllowed
    BY <2>17, <1>0, Depths, QuietTail DEF ProcessAllowed, OnPath, Smooth, Depth, AtAction, Points, EmitPoints, TryPoints, FinalPoints
  <2>18. CASE CommandTimesOut
    <3>1. Return(FALSE) /\ pc \in {"check", "spawn"}
      BY <2>18 DEF CommandTimesOut
    <3> QED
      BY <3>1, ReturnTail
  <2>19. CASE RecordAction
    BY <2>19, <1>0, Depths, QuietTail DEF RecordAction, Record, OnPath, Smooth, Depth, AtAction, Points, EmitPoints, TryPoints, FinalPoints
  <2>20. CASE Finish
    BY <2>20, <1>0, Depths, QuietTail DEF Finish, OnPath, Smooth, Depth, AtAction, Points, EmitPoints, TryPoints, FinalPoints
  <2>21. CASE WriteReport
    BY <2>21, <1>0, Depths, QuietTail DEF WriteReport, OnPath, Smooth, Depth, AtAction, Points, EmitPoints, TryPoints, FinalPoints
  <2>22. CASE WriteArtifacts
    BY <2>22, <1>0, Depths, QuietTail DEF WriteArtifacts, OnPath, Smooth, Depth, AtAction, Points, EmitPoints, TryPoints, FinalPoints
  <2>23. CASE FinishRun
    BY <2>23, <1>0, Depths, QuietTail DEF FinishRun, OnPath, Smooth, Depth, AtAction, Points, EmitPoints, TryPoints, FinalPoints
  <2> QED
    BY <1>1, <2>1, <2>2, <2>3, <2>4, <2>5, <2>6, <2>7, <2>8, <2>9, <2>10, <2>11, <2>12, <2>13, <2>14, <2>15, <2>16, <2>17, <2>18, <2>19, <2>20, <2>21, <2>22, <2>23 DEF RunLoop
<1>2. CASE Environment
  <2>1. CASE EmitFileError
    <3>1. raised' \/ pc' \in {"aborted", "except", "cleanup_except"}
      BY <2>1 DEF EmitFileError, Raise, RaiseUncaught
    <3> QED
      BY <3>1 DEF TailInv, Smooth, OnPath, AtAction, FinalPoints
  <2>2. CASE EmitStoreError
    <3>1. raised' \/ pc' = "aborted"
      BY <2>2 DEF EmitStoreError, RaiseUncaught
    <3> QED
      BY <3>1 DEF TailInv, Smooth, OnPath, AtAction, FinalPoints
  <2>3. CASE WriteError
    BY <2>3, <1>0, Depths, QuietTail DEF WriteError, OnPath, Smooth, Depth, AtAction, Points, EmitPoints, TryPoints, FinalPoints
  <2>4. CASE PrepareRaises
    BY <2>4, <1>0, Depths, QuietTail DEF PrepareRaises, OnPath, Smooth, Depth, AtAction, Points, EmitPoints, TryPoints, FinalPoints
  <2>5. CASE CommandEnds
    BY <2>5, <1>0, Depths, QuietTail DEF CommandEnds, OnPath, Smooth, Depth, AtAction, Points, EmitPoints, TryPoints, FinalPoints
  <2>6. CASE CommandNotStarted
    <3>1. Return(FALSE) /\ pc \in {"check", "spawn"}
      BY <2>6 DEF CommandNotStarted
    <3> QED
      BY <3>1, ReturnTail
  <2>7. CASE Cancel
    BY <2>7, <1>0, Depths, QuietTail DEF Cancel, OnPath, Smooth, Depth, AtAction, Points, EmitPoints, TryPoints, FinalPoints
  <2>8. CASE ClockPasses
    BY <2>8, <1>0, Depths, QuietTail DEF ClockPasses, OnPath, Smooth, Depth, AtAction, Points, EmitPoints, TryPoints, FinalPoints
  <2>9. CASE Interrupt
    <3>1. raised' \/ pc' = "aborted"
      BY <2>9 DEF Interrupt, RaiseUncaught
    <3> QED
      BY <3>1 DEF TailInv, Smooth, OnPath, AtAction, FinalPoints
  <2>10. CASE Crash
    <3>1. pc' = "crashed"
      BY <2>10 DEF Crash
    <3> QED
      BY <3>1 DEF TailInv, OnPath, AtAction, FinalPoints
  <2> QED
    BY <1>2, <2>1, <2>2, <2>3, <2>4, <2>5, <2>6, <2>7, <2>8, <2>9, <2>10 DEF Environment
<1>3. CASE UNCHANGED vars
  BY <1>3, QuietTail DEF vars, Smooth, Depth
<1> QED
  BY <1>1, <1>2, <1>3 DEF Next, Finished

-----------------------------------------------------------------------------
(* What a step does to the logs, the rows and the actions that were started.   *)

\* Every step leaves both logs alone, or emits one event: to both of them, or after a
\* fault to the timeline only.
LogStep ==
    \/ UNCHANGED <<timeline, stored>> /\ (faults' = faults \/ faults' = faults + 1)
    \/ Emit
    \/ /\ pc \in EmitPoints /\ stored' = stored /\ faults' = faults + 1
       /\ timeline' = Append(timeline, Event)

LEMMA EveryLogStep == TypeInv /\ [Next]_vars => LogStep
<1> SUFFICES ASSUME TypeInv, [Next]_vars PROVE LogStep
  OBVIOUS
<1> USE DEF LogStep, GoTo, Move, control, logs, records, clocks
<1>1. CASE RunLoop
  <2>1. CASE CreateRun
    BY <2>1 DEF CreateRun
  <2>2. CASE NextStep
    BY <2>2 DEF NextStep
  <2>3. CASE LoopEnds
    BY <2>3 DEF LoopEnds
  <2>4. CASE Emit
    BY <2>4
  <2>5. CASE Authorize
    BY <2>5 DEF Authorize
  <2>6. CASE RecordPrevented
    BY <2>6 DEF RecordPrevented, Record
  <2>7. CASE BeforeAction
    BY <2>7 DEF BeforeAction, Raise
  <2>8. CASE Prepare
    BY <2>8 DEF Prepare
  <2>9. CASE HandleException
    BY <2>9 DEF HandleException
  <2>10. CASE ExecuteSimulated
    BY <2>10 DEF ExecuteSimulated
  <2>11. CASE Execute
    BY <2>11 DEF Execute, BeginSequence
  <2>12. CASE CleanupNoop
    BY <2>12 DEF CleanupNoop
  <2>13. CASE Cleanup
    BY <2>13 DEF Cleanup, BeginSequence
  <2>14. CASE CleanupRaised
    BY <2>14 DEF CleanupRaised
  <2>15. CASE SequenceEnds
    BY <2>15 DEF SequenceEnds, Return
  <2>16. CASE ProcessRefused
    BY <2>16 DEF ProcessRefused, Return
  <2>17. CASE ProcessAllowed
    BY <2>17 DEF ProcessAllowed
  <2>18. CASE CommandTimesOut
    BY <2>18 DEF CommandTimesOut, Return
  <2>19. CASE RecordAction
    BY <2>19 DEF RecordAction, Record
  <2>20. CASE Finish
    BY <2>20 DEF Finish
  <2>21. CASE WriteReport
    BY <2>21 DEF WriteReport
  <2>22. CASE WriteArtifacts
    BY <2>22 DEF WriteArtifacts
  <2>23. CASE FinishRun
    BY <2>23 DEF FinishRun
  <2> QED
    BY <1>1, <2>1, <2>2, <2>3, <2>4, <2>5, <2>6, <2>7, <2>8, <2>9, <2>10, <2>11, <2>12, <2>13, <2>14, <2>15, <2>16, <2>17, <2>18, <2>19, <2>20, <2>21, <2>22, <2>23 DEF RunLoop
<1>2. CASE Environment
  <2>1. CASE EmitFileError
    BY <2>1 DEF EmitFileError, Fault
  <2>2. CASE EmitStoreError
    BY <2>2 DEF EmitStoreError, Fault
  <2>3. CASE WriteError
    BY <2>3 DEF WriteError, Fault
  <2>4. CASE PrepareRaises
    BY <2>4 DEF PrepareRaises
  <2>5. CASE CommandEnds
    BY <2>5 DEF CommandEnds
  <2>6. CASE CommandNotStarted
    BY <2>6 DEF CommandNotStarted, Return
  <2>7. CASE Cancel
    BY <2>7 DEF Cancel
  <2>8. CASE ClockPasses
    BY <2>8 DEF ClockPasses
  <2>9. CASE Interrupt
    BY <2>9 DEF Interrupt, Fault
  <2>10. CASE Crash
    BY <2>10 DEF Crash, Fault
  <2> QED
    BY <1>2, <2>1, <2>2, <2>3, <2>4, <2>5, <2>6, <2>7, <2>8, <2>9, <2>10 DEF Environment
<1>3. CASE UNCHANGED vars
  BY <1>3 DEF vars
<1> QED
  BY <1>1, <1>2, <1>3 DEF Next, Finished

\* An action counts as started at the point where its command is run.
StartStep ==
    \/ seen'.started = seen.started
    \/ /\ pc = "spawn" /\ ~ref.cleaning
       /\ seen'.started = seen.started \union {index}

LEMMA EveryStartStep == TypeInv /\ [Next]_vars => StartStep
<1> SUFFICES ASSUME TypeInv, [Next]_vars PROVE StartStep
  OBVIOUS
<1> USE DEF StartStep
<1>0. seen \in SeenType /\ ref \in RefType
  BY DEF TypeInv, TypeOK
<1>s. Spawned /\ pc = "spawn" => StartStep
  BY <1>0 DEF Spawned, SeenType
<1>1. CASE RunLoop
  <2>1. CASE CreateRun
    BY <2>1 DEF CreateRun
  <2>2. CASE NextStep
    BY <2>2 DEF NextStep
  <2>3. CASE LoopEnds
    BY <2>3 DEF LoopEnds, Move, Record, BeginSequence
  <2>4. CASE Emit
    BY <2>4 DEF Emit
  <2>5. CASE Authorize
    BY <2>5 DEF Authorize, Move, Record, BeginSequence
  <2>6. CASE RecordPrevented
    BY <2>6 DEF RecordPrevented, Move, Record, BeginSequence
  <2>7. CASE BeforeAction
    BY <2>7 DEF BeforeAction, Raise
  <2>8. CASE Prepare
    BY <2>8 DEF Prepare, Move, Record, BeginSequence
  <2>9. CASE HandleException
    BY <2>9 DEF HandleException
  <2>10. CASE ExecuteSimulated
    BY <2>10 DEF ExecuteSimulated
  <2>11. CASE Execute
    BY <2>11 DEF Execute, BeginSequence
  <2>12. CASE CleanupNoop
    BY <2>12, <1>0 DEF CleanupNoop, CleanupCalled, SeenType
  <2>13. CASE Cleanup
    BY <2>13, <1>0 DEF Cleanup, CleanupCalled, SeenType
  <2>14. CASE CleanupRaised
    BY <2>14 DEF CleanupRaised
  <2>15. CASE SequenceEnds
    BY <2>15 DEF SequenceEnds, Return
  <2>16. CASE ProcessRefused
    BY <2>16, <1>0 DEF ProcessRefused, CleanupCalled, SeenType
  <2>17. CASE ProcessAllowed
    BY <2>17 DEF ProcessAllowed
  <2>18. CASE CommandTimesOut
    BY <2>18, <1>s DEF CommandTimesOut
  <2>19. CASE RecordAction
    BY <2>19 DEF RecordAction, Move, Record, BeginSequence
  <2>20. CASE Finish
    BY <2>20 DEF Finish
  <2>21. CASE WriteReport
    BY <2>21 DEF WriteReport
  <2>22. CASE WriteArtifacts
    BY <2>22 DEF WriteArtifacts, Move, Record, BeginSequence
  <2>23. CASE FinishRun
    BY <2>23 DEF FinishRun
  <2> QED
    BY <1>1, <2>1, <2>2, <2>3, <2>4, <2>5, <2>6, <2>7, <2>8, <2>9, <2>10, <2>11, <2>12, <2>13, <2>14, <2>15, <2>16, <2>17, <2>18, <2>19, <2>20, <2>21, <2>22, <2>23 DEF RunLoop
<1>2. CASE Environment
  <2>1. CASE EmitFileError
    BY <2>1 DEF EmitFileError, Raise, RaiseUncaught
  <2>2. CASE EmitStoreError
    BY <2>2 DEF EmitStoreError, RaiseUncaught
  <2>3. CASE WriteError
    BY <2>3 DEF WriteError
  <2>4. CASE PrepareRaises
    BY <2>4, <1>0 DEF PrepareRaises, CleanupCalled, SeenType
  <2>5. CASE CommandEnds
    BY <2>5, <1>s DEF CommandEnds
  <2>6. CASE CommandNotStarted
    BY <2>6 DEF CommandNotStarted, Return
  <2>7. CASE Cancel
    BY <2>7 DEF Cancel
  <2>8. CASE ClockPasses
    BY <2>8 DEF ClockPasses
  <2>9. CASE Interrupt
    BY <2>9, <1>s DEF Interrupt
  <2>10. CASE Crash
    BY <2>10 DEF Crash
  <2> QED
    BY <1>2, <2>1, <2>2, <2>3, <2>4, <2>5, <2>6, <2>7, <2>8, <2>9, <2>10 DEF Environment
<1>3. CASE UNCHANGED vars
  BY <1>3 DEF vars
<1> QED
  BY <1>1, <1>2, <1>3 DEF Next, Finished

\* Rows are added by the two statements that record an action, and by nothing else.
RowStep == actions' = actions \/ RecordPrevented \/ RecordAction

LEMMA EveryRowStep == [Next]_vars => RowStep
<1> SUFFICES ASSUME [Next]_vars PROVE RowStep
  OBVIOUS
<1> USE DEF RowStep, Move, records
<1>1. CASE RunLoop
  <2>1. CASE CreateRun
    BY <2>1 DEF CreateRun
  <2>2. CASE NextStep
    BY <2>2 DEF NextStep
  <2>3. CASE LoopEnds
    BY <2>3 DEF LoopEnds
  <2>4. CASE Emit
    BY <2>4 DEF Emit
  <2>5. CASE Authorize
    BY <2>5 DEF Authorize
  <2>6. CASE RecordPrevented
    BY <2>6
  <2>7. CASE BeforeAction
    BY <2>7 DEF BeforeAction, Raise
  <2>8. CASE Prepare
    BY <2>8 DEF Prepare
  <2>9. CASE HandleException
    BY <2>9 DEF HandleException
  <2>10. CASE ExecuteSimulated
    BY <2>10 DEF ExecuteSimulated
  <2>11. CASE Execute
    BY <2>11 DEF Execute, BeginSequence
  <2>12. CASE CleanupNoop
    BY <2>12 DEF CleanupNoop
  <2>13. CASE Cleanup
    BY <2>13 DEF Cleanup, BeginSequence
  <2>14. CASE CleanupRaised
    BY <2>14 DEF CleanupRaised
  <2>15. CASE SequenceEnds
    BY <2>15 DEF SequenceEnds, Return
  <2>16. CASE ProcessRefused
    BY <2>16 DEF ProcessRefused, Return
  <2>17. CASE ProcessAllowed
    BY <2>17 DEF ProcessAllowed
  <2>18. CASE CommandTimesOut
    BY <2>18 DEF CommandTimesOut, Return
  <2>19. CASE RecordAction
    BY <2>19
  <2>20. CASE Finish
    BY <2>20 DEF Finish
  <2>21. CASE WriteReport
    BY <2>21 DEF WriteReport
  <2>22. CASE WriteArtifacts
    BY <2>22 DEF WriteArtifacts
  <2>23. CASE FinishRun
    BY <2>23 DEF FinishRun
  <2> QED
    BY <1>1, <2>1, <2>2, <2>3, <2>4, <2>5, <2>6, <2>7, <2>8, <2>9, <2>10, <2>11, <2>12, <2>13, <2>14, <2>15, <2>16, <2>17, <2>18, <2>19, <2>20, <2>21, <2>22, <2>23 DEF RunLoop
<1>2. CASE Environment
  <2>1. CASE EmitFileError
    BY <2>1 DEF EmitFileError, Raise, RaiseUncaught
  <2>2. CASE EmitStoreError
    BY <2>2 DEF EmitStoreError, RaiseUncaught
  <2>3. CASE WriteError
    BY <2>3 DEF WriteError
  <2>4. CASE PrepareRaises
    BY <2>4 DEF PrepareRaises
  <2>5. CASE CommandEnds
    BY <2>5 DEF CommandEnds
  <2>6. CASE CommandNotStarted
    BY <2>6 DEF CommandNotStarted, Return
  <2>7. CASE Cancel
    BY <2>7 DEF Cancel
  <2>8. CASE ClockPasses
    BY <2>8 DEF ClockPasses
  <2>9. CASE Interrupt
    BY <2>9 DEF Interrupt, RaiseUncaught
  <2>10. CASE Crash
    BY <2>10 DEF Crash
  <2> QED
    BY <1>2, <2>1, <2>2, <2>3, <2>4, <2>5, <2>6, <2>7, <2>8, <2>9, <2>10 DEF Environment
<1>3. CASE UNCHANGED vars
  BY <1>3 DEF vars
<1> QED
  BY <1>1, <1>2, <1>3 DEF Next, Finished

-----------------------------------------------------------------------------
(* Evidence.                                                                   *)

\* What a log tells of an action stays told.
LEMMA EvidenceStays ==
    ASSUME NEW log \in Seq(EventType), NEW e \in EventType, NEW i
    PROVE  /\ Intent(log, i) => Intent(Append(log, e), i)
           /\ Evidenced(log, i) => Evidenced(Append(log, e), i)
<1> DEFINE new == Append(log, e)
<1>1. /\ DOMAIN log = 1..Len(log) /\ DOMAIN new = 1..(Len(log) + 1) /\ Len(log) \in Nat
      /\ \A k \in 1..Len(log) : new[k] = log[k]
  BY AppendFacts
<1> HIDE DEF new
<1>2. StatesOf(log, i) \subseteq StatesOf(new, i)
  BY <1>1 DEF StatesOf
<1>3. ASSUME Evidenced(log, i) PROVE Evidenced(new, i)
  <2> DEFINE At(l, first, d) ==
           LET k == first + d - 1
           IN  /\ k \in DOMAIN l
               /\ l[k].step = i
               /\ l[k].state \in FullLifecycle[d]
               /\ l[k].parent = IF d = 1 THEN 0 ELSE l[k - 1].seq
  <2>1. PICK first \in DOMAIN log : \A d \in 1..10 : At(log, first, d)
    BY <1>3 DEF Evidenced
  <2>2. ASSUME NEW d \in 1..10 PROVE At(new, first, d)
    <3> DEFINE k == first + d - 1
    <3>0. At(log, first, d)
      BY <2>1, Zenon
    <3>1. first \in 1..Len(log) /\ k \in 1..Len(log)
      BY <3>0, <1>1
    <3>2. k \in 1..Len(log) /\ (d # 1 => k - 1 \in 1..Len(log))
      BY <3>1, <1>1
    <3>3. new[k] = log[k] /\ (d # 1 => new[k - 1] = log[k - 1]) /\ k \in DOMAIN new
      BY <3>2, <1>1
    <3> QED
      BY <3>0, <3>3
  <2>3. first \in DOMAIN new
    BY <1>1
  <2> QED
    BY <2>2, <2>3 DEF Evidenced
<1> QED
  BY <1>2, <1>3 DEF Intent, new

\* A log that ends with the first events of a lifecycle tells their states, and the whole
\* lifecycle once there are ten of them.
LEMMA TailTells ==
    ASSUME NEW log \in Seq(EventType), NEW i
    PROVE  /\ HasTail(log, i, 4) => Intent(log, i)
           /\ HasTail(log, i, 10) => Evidenced(log, i)
<1>1. Len(log) \in Nat /\ DOMAIN log = 1..Len(log)
  OBVIOUS
<1>2. ASSUME HasTail(log, i, 4) PROVE Intent(log, i)
  <2>1. Len(log) >= 4
    BY <1>1, <1>2 DEF HasTail
  <2>2. \A e \in 1..4 : Len(log) - 4 + e \in DOMAIN log
    BY <1>1, <2>1
  <2>3. \A e \in 1..4 : /\ log[Len(log) - 4 + e].step = i
                        /\ log[Len(log) - 4 + e].state \in FullLifecycle[e]
    BY <1>2 DEF HasTail
  <2>4. \A e \in 1..4 : log[Len(log) - 4 + e].state \in StatesOf(log, i)
    BY <2>2, <2>3 DEF StatesOf
  <2>5. /\ FullLifecycle[1] = {"planned"} /\ FullLifecycle[2] = {"authorized"}
        /\ FullLifecycle[3] = {"prepared"} /\ FullLifecycle[4] = {"attempted"}
    BY DEF FullLifecycle
  <2>6. 1 \in 1..4 /\ 2 \in 1..4 /\ 3 \in 1..4 /\ 4 \in 1..4
    OBVIOUS
  <2> QED
    BY <2>3, <2>4, <2>5, <2>6 DEF Intent
<1>3. ASSUME HasTail(log, i, 10) PROVE Evidenced(log, i)
  <2> DEFINE first == Len(log) - 9
  <2>1. first \in DOMAIN log
    BY <1>1, <1>3 DEF HasTail
  <2>2. ASSUME NEW d \in 1..10
        PROVE  LET k == first + d - 1
               IN  /\ k \in DOMAIN log
                   /\ log[k].step = i
                   /\ log[k].state \in FullLifecycle[d]
                   /\ log[k].parent = IF d = 1 THEN 0 ELSE log[k - 1].seq
    <3>1. first + d - 1 = Len(log) - 10 + d /\ first + d - 1 \in DOMAIN log
      BY <1>1, <2>1
    <3> QED
      BY <1>3, <3>1 DEF HasTail
  <2> QED
    BY <2>1, <2>2 DEF Evidenced
<1> QED
  BY <1>2, <1>3

\* Before a command runs, the intent of its action is in the database.
LEMMA IntentBeforeSpawn ==
    ASSUME TypeInv, FlowInv, TailInv, pc = "spawn", ~ref.cleaning
    PROVE  Intent(stored, index)
<1>1. pc \in OnPath /\ Depth = 4
  BY Depths DEF Depth, OnPath, AtAction, Points, FinalPoints
<1>2. ~act.error /\ ~raised
  BY DEF FlowInv, BeforeFinally, InFinally, FinalPoints
<1>3. HasTail(stored, index, 4)
  BY <1>1, <1>2 DEF TailInv, Smooth
<1> QED
  BY <1>3, TailTells DEF TypeInv, TypeOK

\* When a row is about to say that an action went well, all of it is in both logs.
LEMMA EvidenceBeforeRow ==
    ASSUME TypeInv, FlowInv, TailInv, pc = "record", Verified
    PROVE  Evidenced(timeline, index) /\ Evidenced(stored, index)
<1>1. pc \in OnPath /\ Depth = 10
  BY Depths DEF Depth, OnPath, AtAction, Points, FinalPoints
<1>2. ~act.error /\ ~raised
  BY DEF FlowInv, BeforeFinally, InFinally, FinalPoints, Verified
<1>3. Smooth
  BY <1>2 DEF Smooth, Verified, Executions
<1>4. HasTail(timeline, index, 10) /\ HasTail(stored, index, 10)
  BY <1>1, <1>3 DEF TailInv
<1> QED
  BY <1>4, TailTells DEF TypeInv, TypeOK

\* EvidenceInv is inductive, given what is known of the logs at each point.
LEMMA EvidenceStep ==
    TypeInv /\ FlowInv /\ TailInv /\ EvidenceInv /\ [Next]_vars => EvidenceInv'
<1> SUFFICES ASSUME TypeInv, FlowInv, TailInv, EvidenceInv, [Next]_vars PROVE EvidenceInv'
  OBVIOUS
<1>0. /\ timeline \in Seq(EventType) /\ stored \in Seq(EventType) /\ actions \in Seq(RowType)
      /\ faults \in Nat
      /\ pc \in EmitPoints => Event \in EventType
  BY EventTyped, CampaignAssumption DEF TypeInv, TypeOK
<1>1. /\ timeline' = timeline \/ (pc \in EmitPoints /\ timeline' = Append(timeline, Event))
      /\ stored' = stored \/ (pc \in EmitPoints /\ stored' = Append(stored, Event))
  BY EveryLogStep DEF LogStep, Emit
<1>2. \A i : /\ Evidenced(timeline, i) => Evidenced(timeline', i)
             /\ Evidenced(stored, i) => Evidenced(stored', i)
             /\ Intent(stored, i) => Intent(stored', i)
  BY <1>0, <1>1, EvidenceStays
<1>3. \A i \in seen'.started : Intent(stored', i)
  BY <1>2, EveryStartStep, IntentBeforeSpawn DEF StartStep, EvidenceInv
<1>4. VerifiedIsEvidenced'
  <2>1. CASE actions' = actions
    BY <1>2, <2>1 DEF EvidenceInv, VerifiedIsEvidenced
  <2>2. ASSUME NEW row, row.step = index, actions' = Append(actions, row),
               row.status \in {"simulated", "completed"} => pc = "record" /\ Verified
        PROVE  VerifiedIsEvidenced'
    <3>1. /\ DOMAIN actions' = 1..(Len(actions) + 1)
          /\ DOMAIN actions = 1..Len(actions) /\ Len(actions) \in Nat
          /\ \A k \in 1..Len(actions) : actions'[k] = actions[k]
          /\ actions'[Len(actions) + 1] = row
      BY <1>0, <2>2
    <3> SUFFICES ASSUME NEW k \in DOMAIN actions',
                        actions'[k].status \in {"simulated", "completed"}
                 PROVE  Evidenced(timeline', actions'[k].step) /\ Evidenced(stored', actions'[k].step)
      BY DEF VerifiedIsEvidenced
    <3>2. CASE k \in DOMAIN actions
      BY <1>2, <3>1, <3>2 DEF EvidenceInv, VerifiedIsEvidenced
    <3>3. CASE k = Len(actions) + 1
      <4>1. Evidenced(timeline, index) /\ Evidenced(stored, index)
        BY <2>2, <3>1, <3>3, EvidenceBeforeRow
      <4> QED
        BY <1>2, <2>2, <3>1, <3>3, <4>1
    <3> QED
      BY <3>1, <3>2, <3>3
  <2>3. CASE RecordPrevented
    <3> DEFINE row == Row("prevented", "not_required", "not_applicable", FALSE)
    <3>1. row.step = index /\ row.status = "prevented" /\ actions' = Append(actions, row)
      BY <2>3 DEF RecordPrevented, Record, Row
    <3> QED
      BY <2>2, <3>1
  <2>4. CASE RecordAction
    <3> DEFINE row == Row(RowStatus, act.cleanup, act.detection, act.executed)
    <3>1. row.step = index /\ row.status = RowStatus /\ actions' = Append(actions, row) /\ pc = "record"
      BY <2>4 DEF RecordAction, Record, Row
    <3>2. RowStatus \in {"simulated", "completed"} => Verified
      BY DEF RowStatus, Unsuccessful
    <3> QED
      BY <2>2, <3>1, <3>2
  <2> QED
    BY <2>1, <2>3, <2>4, EveryRowStep DEF RowStep
<1>5. StoreFollowsTimeline'
  <2>1. StoreFollowsTimeline
    BY DEF EvidenceInv
  <2>2. CASE UNCHANGED <<timeline, stored>> /\ (faults' = faults \/ faults' = faults + 1)
    BY <1>0, <2>1, <2>2 DEF StoreFollowsTimeline
  <2>3. CASE Emit
    <3>1. /\ timeline' = Append(timeline, Event) /\ stored' = Append(stored, Event)
          /\ faults' = faults /\ Event \in EventType
      BY <2>3, <1>0 DEF Emit
    <3>2. /\ DOMAIN timeline' = 1..(Len(timeline) + 1) /\ DOMAIN stored' = 1..(Len(stored) + 1)
          /\ DOMAIN timeline = 1..Len(timeline) /\ DOMAIN stored = 1..Len(stored)
          /\ Len(timeline') = Len(timeline) + 1 /\ Len(stored') = Len(stored) + 1
          /\ Len(timeline) \in Nat /\ Len(stored) \in Nat
          /\ \A k \in 1..Len(timeline) : timeline'[k] = timeline[k]
          /\ \A k \in 1..Len(stored) : stored'[k] = stored[k]
          /\ timeline'[Len(timeline) + 1] = Event /\ stored'[Len(stored) + 1] = Event
      BY <1>0, <3>1, AppendFacts
    <3>3. ASSUME NEW k \in DOMAIN stored'
          PROVE  \E j \in DOMAIN timeline' : timeline'[j] = stored'[k]
      <4>1. CASE k \in DOMAIN stored
        <5>1. PICK j \in DOMAIN timeline : timeline[j] = stored[k]
          BY <4>1, <2>1 DEF StoreFollowsTimeline
        <5>2. j \in DOMAIN timeline' /\ timeline'[j] = stored'[k]
          BY <3>2, <4>1, <5>1
        <5> QED
          BY <5>2
      <4>2. CASE k = Len(stored) + 1
        <5>1. Len(timeline) + 1 \in DOMAIN timeline'
          BY <3>2
        <5> QED
          BY <3>2, <4>2, <5>1
      <4> QED
        BY <3>2, <4>1, <4>2
    <3>4. Len(timeline') - Len(stored') <= faults'
      BY <1>0, <2>1, <3>1, <3>2 DEF StoreFollowsTimeline
    <3> QED
      BY <3>3, <3>4 DEF StoreFollowsTimeline
  <2>4. CASE /\ pc \in EmitPoints /\ stored' = stored /\ faults' = faults + 1
             /\ timeline' = Append(timeline, Event)
    <3>1. /\ DOMAIN timeline' = 1..(Len(timeline) + 1) /\ DOMAIN timeline = 1..Len(timeline)
          /\ Len(timeline') = Len(timeline) + 1
          /\ Len(timeline) \in Nat /\ Len(stored) \in Nat
          /\ \A k \in 1..Len(timeline) : timeline'[k] = timeline[k]
      BY <1>0, <2>4, AppendFacts
    <3> QED
      BY <1>0, <2>1, <2>4, <3>1 DEF StoreFollowsTimeline
  <2> QED
    BY <2>2, <2>3, <2>4, EveryLogStep DEF LogStep
<1> QED
  BY <1>3, <1>4, <1>5 DEF EvidenceInv

LEMMA EvidenceInit == Init => FlowInv /\ TailInv /\ EvidenceInv
<1> SUFFICES ASSUME Init PROVE FlowInv /\ TailInv /\ EvidenceInv
  OBVIOUS
<1>1. /\ pc = "start" /\ ~raised /\ ~act.error /\ timeline = <<>> /\ stored = <<>>
      /\ actions = <<>> /\ faults = 0 /\ seen.started = {}
  BY DEF Init, FreshAction
<1>2. FlowInv
  BY <1>1 DEF FlowInv
<1>3. TailInv
  BY <1>1 DEF TailInv, OnPath, AtAction
<1>4. EvidenceInv
  BY <1>1 DEF EvidenceInv, VerifiedIsEvidenced, StoreFollowsTimeline
<1> QED
  BY <1>2, <1>3, <1>4

\* Whatever writes fail and wherever the run is interrupted or killed: no command runs
\* before its whole intent is in the database, a row that says simulated or completed has
\* its complete, chained lifecycle in both logs, and the database knows no event the
\* timeline file lacks.
THEOREM LogsAreEvidenceHolds == Spec => []LogsAreEvidence
<1>1. EvidenceInv => LogsAreEvidence
  BY DEF EvidenceInv, LogsAreEvidence, EvidenceBeforeExecution, Intent
<1> QED
  BY <1>1, TypeInit, TypeStep, EvidenceInit, FlowStep, TailStep, EvidenceStep, PTL DEF Spec

-----------------------------------------------------------------------------
(* Rows and status.                                                            *)

\* Points between the actions, and before and after all of them.
Between == Points \ (AtAction \union FinalPoints)

\* An event is of the current action, which emits it.
LEMMA LogOfIndex ==
    ASSUME TypeInv, LogStep, \A j \in DOMAIN timeline : timeline[j].step \in 1..index
    PROVE  \A j \in DOMAIN timeline' : timeline'[j].step \in 1..index
<1>1. CASE timeline' = timeline
  BY <1>1
<1>2. CASE pc \in EmitPoints /\ timeline' = Append(timeline, Event)
  <2>1. index \in Actions /\ index \in Nat
    BY <1>2, IndexIsNat DEF TypeInv, Assigned, AtAction, Points, EmitPoints, TryPoints, FinalPoints
  <2>2. Len(Steps) \in Nat /\ Actions = 1..Len(Steps)
    BY CampaignAssumption DEF Actions
  <2>3. Event.step \in 1..index
    BY <2>1, <2>2 DEF Event
  <2>4. timeline \in Seq(EventType) /\ Event \in EventType
    BY <1>2, EventTyped DEF TypeInv, TypeOK
  <2> QED
    BY <1>2, <2>3, <2>4, AppendFacts
<1> QED
  BY <1>1, <1>2 DEF LogStep, Emit

\* A step that records no row and takes up no action.
LEMMA QuietRows ==
    ASSUME TypeInv, RowInv, LogStep, UNCHANGED <<index, stop_campaign, actions>>,
           pc' \in AtAction => pc \in AtAction,
           pc' \in Between => pc \in Between
    PROVE  RowInv'
<1>1. \A j \in DOMAIN timeline' : timeline'[j].step \in 1..index
  BY LogOfIndex DEF RowInv
<1> QED
  BY <1>1 DEF RowInv, Ends, Between, Actions

\* A step that records the row of the current action.
LEMMA NewRow ==
    ASSUME TypeInv, RowInv, pc \in AtAction, NEW row \in RowType, NEW stop,
           Record(row, stop), row.step = index,
           row.status = "cancelled" => stop,
           row.status \in Failing /\ Steps[index].on_failure = "stop" => stop
    PROVE  RowInv'
<1>1. /\ actions' = Append(actions, row) /\ stop_campaign' = stop /\ pc' = "next"
      /\ index' = index /\ timeline' = timeline
  BY DEF Record, GoTo, logs
<1>2. /\ Len(actions) = index - 1 /\ index \in Nat /\ actions \in Seq(RowType)
      /\ Len(actions) \in Nat
  BY IndexIsNat DEF RowInv, TypeInv, TypeOK
<1>3. /\ DOMAIN actions' = 1..index /\ DOMAIN actions = 1..(index - 1) /\ Len(actions') = index
      /\ \A k \in 1..(index - 1) : actions'[k] = actions[k]
      /\ actions'[index] = row
  BY <1>1, <1>2
<1>4. \A k \in DOMAIN actions : ~Ends(k)
  BY <1>2, <1>3 DEF RowInv
<1>5. \A k \in DOMAIN actions' : Ends(k)' => k = index /\ stop
  BY <1>1, <1>3, <1>4 DEF Ends
<1>6. \A k \in DOMAIN actions' : actions'[k].step = k /\ k <= index
  BY <1>2, <1>3 DEF RowInv
<1> QED
  BY <1>1, <1>3, <1>5, <1>6 DEF RowInv, AtAction

\* The rows are those of the steps behind after every step.
LEMMA RowsStep == TypeInv /\ RowInv /\ [Next]_vars => RowInv'
<1> SUFFICES ASSUME TypeInv, RowInv, [Next]_vars PROVE RowInv'
  OBVIOUS
<1> USE DEF GoTo, Move, control, records
<1>0. TypeOK /\ LogStep /\ index \in Nat
  BY EveryLogStep, IndexIsNat DEF TypeInv
<1>1. CASE RunLoop
  <2>1. CASE CreateRun
    BY <2>1, <1>0, QuietRows DEF CreateRun, Between, AtAction, Points, EmitPoints, TryPoints, FinalPoints
  <2>2. CASE NextStep
    <3>1. /\ pc = "next" /\ ~stop_campaign /\ pc' = "planned" /\ index' = index + 1
          /\ UNCHANGED <<actions, stop_campaign, timeline>> /\ index \in Nat
      BY <2>2, <1>0 DEF NextStep, logs
    <3>2. Len(actions) = index
      BY <3>1 DEF RowInv, AtAction, Points, FinalPoints
    <3>3. \A k \in DOMAIN actions : ~Ends(k)
      BY <3>1 DEF RowInv
    <3> QED
      BY <3>1, <3>2, <3>3 DEF RowInv, Ends, AtAction, Points, EmitPoints
  <2>3. CASE LoopEnds
    BY <2>3, <1>0, QuietRows DEF LoopEnds, Between, AtAction, Points, EmitPoints, TryPoints, FinalPoints
  <2>4. CASE Emit
    <3>1. pc' = Following /\ pc \in EmitPoints /\ UNCHANGED <<index, stop_campaign, actions>>
      BY <2>4 DEF Emit
    <3>2. pc \in AtAction /\ (pc' \in AtAction \/ pc' \in FinalPoints)
      BY <3>1 DEF Following, AtAction, Points, EmitPoints, TryPoints, FinalPoints
    <3> QED
      BY <3>1, <3>2, <1>0, QuietRows DEF Between
  <2>5. CASE Authorize
    BY <2>5, <1>0, QuietRows DEF Authorize, Between, AtAction, Points, EmitPoints, TryPoints, FinalPoints
  <2>6. CASE RecordPrevented
    <3> DEFINE row == Row("prevented", "not_required", "not_applicable", FALSE)
    <3>1. pc \in AtAction /\ Record(row, OnFailure = "stop")
      BY <2>6 DEF RecordPrevented, AtAction, Points, FinalPoints
    <3>2. row \in RowType /\ row.step = index /\ row.status = "prevented"
      BY <1>0 DEF Row, RowType
    <3> QED
      BY <3>1, <3>2, NewRow DEF OnFailure
  <2>7. CASE BeforeAction
    BY <2>7, <1>0, QuietRows DEF BeforeAction, Raise, Between, AtAction, Points, EmitPoints, TryPoints, FinalPoints
  <2>8. CASE Prepare
    BY <2>8, <1>0, QuietRows DEF Prepare, Between, AtAction, Points, EmitPoints, TryPoints, FinalPoints
  <2>9. CASE HandleException
    BY <2>9, <1>0, QuietRows DEF HandleException, Between, AtAction, Points, EmitPoints, TryPoints, FinalPoints
  <2>10. CASE ExecuteSimulated
    BY <2>10, <1>0, QuietRows DEF ExecuteSimulated, Between, AtAction, Points, EmitPoints, TryPoints, FinalPoints
  <2>11. CASE Execute
    BY <2>11, <1>0, QuietRows DEF Execute, BeginSequence, Between, AtAction, Points, EmitPoints, TryPoints, FinalPoints
  <2>12. CASE CleanupNoop
    BY <2>12, <1>0, QuietRows DEF CleanupNoop, Between, AtAction, Points, EmitPoints, TryPoints, FinalPoints
  <2>13. CASE Cleanup
    BY <2>13, <1>0, QuietRows DEF Cleanup, BeginSequence, Between, AtAction, Points, EmitPoints, TryPoints, FinalPoints
  <2>14. CASE CleanupRaised
    BY <2>14, <1>0, QuietRows DEF CleanupRaised, Between, AtAction, Points, EmitPoints, TryPoints, FinalPoints
  <2>15. CASE SequenceEnds
    BY <2>15, <1>0, QuietRows DEF SequenceEnds, Return, Between, AtAction, Points, EmitPoints, TryPoints, FinalPoints
  <2>16. CASE ProcessRefused
    BY <2>16, <1>0, QuietRows DEF ProcessRefused, Return, Between, AtAction, Points, EmitPoints, TryPoints, FinalPoints
  <2>17. CASE ProcessAllowed
    BY <2>17, <1>0, QuietRows DEF ProcessAllowed, Between, AtAction, Points, EmitPoints, TryPoints, FinalPoints
  <2>18. CASE CommandTimesOut
    BY <2>18, <1>0, QuietRows DEF CommandTimesOut, Return, Between, AtAction, Points, EmitPoints, TryPoints, FinalPoints
  <2>19. CASE RecordAction
    <3> DEFINE row == Row(RowStatus, act.cleanup, act.detection, act.executed)
    <3>1. pc \in AtAction /\ Record(row, act.cancelled \/ (~Verified /\ OnFailure = "stop"))
      BY <2>19 DEF RecordAction, AtAction, Points, FinalPoints
    <3>2. row \in RowType
      BY <2>19, <1>0 DEF RecordAction, Row, RowType, RowStatus, Unsuccessful, Failing,
         TypeOK, ActType, TypeInv, Assigned
    <3>3. row.step = index /\ row.status = RowStatus
      BY DEF Row
    <3>4. /\ RowStatus = "cancelled" => act.cancelled
          /\ RowStatus \in Failing => ~Verified
      BY DEF RowStatus, Unsuccessful, Failing
    <3> QED
      BY <3>1, <3>2, <3>3, <3>4, NewRow DEF OnFailure
  <2>20. CASE Finish
    BY <2>20, <1>0, QuietRows DEF Finish, Between, AtAction, Points, EmitPoints, TryPoints, FinalPoints
  <2>21. CASE WriteReport
    BY <2>21, <1>0, QuietRows DEF WriteReport, Between, AtAction, Points, EmitPoints, TryPoints, FinalPoints
  <2>22. CASE WriteArtifacts
    BY <2>22, <1>0, QuietRows DEF WriteArtifacts, Between, AtAction, Points, EmitPoints, TryPoints, FinalPoints
  <2>23. CASE FinishRun
    BY <2>23, <1>0, QuietRows DEF FinishRun, Between, AtAction, Points, EmitPoints, TryPoints, FinalPoints
  <2> QED
    BY <1>1, <2>1, <2>2, <2>3, <2>4, <2>5, <2>6, <2>7, <2>8, <2>9, <2>10, <2>11, <2>12, <2>13, <2>14, <2>15, <2>16, <2>17, <2>18, <2>19, <2>20, <2>21, <2>22, <2>23 DEF RunLoop
<1>2. CASE Environment
  <2>1. CASE EmitFileError
    BY <2>1, <1>0, QuietRows DEF EmitFileError, Raise, RaiseUncaught, InTry, Between, AtAction, Points, EmitPoints, TryPoints, FinalPoints
  <2>2. CASE EmitStoreError
    BY <2>2, <1>0, QuietRows DEF EmitStoreError, RaiseUncaught, InTry, Between, AtAction, Points, EmitPoints, TryPoints, FinalPoints
  <2>3. CASE WriteError
    BY <2>3, <1>0, QuietRows DEF WriteError, Between, AtAction, Points, EmitPoints, TryPoints, FinalPoints
  <2>4. CASE PrepareRaises
    BY <2>4, <1>0, QuietRows DEF PrepareRaises, Between, AtAction, Points, EmitPoints, TryPoints, FinalPoints
  <2>5. CASE CommandEnds
    BY <2>5, <1>0, QuietRows DEF CommandEnds, Between, AtAction, Points, EmitPoints, TryPoints, FinalPoints
  <2>6. CASE CommandNotStarted
    BY <2>6, <1>0, QuietRows DEF CommandNotStarted, Return, Between, AtAction, Points, EmitPoints, TryPoints, FinalPoints
  <2>7. CASE Cancel
    BY <2>7, <1>0, QuietRows DEF Cancel, Between, AtAction, Points, EmitPoints, TryPoints, FinalPoints
  <2>8. CASE ClockPasses
    BY <2>8, <1>0, QuietRows DEF ClockPasses, Between, AtAction, Points, EmitPoints, TryPoints, FinalPoints
  <2>9. CASE Interrupt
    BY <2>9, <1>0, QuietRows DEF Interrupt, RaiseUncaught, InTry, Between, AtAction, Points, EmitPoints, TryPoints, FinalPoints
  <2>10. CASE Crash
    BY <2>10, <1>0, QuietRows DEF Crash, Between, AtAction, Points, EmitPoints, TryPoints, FinalPoints
  <2> QED
    BY <1>2, <2>1, <2>2, <2>3, <2>4, <2>5, <2>6, <2>7, <2>8, <2>9, <2>10 DEF Environment
<1>3. CASE UNCHANGED vars
  BY <1>3, <1>0, QuietRows DEF vars
<1> QED
  BY <1>1, <1>2, <1>3 DEF Next, Finished

\* A step that adds no event and no row, and after a failed cleanup only goes on to say so.
LEMMA QuietCleanup ==
    ASSUME CleanupInv, UNCHANGED <<index, actions, timeline>>,
           pc' \in AtAction => /\ pc \in AtAction
                               /\ pc \in {"verify", "record"} => pc' = pc /\ act' = act
    PROVE  CleanupInv'
  BY DEF CleanupInv, Verified, Good

\* An event that reports a failed cleanup leaves an action that is not verified.
LEMMA CleanupEvent ==
    ASSUME TypeInv, FlowInv, RowInv, CleanupInv, pc \in EmitPoints,
           UNCHANGED <<index, actions>>, timeline' = Append(timeline, Event),
           pc' \in AtAction => Emit \/ pc \in TryPoints \union {"handler"}
    PROVE  CleanupInv'
<1>1. /\ timeline \in Seq(EventType) /\ Event \in EventType /\ actions \in Seq(RowType)
      /\ act \in ActType /\ index \in Nat
  BY EventTyped, IndexIsNat DEF TypeInv, TypeOK
<1>2. /\ DOMAIN timeline' = 1..(Len(timeline) + 1) /\ DOMAIN timeline = 1..Len(timeline)
      /\ \A k \in 1..Len(timeline) : timeline'[k] = timeline[k]
      /\ timeline'[Len(timeline) + 1] = Event
  BY <1>1, AppendFacts
<1>3. pc \in AtAction /\ Len(actions) = index - 1
  BY DEF RowInv, AtAction, Points, EmitPoints, TryPoints, FinalPoints
<1>4. index \notin DOMAIN actions
  BY <1>1, <1>3
<1>5. CASE pc \in {"cleaned", "cleanup_failed"}
  <2>1. pc' \in AtAction => pc' = "verify" /\ act' = act
    BY <1>5 DEF Emit, GoTo, Following, TryPoints, AtAction, FinalPoints
  <2>2. Event.state = "cleanup_failed" => ~Verified
    BY <1>5, <1>1 DEF Event, EventState, FlowInv, Verified
  <2>3. Event.step = index
    BY DEF Event
  <2>4. \A j \in DOMAIN timeline :
           timeline[j].state = "cleanup_failed" => timeline[j].step # index
    BY <1>3, <1>5 DEF CleanupInv
  <2> QED
    BY <1>2, <1>4, <2>1, <2>2, <2>3, <2>4 DEF CleanupInv, Good, Verified
<1>6. CASE pc = "verify"
  <2>1. pc' \in AtAction => pc' = "record" /\ act' = act
    BY <1>6 DEF Emit, GoTo, Following, TryPoints, AtAction, FinalPoints
  <2>2. Event.state # "cleanup_failed"
    BY <1>6 DEF Event, EventState, Unsuccessful
  <2> QED
    BY <1>2, <1>3, <1>6, <2>1, <2>2 DEF CleanupInv, Good, Verified
<1>7. CASE pc \notin {"cleaned", "cleanup_failed", "verify"}
  <2>1. Event.state # "cleanup_failed"
    <3>1. CASE pc = "detection"
      <4>1. index \in Actions
        BY <3>1 DEF TypeInv, Assigned, AtAction, Points, EmitPoints, TryPoints, FinalPoints
      <4>2. Detections[Ability] \in {"detected", "missed", "not_evaluated"}
        BY <4>1, CampaignAssumption DEF Ability, Abilities
      <4> QED
        BY <3>1, <4>2 DEF Event, EventState
    <3>2. CASE pc = "executed"
      BY <1>1, <3>2 DEF Event, EventState, ActType
    <3>3. CASE pc \notin {"detection", "executed"}
      BY <1>7, <3>3 DEF Event, EventState, Unsuccessful
    <3> QED
      BY <3>1, <3>2, <3>3
  <2>2. \A j \in DOMAIN timeline :
           timeline[j].state = "cleanup_failed" => timeline[j].step # index
    BY <1>3, <1>7 DEF CleanupInv, EmitPoints, TryPoints
  <2> QED
    BY <1>2, <2>1, <2>2 DEF CleanupInv, Good
<1> QED
  BY <1>5, <1>6, <1>7

\* No row hides a failed cleanup: a row that is added is not of an action whose cleanup
\* failed, or does not say that it went well.
LEMMA CleanupRow ==
    ASSUME TypeInv, RowInv, CleanupInv, NEW row, NEW stop, Record(row, stop),
           pc = "record_prevented" \/ (pc = "record" /\ (row.status \in Failing \/ Verified))
    PROVE  CleanupInv'
<1>1. /\ actions' = Append(actions, row) /\ pc' = "next" /\ timeline' = timeline
      /\ index' = index
  BY DEF Record, GoTo, logs
<1>2. /\ Len(actions) = index - 1 /\ index \in Nat /\ actions \in Seq(RowType) /\ pc \in AtAction
  BY IndexIsNat DEF RowInv, TypeInv, TypeOK, AtAction, Points, FinalPoints
<1>3. /\ DOMAIN actions' = 1..index /\ DOMAIN actions = 1..(index - 1)
      /\ \A k \in 1..(index - 1) : actions'[k] = actions[k]
      /\ actions'[index] = row
  BY <1>1, <1>2
<1>4. \A j \in DOMAIN timeline :
         timeline[j].state = "cleanup_failed" /\ timeline[j].step = index =>
            row.status \in Failing
  BY <1>2 DEF CleanupInv
<1>5. \A j \in DOMAIN timeline :
         timeline[j].state = "cleanup_failed" /\ timeline[j].step \in DOMAIN actions' =>
            actions'[timeline[j].step].status \notin {"simulated", "completed"}
  BY <1>2, <1>3, <1>4 DEF CleanupInv, Good, Failing
<1> QED
  BY <1>1, <1>5 DEF CleanupInv, Good, AtAction

LEMMA FailedCleanupStep ==
    TypeInv /\ FlowInv /\ RowInv /\ CleanupInv /\ [Next]_vars => CleanupInv'
<1> SUFFICES ASSUME TypeInv, FlowInv, RowInv, CleanupInv, [Next]_vars PROVE CleanupInv'
  OBVIOUS
<1> USE DEF GoTo, Move, control, logs, records
<1>0. index \in Nat
  BY IndexIsNat DEF TypeInv
<1>1. CASE RunLoop
  <2>1. CASE CreateRun
    BY <2>1, QuietCleanup DEF CreateRun, AtAction, Points, EmitPoints, TryPoints, FinalPoints
  <2>2. CASE NextStep
    <3>1. /\ index' = index + 1 /\ UNCHANGED <<actions, timeline>> /\ index \in Nat
      BY <2>2, <1>0 DEF NextStep
    <3>2. \A j \in DOMAIN timeline : timeline[j].step # index'
      BY <3>1 DEF RowInv
    <3> QED
      BY <3>1, <3>2 DEF CleanupInv, Good
  <2>3. CASE LoopEnds
    BY <2>3, QuietCleanup DEF LoopEnds, AtAction, Points, EmitPoints, TryPoints, FinalPoints
  <2>4. CASE Emit
    <3>1. pc \in EmitPoints /\ UNCHANGED <<index, actions>> /\ timeline' = Append(timeline, Event)
      BY <2>4 DEF Emit
    <3> QED
      BY <2>4, <3>1, CleanupEvent
  <2>5. CASE Authorize
    BY <2>5, QuietCleanup DEF Authorize, AtAction, Points, EmitPoints, TryPoints, FinalPoints
  <2>6. CASE RecordPrevented
    BY <2>6, CleanupRow DEF RecordPrevented
  <2>7. CASE BeforeAction
    BY <2>7, QuietCleanup DEF BeforeAction, Raise, AtAction, Points, EmitPoints, TryPoints, FinalPoints
  <2>8. CASE Prepare
    BY <2>8, QuietCleanup DEF Prepare, AtAction, Points, EmitPoints, TryPoints, FinalPoints
  <2>9. CASE HandleException
    BY <2>9, QuietCleanup DEF HandleException, AtAction, Points, EmitPoints, TryPoints, FinalPoints
  <2>10. CASE ExecuteSimulated
    BY <2>10, QuietCleanup DEF ExecuteSimulated, AtAction, Points, EmitPoints, TryPoints, FinalPoints
  <2>11. CASE Execute
    BY <2>11, QuietCleanup DEF Execute, BeginSequence, AtAction, Points, EmitPoints, TryPoints, FinalPoints
  <2>12. CASE CleanupNoop
    BY <2>12, QuietCleanup DEF CleanupNoop, AtAction, Points, EmitPoints, TryPoints, FinalPoints
  <2>13. CASE Cleanup
    BY <2>13, QuietCleanup DEF Cleanup, BeginSequence, AtAction, Points, EmitPoints, TryPoints, FinalPoints
  <2>14. CASE CleanupRaised
    BY <2>14, QuietCleanup DEF CleanupRaised, AtAction, Points, EmitPoints, TryPoints, FinalPoints
  <2>15. CASE SequenceEnds
    BY <2>15, QuietCleanup DEF SequenceEnds, Return, AtAction, Points, EmitPoints, TryPoints, FinalPoints
  <2>16. CASE ProcessRefused
    BY <2>16, QuietCleanup DEF ProcessRefused, Return, AtAction, Points, EmitPoints, TryPoints, FinalPoints
  <2>17. CASE ProcessAllowed
    BY <2>17, QuietCleanup DEF ProcessAllowed, AtAction, Points, EmitPoints, TryPoints, FinalPoints
  <2>18. CASE CommandTimesOut
    BY <2>18, QuietCleanup DEF CommandTimesOut, Return, AtAction, Points, EmitPoints, TryPoints, FinalPoints
  <2>19. CASE RecordAction
    <3> DEFINE row == Row(RowStatus, act.cleanup, act.detection, act.executed)
    <3>1. pc = "record" /\ Record(row, act.cancelled \/ (~Verified /\ OnFailure = "stop"))
      BY <2>19 DEF RecordAction
    <3>2. row.status \in Failing \/ Verified
      BY DEF Row, RowStatus, Unsuccessful, Failing
    <3> QED
      BY <3>1, <3>2, CleanupRow
  <2>20. CASE Finish
    BY <2>20, QuietCleanup DEF Finish, AtAction, Points, EmitPoints, TryPoints, FinalPoints
  <2>21. CASE WriteReport
    BY <2>21, QuietCleanup DEF WriteReport, AtAction, Points, EmitPoints, TryPoints, FinalPoints
  <2>22. CASE WriteArtifacts
    BY <2>22, QuietCleanup DEF WriteArtifacts, AtAction, Points, EmitPoints, TryPoints, FinalPoints
  <2>23. CASE FinishRun
    BY <2>23, QuietCleanup DEF FinishRun, AtAction, Points, EmitPoints, TryPoints, FinalPoints
  <2> QED
    BY <1>1, <2>1, <2>2, <2>3, <2>4, <2>5, <2>6, <2>7, <2>8, <2>9, <2>10, <2>11, <2>12, <2>13, <2>14, <2>15, <2>16, <2>17, <2>18, <2>19, <2>20, <2>21, <2>22, <2>23 DEF RunLoop
<1>2. CASE Environment
  <2>1. CASE EmitFileError
    BY <2>1, QuietCleanup DEF EmitFileError, Raise, RaiseUncaught, InTry, AtAction, Points, EmitPoints, TryPoints, FinalPoints
  <2>2. CASE EmitStoreError
    <3>1. /\ pc \in EmitPoints /\ UNCHANGED <<index, actions>> /\ timeline' = Append(timeline, Event)
          /\ pc' \in AtAction => InTry \/ pc = "handler"
      BY <2>2 DEF EmitStoreError, RaiseUncaught, AtAction, FinalPoints
    <3>2. pc' \in AtAction => pc \in TryPoints \union {"handler"}
      BY <3>1 DEF InTry, EmitPoints, TryPoints
    <3> QED
      BY <3>1, <3>2, CleanupEvent
  <2>3. CASE WriteError
    BY <2>3, QuietCleanup DEF WriteError, AtAction, Points, EmitPoints, TryPoints, FinalPoints
  <2>4. CASE PrepareRaises
    BY <2>4, QuietCleanup DEF PrepareRaises, AtAction, Points, EmitPoints, TryPoints, FinalPoints
  <2>5. CASE CommandEnds
    BY <2>5, QuietCleanup DEF CommandEnds, AtAction, Points, EmitPoints, TryPoints, FinalPoints
  <2>6. CASE CommandNotStarted
    BY <2>6, QuietCleanup DEF CommandNotStarted, Return, AtAction, Points, EmitPoints, TryPoints, FinalPoints
  <2>7. CASE Cancel
    BY <2>7, QuietCleanup DEF Cancel, AtAction, Points, EmitPoints, TryPoints, FinalPoints
  <2>8. CASE ClockPasses
    BY <2>8, QuietCleanup DEF ClockPasses, AtAction, Points, EmitPoints, TryPoints, FinalPoints
  <2>9. CASE Interrupt
    BY <2>9, QuietCleanup DEF Interrupt, RaiseUncaught, InTry, AtAction, Points, EmitPoints, TryPoints, FinalPoints
  <2>10. CASE Crash
    <3>1. pc' \notin AtAction /\ UNCHANGED <<index, actions>>
      BY <2>10 DEF Crash, AtAction, FinalPoints
    <3>2. CASE timeline' = timeline
      BY <3>1, <3>2, QuietCleanup
    <3>3. CASE pc \in EmitPoints /\ timeline' = Append(timeline, Event)
      BY <3>1, <3>3, CleanupEvent
    <3> QED
      BY <2>10, <3>2, <3>3 DEF Crash
  <2> QED
    BY <1>2, <2>1, <2>2, <2>3, <2>4, <2>5, <2>6, <2>7, <2>8, <2>9, <2>10 DEF Environment
<1>3. CASE UNCHANGED vars
  BY <1>3, QuietCleanup DEF vars
<1> QED
  BY <1>1, <1>2, <1>3 DEF Next, Finished

\* Points at which the outcome is known.
Reporting == {"write_report", "artifacts", "finish_run", "done"}

\* A step that is not one of those that hand the outcome on.
LEMMA QuietOutcome ==
    ASSUME OutcomeInv, UNCHANGED <<outcome, report, run_status>>,
           pc # "done" \/ pc' = pc, pc' \in Reporting => pc' = pc /\ actions' = actions
    PROVE  OutcomeInv'
  BY DEF OutcomeInv, Reporting, Good

LEMMA OutcomeStep == TypeInv /\ OutcomeInv /\ [Next]_vars => OutcomeInv'
<1> SUFFICES ASSUME TypeInv, OutcomeInv, [Next]_vars PROVE OutcomeInv'
  OBVIOUS
<1> USE DEF GoTo, Move, control, records
<1>0. \A k \in DOMAIN actions : actions[k] \in RowType
  BY DEF TypeInv, TypeOK
<1>1. CASE RunLoop
  <2>1. CASE CreateRun
    BY <2>1 DEF CreateRun, OutcomeInv, Good
  <2>2. CASE NextStep
    BY <2>2, QuietOutcome DEF NextStep, Reporting, EmitPoints, TryPoints, FinalPoints
  <2>3. CASE LoopEnds
    BY <2>3, QuietOutcome DEF LoopEnds, Reporting, EmitPoints, TryPoints, FinalPoints
  <2>4. CASE Emit
    <3>1. /\ pc \in EmitPoints /\ pc' = Following /\ UNCHANGED <<outcome, report, run_status>>
      BY <2>4 DEF Emit
    <3>2. pc # "done" /\ pc' \notin Reporting
      BY <3>1 DEF Following, Reporting, EmitPoints, TryPoints
    <3> QED
      BY <3>1, <3>2, QuietOutcome
  <2>5. CASE Authorize
    BY <2>5, QuietOutcome DEF Authorize, Reporting, EmitPoints, TryPoints, FinalPoints
  <2>6. CASE RecordPrevented
    BY <2>6, QuietOutcome DEF RecordPrevented, Record, Reporting, EmitPoints, TryPoints, FinalPoints
  <2>7. CASE BeforeAction
    BY <2>7, QuietOutcome DEF BeforeAction, Raise, Reporting, EmitPoints, TryPoints, FinalPoints
  <2>8. CASE Prepare
    BY <2>8, QuietOutcome DEF Prepare, Reporting, EmitPoints, TryPoints, FinalPoints
  <2>9. CASE HandleException
    BY <2>9, QuietOutcome DEF HandleException, Reporting, EmitPoints, TryPoints, FinalPoints
  <2>10. CASE ExecuteSimulated
    BY <2>10, QuietOutcome DEF ExecuteSimulated, Reporting, EmitPoints, TryPoints, FinalPoints
  <2>11. CASE Execute
    BY <2>11, QuietOutcome DEF Execute, BeginSequence, Reporting, EmitPoints, TryPoints, FinalPoints
  <2>12. CASE CleanupNoop
    BY <2>12, QuietOutcome DEF CleanupNoop, Reporting, EmitPoints, TryPoints, FinalPoints
  <2>13. CASE Cleanup
    BY <2>13, QuietOutcome DEF Cleanup, BeginSequence, Reporting, EmitPoints, TryPoints, FinalPoints
  <2>14. CASE CleanupRaised
    BY <2>14, QuietOutcome DEF CleanupRaised, Reporting, EmitPoints, TryPoints, FinalPoints
  <2>15. CASE SequenceEnds
    BY <2>15, QuietOutcome DEF SequenceEnds, Return, Reporting, EmitPoints, TryPoints, FinalPoints
  <2>16. CASE ProcessRefused
    BY <2>16, QuietOutcome DEF ProcessRefused, Return, Reporting, EmitPoints, TryPoints, FinalPoints
  <2>17. CASE ProcessAllowed
    BY <2>17, QuietOutcome DEF ProcessAllowed, Reporting, EmitPoints, TryPoints, FinalPoints
  <2>18. CASE CommandTimesOut
    BY <2>18, QuietOutcome DEF CommandTimesOut, Return, Reporting, EmitPoints, TryPoints, FinalPoints
  <2>19. CASE RecordAction
    BY <2>19, QuietOutcome DEF RecordAction, Record, Reporting, EmitPoints, TryPoints, FinalPoints
  <2>20. CASE Finish
    <3>1. /\ pc = "finish" /\ pc' = "write_report" /\ UNCHANGED <<report, run_status, actions>>
          /\ outcome' = "completed" => /\ \A k \in DOMAIN actions : actions[k].status \notin Failing
                                       /\ Len(actions) = Len(Steps)
      BY <2>20 DEF Finish
    <3>2. \A k \in DOMAIN actions : actions[k].status \notin Failing => Good(k)
      BY <1>0 DEF RowType, Good, Failing
    <3> QED
      BY <3>1, <3>2 DEF OutcomeInv, Good
  <2>21. CASE WriteReport
    BY <2>21 DEF WriteReport, OutcomeInv, Good
  <2>22. CASE WriteArtifacts
    BY <2>22 DEF WriteArtifacts, OutcomeInv, Good
  <2>23. CASE FinishRun
    BY <2>23 DEF FinishRun, OutcomeInv, Good
  <2> QED
    BY <1>1, <2>1, <2>2, <2>3, <2>4, <2>5, <2>6, <2>7, <2>8, <2>9, <2>10, <2>11, <2>12, <2>13, <2>14, <2>15, <2>16, <2>17, <2>18, <2>19, <2>20, <2>21, <2>22, <2>23 DEF RunLoop
<1>2. CASE Environment
  <2>1. CASE EmitFileError
    BY <2>1, QuietOutcome DEF EmitFileError, Raise, RaiseUncaught, Reporting, EmitPoints, TryPoints, FinalPoints
  <2>2. CASE EmitStoreError
    BY <2>2, QuietOutcome DEF EmitStoreError, RaiseUncaught, Reporting, EmitPoints, TryPoints, FinalPoints
  <2>3. CASE WriteError
    BY <2>3, QuietOutcome DEF WriteError, Reporting, EmitPoints, TryPoints, FinalPoints
  <2>4. CASE PrepareRaises
    BY <2>4, QuietOutcome DEF PrepareRaises, Reporting, EmitPoints, TryPoints, FinalPoints
  <2>5. CASE CommandEnds
    BY <2>5, QuietOutcome DEF CommandEnds, Reporting, EmitPoints, TryPoints, FinalPoints
  <2>6. CASE CommandNotStarted
    BY <2>6, QuietOutcome DEF CommandNotStarted, Return, Reporting, EmitPoints, TryPoints, FinalPoints
  <2>7. CASE Cancel
    BY <2>7, QuietOutcome DEF Cancel, Reporting, EmitPoints, TryPoints, FinalPoints
  <2>8. CASE ClockPasses
    BY <2>8, QuietOutcome DEF ClockPasses, Reporting, EmitPoints, TryPoints, FinalPoints
  <2>9. CASE Interrupt
    BY <2>9, QuietOutcome DEF Interrupt, RaiseUncaught, Reporting, EmitPoints, TryPoints, FinalPoints
  <2>10. CASE Crash
    BY <2>10, QuietOutcome DEF Crash, Reporting, EmitPoints, TryPoints, FinalPoints
  <2> QED
    BY <1>2, <2>1, <2>2, <2>3, <2>4, <2>5, <2>6, <2>7, <2>8, <2>9, <2>10 DEF Environment
<1>3. CASE UNCHANGED vars
  BY <1>3, QuietOutcome DEF vars
<1> QED
  BY <1>1, <1>2, <1>3 DEF Next, Finished

\* What a run is known to have done, put together.
LEMMA RunStep == RunInv /\ [Next]_vars => RunInv'
  BY TypeStep, FlowStep, TailStep, RowsStep, FailedCleanupStep, OutcomeStep DEF RunInv

LEMMA RunInit == Init => RunInv
<1> SUFFICES ASSUME Init PROVE RunInv
  OBVIOUS
<1>1. /\ pc = "start" /\ timeline = <<>> /\ actions = <<>> /\ index = 0
      /\ ~stop_campaign /\ run_status = "none" /\ outcome = "none"
  BY DEF Init
<1>2. RowInv /\ CleanupInv /\ OutcomeInv
  BY <1>1 DEF RowInv, CleanupInv, OutcomeInv, AtAction
<1> QED
  BY <1>2, TypeInit, EvidenceInit DEF RunInv

LEMMA StatusFollows == RunInv => StatusTellsRun
<1> SUFFICES ASSUME RunInv PROVE StatusTellsRun
  OBVIOUS
<1>0. TypeInv /\ RowInv /\ CleanupInv /\ OutcomeInv
  BY DEF RunInv
<1>1. StopEndsCampaign
  <2> SUFFICES ASSUME NEW k \in DOMAIN actions
               PROVE  /\ actions[k].step = k
                      /\ Ends(k) => \A j \in DOMAIN timeline : timeline[j].step <= k
    BY DEF StopEndsCampaign, Ends
  <2>1. index \in Nat
    BY <1>0, IndexIsNat DEF TypeInv
  <2> QED
    BY <1>0, <2>1 DEF RowInv
<1>2. CompletedMeansAll
  <2> SUFFICES ASSUME run_status = "completed"
               PROVE  /\ Len(actions) = Len(Steps)
                      /\ \A k \in DOMAIN actions : Good(k)
                      /\ \A j \in DOMAIN timeline : timeline[j].state # "cleanup_failed"
                      /\ report = "completed"
    BY DEF CompletedMeansAll, Good
  <2>1. /\ Len(actions) = Len(Steps) /\ \A k \in DOMAIN actions : Good(k)
        /\ report = "completed"
    BY <1>0 DEF OutcomeInv
  <2>2. \A j \in DOMAIN timeline : timeline[j].step \in DOMAIN actions
    <3>1. /\ DOMAIN actions = 1..Len(actions) /\ index \in 0..Len(Steps) /\ Len(Steps) \in Nat
      BY <1>0, CampaignAssumption DEF TypeInv, TypeOK
    <3>2. 1..index \subseteq DOMAIN actions
      BY <2>1, <3>1
    <3> QED
      BY <1>0, <3>2 DEF RowInv
  <2> QED
    BY <1>0, <2>1, <2>2 DEF CleanupInv
<1> QED
  BY <1>1, <1>2 DEF StatusTellsRun

\* The rows are those of the campaign's steps in their order, the one that ends the campaign
\* is the last of which anything is in the timeline, and a run that the database calls
\* completed verified every step, reported no failed cleanup and says the same in its report.
THEOREM StatusTellsRunHolds == Spec => []StatusTellsRun
  BY RunInit, RunStep, StatusFollows, PTL DEF Spec

-----------------------------------------------------------------------------
(* The timeline as ActionLifecycle reads it.                                   *)

\* The phases that the events tell.
LEMMA PhaseTable ==
    ASSUME NEW log, NEW k
    PROVE  LET state == log[k].state IN
           /\ state = "cleanup_started" => PhaseAt(log, k) = "cleaning"
           /\ state \in TryPoints \union Executions \union Outcomes => PhaseAt(log, k) = "active"
           /\ state \in {"failed", "cancelled"} =>
                 PhaseAt(log, k) =
                    IF log[k - 1].state \in {"cleaned", "cleanup_failed"} THEN state
                    ELSE IF log[k - 1].state = "authorized" THEN "authorized" ELSE "active"
           /\ state \in {"planned", "denied", "prevented", "authorized", "cleaned",
                         "cleanup_failed", "verified"} => PhaseAt(log, k) = state
  BY DEF PhaseAt, TryPoints, Executions, Outcomes

\* The last event of a log is the last one of its action.
LEMMA LastIsEnd ==
    ASSUME NEW log \in Seq(EventType), Ordered(log), log # <<>>
    PROVE  LET i == log[Len(log)].step
           IN  /\ Len(log) \in DOMAIN log
               /\ PhaseOf(log, i) = PhaseAt(log, Len(log))
<1> DEFINE n == Len(log)
           i == log[n].step
<1>1. n \in Nat /\ n >= 1 /\ DOMAIN log = 1..n /\ n \in DOMAIN log
  OBVIOUS
<1>2. \A k \in DOMAIN log : log[k].step \in Nat
  <2>1. \A k \in DOMAIN log : log[k] \in EventType
    OBVIOUS
  <2> QED
    BY <2>1 DEF EventType
<1>3. n \in Lasts(log, i)
  BY <1>1 DEF Lasts
<1>4. ASSUME NEW k \in Lasts(log, i) PROVE k = n
  <2>1. k \in 1..n /\ log[k].step = i /\ (k = n \/ log[k + 1].step # i)
    BY <1>1, <1>4 DEF Lasts
  <2>2. ASSUME k # n PROVE FALSE
    <3> HIDE DEF n
    <3>1. k + 1 \in 1..n /\ k <= k + 1 /\ k + 1 <= n /\ log[k + 1].step # i
      BY <1>1, <2>1, <2>2
    <3>2. log[k].step <= log[k + 1].step /\ log[k + 1].step <= log[n].step
      BY <1>1, <2>1, <3>1 DEF Ordered
    <3>3. log[k].step = log[n].step /\ log[k + 1].step \in Nat /\ log[n].step \in Nat
      BY <1>1, <1>2, <2>1, <3>1
    <3> QED
      BY <3>1, <3>2, <3>3
  <2> QED
    BY <2>2
<1>5. LastOf(log, i) = n
  BY <1>3, <1>4 DEF LastOf
<1>6. PhaseOf(log, i) = PhaseAt(log, n)
  BY <1>1, <1>5 DEF PhaseOf
<1> QED
  BY <1>1, <1>6

\* What an event adds to the log says nothing of another action.
LEMMA OthersStay ==
    ASSUME NEW log \in Seq(EventType), NEW e \in EventType, Ordered(log),
           NEW i, i # e.step
    PROVE  /\ Lasts(Append(log, e), i) = Lasts(log, i)
           /\ PhaseOf(Append(log, e), i) = PhaseOf(log, i)
<1> DEFINE new == Append(log, e)
<1>1. /\ DOMAIN log = 1..Len(log) /\ DOMAIN new = 1..(Len(log) + 1) /\ Len(log) \in Nat
      /\ Len(new) = Len(log) + 1
      /\ \A k \in 1..Len(log) : new[k] = log[k]
      /\ new[Len(log) + 1] = e
  BY AppendFacts
<1> DEFINE n == Len(log)
<1> HIDE DEF new
<1>2. ASSUME NEW k PROVE k \in Lasts(new, i) <=> k \in Lasts(log, i)
  <2>0. /\ DOMAIN log = 1..n /\ DOMAIN new = 1..(n + 1) /\ n \in Nat
        /\ \A j \in 1..n : new[j] = log[j]
        /\ new[n + 1] = e /\ Len(new) = n + 1
    BY <1>1
  <2>z. /\ k \in Lasts(new, i) <=> /\ k \in 1..(n + 1) /\ new[k].step = i
                                   /\ (k = n + 1 \/ new[k + 1].step # i)
        /\ k \in Lasts(log, i) <=> /\ k \in 1..n /\ log[k].step = i
                                   /\ (k = n \/ log[k + 1].step # i)
    BY <2>0 DEF Lasts
  <2> HIDE DEF n
  <2>1. CASE k \in 1..n /\ k # n
    <3>1. k + 1 \in 1..n /\ k \in 1..(n + 1) /\ k # n + 1
      BY <2>0, <2>1
    <3> QED
      BY <2>0, <2>1, <2>z, <3>1
  <2>2. CASE k = n /\ k \in 1..n
    BY <2>0, <2>2, <2>z
  <2>3. CASE k = n + 1
    BY <2>0, <2>3, <2>z
  <2>4. CASE k \notin 1..(n + 1)
    BY <2>0, <2>4, <2>z
  <2> QED
    BY <2>0, <2>1, <2>2, <2>3, <2>4
<1>3. Lasts(new, i) = Lasts(log, i)
  BY <1>2
<1>4. LastOf(new, i) = LastOf(log, i)
  BY <1>3 DEF LastOf
<1>5. ASSUME \A k \in DOMAIN log : log[k].step # i PROVE PhaseOf(new, i) = PhaseOf(log, i)
  <2>1. \A k \in DOMAIN new : new[k].step # i
    BY <1>1, <1>5
  <2> QED
    BY <1>5, <2>1 DEF PhaseOf
<1>6. ASSUME \E k \in DOMAIN log : log[k].step = i PROVE PhaseOf(new, i) = PhaseOf(log, i)
  <2>1. PICK k \in DOMAIN log : log[k].step = i
    BY <1>6
  <2>2. LastOf(log, i) \in Lasts(log, i)
    BY <2>1 DEF Ordered, LastOf
  <2>3. LastOf(log, i) \in 1..Len(log)
    BY <1>1, <2>2 DEF Lasts
  <2> DEFINE l == LastOf(log, i)
  <2> HIDE DEF l
  <2>4. new[l] = log[l] /\ (log[l].state \in {"failed", "cancelled"} => new[l - 1] = log[l - 1])
    <3>1. l \in 1..Len(log) /\ (log[l].state \in {"failed", "cancelled"} => l >= 2)
      BY <1>1, <2>3 DEF Ordered, l
    <3> QED
      BY <1>1, <3>1
  <2>5. PhaseAt(new, l) = PhaseAt(log, l)
    BY <2>4 DEF PhaseAt
  <2>6. PhaseOf(log, i) = PhaseAt(log, l)
    BY <2>1 DEF PhaseOf, l
  <2>7. PhaseOf(new, i) = PhaseAt(new, l)
    <3>1. k \in DOMAIN new /\ new[k].step = i
      BY <1>1, <2>1
    <3> QED
      BY <1>4, <3>1 DEF PhaseOf, l
  <2> QED
    BY <2>5, <2>6, <2>7
<1> QED
  BY <1>3, <1>5, <1>6 DEF new

\* A log stays ordered when an event of its last action, or of a later one, is added.
LEMMA OrderStays ==
    ASSUME NEW log \in Seq(EventType), NEW e \in EventType, Ordered(log),
           \A k \in DOMAIN log : log[k].step <= e.step,
           e.state \in Outcomes => Len(log) >= 2,
           e.state \in {"failed", "cancelled"} => Len(log) >= 1
    PROVE  Ordered(Append(log, e))
<1> DEFINE new == Append(log, e)
<1>1. /\ DOMAIN log = 1..Len(log) /\ DOMAIN new = 1..(Len(log) + 1) /\ Len(log) \in Nat
      /\ Len(new) = Len(log) + 1
      /\ \A k \in 1..Len(log) : new[k] = log[k]
      /\ new[Len(log) + 1] = e
      /\ e.step \in Nat
  BY AppendFacts DEF EventType
<1>2. \A i : i # e.step => Lasts(new, i) = Lasts(log, i)
  BY OthersStay
<1> HIDE DEF new
<1>3. Len(log) + 1 \in Lasts(new, e.step)
  BY <1>1 DEF Lasts
<1>4. \A k \in DOMAIN new : Lasts(new, new[k].step) # {}
  BY <1>1, <1>2, <1>3 DEF Ordered
<1>5. ASSUME NEW j \in DOMAIN new, NEW k \in DOMAIN new, j <= k
      PROVE  new[j].step <= new[k].step
  <2>1. CASE k = Len(log) + 1
    BY <1>1, <2>1
  <2>2. CASE k # Len(log) + 1
    <3>1. j \in 1..Len(log) /\ k \in 1..Len(log)
      BY <1>1, <1>5, <2>2
    <3> QED
      BY <1>1, <1>5, <3>1 DEF Ordered
  <2> QED
    BY <2>1, <2>2
<1>6. ASSUME NEW k \in DOMAIN new
      PROVE  /\ new[k].state \in Outcomes => k >= 3
             /\ new[k].state \in {"failed", "cancelled"} => k >= 2
  BY <1>1 DEF Ordered
<1> QED
  BY <1>4, <1>5, <1>6 DEF Ordered, new

\* What an event adds to the actions whose outcome was recorded right after their execution.
LEMMA EvaluatedGrows ==
    ASSUME NEW log \in Seq(EventType), NEW e \in EventType, Ordered(log)
    PROVE  /\ e.state \notin Outcomes => Evaluated(Append(log, e)) = Evaluated(log)
           /\ Evaluated(Append(log, e)) \in {Evaluated(log), Evaluated(log) \union {e.step}}
<1> DEFINE new == Append(log, e)
           Told(l) == {k \in DOMAIN l : /\ l[k].state \in Outcomes
                                        /\ l[k - 1].state = "observed"
                                        /\ l[k - 2].state \in Executions}
<1>1. /\ DOMAIN log = 1..Len(log) /\ DOMAIN new = 1..(Len(log) + 1) /\ Len(log) \in Nat
      /\ \A k \in 1..Len(log) : new[k] = log[k]
      /\ new[Len(log) + 1] = e
  BY AppendFacts
<1> HIDE DEF new
<1>2. ASSUME NEW k \in 1..Len(log) PROVE k \in Told(new) <=> k \in Told(log)
  <2>1. CASE log[k].state \in Outcomes
    <3>1. k >= 3
      BY <1>1, <2>1 DEF Ordered
    <3>2. k - 1 \in 1..Len(log) /\ k - 2 \in 1..Len(log) /\ k \in DOMAIN new /\ k \in DOMAIN log
      BY <1>1, <3>1
    <3>3. new[k] = log[k] /\ new[k - 1] = log[k - 1] /\ new[k - 2] = log[k - 2]
      BY <1>1, <3>2
    <3> QED
      BY <3>2, <3>3
  <2>2. CASE log[k].state \notin Outcomes
    BY <1>1, <2>2
  <2> QED
    BY <2>1, <2>2
<1>3. Told(log) \subseteq 1..Len(log) /\ Told(new) \subseteq 1..(Len(log) + 1)
  BY <1>1
<1>4. Evaluated(log) = {log[k].step : k \in Told(log)}
  BY DEF Evaluated
<1>5. Evaluated(new) = {new[k].step : k \in Told(new)}
  BY DEF Evaluated
<1>6. Len(log) + 1 \in Told(new) => e.state \in Outcomes
  BY <1>1
<1> HIDE DEF Told
<1>7. CASE Len(log) + 1 \in Told(new)
  <2>1. Told(new) = Told(log) \union {Len(log) + 1}
    BY <1>1, <1>2, <1>3, <1>7
  <2>2. Evaluated(new) = Evaluated(log) \union {e.step}
    BY <1>1, <1>3, <1>4, <1>5, <2>1
  <2> QED
    BY <1>6, <1>7, <2>2 DEF new
<1>8. CASE Len(log) + 1 \notin Told(new)
  <2>1. Told(new) \subseteq 1..Len(log)
    BY <1>1, <1>3, <1>8
  <2>2. Told(new) = Told(log)
    BY <1>2, <1>3, <2>1
  <2>3. Evaluated(new) = Evaluated(log)
    BY <1>1, <1>3, <1>4, <1>5, <2>2
  <2> QED
    BY <2>3 DEF new
<1> QED
  BY <1>7, <1>8

\* The state that emit records at each point.
LEMMA EventTold ==
    ASSUME TypeInv, pc \in EmitPoints
    PROVE  /\ pc \notin {"executed", "detection", "handler", "cleaned", "verify"} => EventState = pc
           /\ pc = "executed" => EventState \in Executions \union {"failed"}
           /\ pc = "detection" => EventState \in Outcomes
           /\ pc = "handler" => EventState \in {"failed", "cancelled"}
           /\ pc = "cleaned" => EventState = act.cleanup /\ act.cleanup \in {"cleaned", "cleanup_failed"}
           /\ pc = "verify" => EventState = IF Verified THEN "verified" ELSE Unsuccessful
           /\ Unsuccessful = IF act.cancelled THEN "cancelled" ELSE "failed"
<1>1. act \in ActType
  BY DEF TypeInv, TypeOK
<1>2. CASE pc = "detection"
  <2>1. index \in Actions
    BY <1>2 DEF TypeInv, Assigned, AtAction, Points, EmitPoints, TryPoints, FinalPoints
  <2>2. Detections[Ability] \in {"detected", "missed", "not_evaluated"}
    BY <2>1, CampaignAssumption DEF Ability, Abilities
  <2> QED
    BY <1>2, <2>2 DEF EventState, Outcomes, Unsuccessful
<1>3. CASE pc = "executed"
  BY <1>1, <1>3 DEF EventState, TypeInv, Assigned, ActType, Executions, Unsuccessful
<1>4. CASE pc = "cleaned"
  BY <1>1, <1>4 DEF EventState, TypeInv, Assigned, ActType, Unsuccessful
<1>5. CASE pc \notin {"detection", "executed", "cleaned"}
  BY <1>5 DEF EventState, Unsuccessful
<1> QED
  BY <1>2, <1>3, <1>4, <1>5

\* What an event of the current action does to the phases that the timeline tells.
LEMMA EventMapped ==
    ASSUME TypeInv, RowInv, PhaseInv, pc \in EmitPoints, timeline' = Append(timeline, Event)
    PROVE  /\ index \in Actions /\ timeline' # <<>> /\ Ordered(timeline')
           /\ Len(timeline') = Len(timeline) + 1 /\ Len(timeline) \in Nat
           /\ timeline'[Len(timeline')] = Event /\ Event.step = index /\ Event.state = EventState
           /\ pc # "planned" => /\ timeline # <<>>
                                /\ timeline'[Len(timeline') - 1].state = LastState
           /\ \A i : i # index => PhaseOf(timeline', i) = PhaseOf(timeline, i)
           /\ PhaseOf(timeline', index) = PhaseAt(timeline', Len(timeline'))
           /\ PhaseOf(timeline, index) = IF pc = "planned" THEN "absent" ELSE LastPhase
           /\ pc # "detection" => Evaluated(timeline') = Evaluated(timeline)
           /\ Evaluated(timeline') \in {Evaluated(timeline), Evaluated(timeline) \union {index}}
<1>0. /\ timeline \in Seq(EventType) /\ Event \in EventType /\ index \in Nat
      /\ Event.step = index /\ Event.state = EventState
      /\ pc \in AtAction
  BY EventTyped, IndexIsNat DEF TypeInv, TypeOK, Event, AtAction, Points, EmitPoints, TryPoints, FinalPoints
<1>1. index \in Actions
  BY <1>0 DEF TypeInv, Assigned
<1>2. /\ DOMAIN timeline = 1..Len(timeline) /\ DOMAIN timeline' = 1..(Len(timeline) + 1)
      /\ Len(timeline) \in Nat /\ Len(timeline') = Len(timeline) + 1
      /\ \A k \in 1..Len(timeline) : timeline'[k] = timeline[k]
      /\ timeline'[Len(timeline) + 1] = Event
      /\ timeline' \in Seq(EventType)
  BY <1>0, AppendFacts
<1>3. Ordered(timeline)
  BY DEF PhaseInv
<1>4. /\ pc = "planned" => \A j \in DOMAIN timeline : timeline[j].step # index
      /\ pc # "planned" => timeline # <<>> /\ timeline[Len(timeline)].step = index
  BY <1>0 DEF PhaseInv, HereInv
<1>5. timeline # <<>> => Len(timeline) >= 1 /\ Len(timeline) \in 1..Len(timeline)
  BY <1>0
<1>6. Ordered(timeline')
  <2>1. \A k \in DOMAIN timeline : timeline[k].step <= index
    BY <1>0 DEF RowInv
  <2>2. EventState \in Outcomes => Len(timeline) >= 2
    <3>1. EventState \in Outcomes => pc = "detection"
      BY EventTold DEF Outcomes, Executions, EmitPoints, TryPoints
    <3> QED
      BY <1>2, <3>1 DEF PhaseInv, HereInv
  <2>3. EventState \in {"failed", "cancelled"} => Len(timeline) >= 1
    <3>1. EventState \in {"failed", "cancelled"} => pc # "planned"
      BY EventTold
    <3> QED
      BY <1>4, <1>5, <3>1
  <2> QED
    BY <1>0, <1>3, <2>1, <2>2, <2>3, OrderStays
<1>7. \A i : i # index => PhaseOf(timeline', i) = PhaseOf(timeline, i)
  BY <1>0, <1>3, OthersStay
<1>8. timeline' # <<>>
  BY <1>2
<1>9. PhaseOf(timeline', index) = PhaseAt(timeline', Len(timeline'))
  BY <1>0, <1>2, <1>6, <1>8, LastIsEnd
<1>10. PhaseOf(timeline, index) = IF pc = "planned" THEN "absent" ELSE LastPhase
  <2>1. CASE pc = "planned"
    BY <1>4, <2>1 DEF PhaseOf
  <2>2. CASE pc # "planned"
    BY <1>0, <1>3, <1>4, <2>2, LastIsEnd DEF LastPhase
  <2> QED
    BY <2>1, <2>2
<1>11. /\ EventState \notin Outcomes => Evaluated(timeline') = Evaluated(timeline)
       /\ Evaluated(timeline') \in {Evaluated(timeline), Evaluated(timeline) \union {index}}
  BY <1>0, <1>3, EvaluatedGrows
<1>12. pc # "detection" => EventState \notin Outcomes
  BY EventTold DEF Outcomes, Executions, EmitPoints, TryPoints, Unsuccessful
<1>13. pc # "planned" => timeline'[Len(timeline') - 1].state = LastState
  <2>1. timeline # <<>> => Len(timeline') - 1 = Len(timeline) /\ Len(timeline) \in 1..Len(timeline)
    BY <1>2, <1>5
  <2> QED
    BY <1>2, <1>4, <2>1 DEF LastState
<1> QED
  BY <1>0, <1>1, <1>2, <1>4, <1>6, <1>7, <1>8, <1>9, <1>10, <1>11, <1>12, <1>13

\* The phases before and after the event of each point.
LEMMA EventPhases ==
    ASSUME TypeInv, RowInv, PhaseInv, pc \in EmitPoints, timeline' = Append(timeline, Event)
    PROVE  /\ LastState' = EventState
           /\ pc \in {"planned", "denied", "prevented", "authorized"} => LastPhase' = pc
           /\ pc \in TryPoints => LastPhase' = "active"
           /\ pc = "handler" => LastPhase' = LastPhase /\ LastPhase \in {"authorized", "active"}
           /\ pc = "cleanup_started" => LastPhase' = "cleaning" /\ LastPhase \in {"authorized", "active"}
           /\ pc \in {"cleaned", "cleanup_failed", "verify"} => LastPhase' = EventState
           /\ pc \in {"cleaned", "cleanup_failed"} => /\ LastPhase = "cleaning"
                                                      /\ EventState \in {"cleaned", "cleanup_failed"}
           /\ pc \in {"denied", "authorized"} => LastPhase = "planned"
           /\ pc = "prevented" => LastPhase = "denied"
           /\ pc = "prepared" => LastPhase = "authorized"
           /\ pc \in {"attempted", "executed", "observed", "detection"} => LastPhase = "active"
           /\ pc = "verify" => LastPhase = LastState /\ LastState \in {"cleaned", "cleanup_failed"}
           /\ pc = "verify" /\ Verified => LastState = "cleaned"
<1> DEFINE n == Len(timeline')
           new == timeline'
<1>1. new[n] = Event /\ Event.state = EventState /\ (pc # "planned" => new[n - 1].state = LastState)
  BY EventMapped
<1>2. LastState' = EventState /\ LastPhase' = PhaseAt(new, n)
  BY <1>1 DEF LastState, LastPhase
<1>3. pc \in AtAction /\ Here(pc, ref.cleaning, LastState, LastPhase)
      /\ (pc = "verify" /\ Verified => LastState = "cleaned")
  BY DEF PhaseInv, HereInv, AtAction, Points, EmitPoints, TryPoints, FinalPoints
<1>4. /\ LastState \in {"planned", "denied", "authorized", "cleaned", "cleanup_failed"} => LastPhase = LastState
      /\ LastState = "cleanup_started" => LastPhase = "cleaning"
  BY PhaseTable DEF LastState, LastPhase
<1> HIDE DEF n, new
<1>5. /\ EventState = "cleanup_started" => PhaseAt(new, n) = "cleaning"
      /\ EventState \in TryPoints \union Executions \union Outcomes => PhaseAt(new, n) = "active"
      /\ EventState \in {"failed", "cancelled"} =>
            PhaseAt(new, n) =
               IF new[n - 1].state \in {"cleaned", "cleanup_failed"} THEN EventState
               ELSE IF new[n - 1].state = "authorized" THEN "authorized" ELSE "active"
      /\ EventState \in {"planned", "denied", "prevented", "authorized", "cleaned",
                        "cleanup_failed", "verified"} => PhaseAt(new, n) = EventState
  <2>1. new[n].state = EventState
    BY <1>1
  <2> QED
    BY <2>1, PhaseTable
<1>6. CASE pc = "planned"
  BY <1>1, <1>2, <1>3, <1>4, <1>5, <1>6, EventTold DEF Here, TryPoints
<1>7. CASE pc = "denied"
  BY <1>1, <1>2, <1>3, <1>4, <1>5, <1>7, EventTold DEF Here, TryPoints
<1>8. CASE pc = "prevented"
  BY <1>1, <1>2, <1>3, <1>4, <1>5, <1>8, EventTold DEF Here, TryPoints
<1>9. CASE pc = "authorized"
  BY <1>1, <1>2, <1>3, <1>4, <1>5, <1>9, EventTold DEF Here, TryPoints
<1>10. CASE pc = "prepared"
  BY <1>1, <1>2, <1>3, <1>4, <1>5, <1>10, EventTold DEF Here, TryPoints
<1>11. CASE pc = "attempted"
  BY <1>1, <1>2, <1>3, <1>4, <1>5, <1>11, EventTold DEF Here, TryPoints
<1>12. CASE pc = "executed"
  BY <1>1, <1>2, <1>3, <1>4, <1>5, <1>12, EventTold DEF Here, TryPoints
<1>13. CASE pc = "observed"
  BY <1>1, <1>2, <1>3, <1>4, <1>5, <1>13, EventTold DEF Here, TryPoints
<1>14. CASE pc = "detection"
  BY <1>1, <1>2, <1>3, <1>4, <1>5, <1>14, EventTold DEF Here, TryPoints
<1>15. CASE pc = "handler"
  BY <1>1, <1>2, <1>3, <1>4, <1>5, <1>15, EventTold DEF Here, TryPoints
<1>16. CASE pc = "cleanup_started"
  BY <1>1, <1>2, <1>3, <1>4, <1>5, <1>16, EventTold DEF Here, TryPoints
<1>17. CASE pc = "cleaned"
  BY <1>1, <1>2, <1>3, <1>4, <1>5, <1>17, EventTold DEF Here, TryPoints
<1>18. CASE pc = "cleanup_failed"
  BY <1>1, <1>2, <1>3, <1>4, <1>5, <1>18, EventTold DEF Here, TryPoints
<1>19. CASE pc = "verify"
  BY <1>1, <1>2, <1>3, <1>4, <1>5, <1>19, EventTold DEF Here, TryPoints
<1> QED
  BY <1>6, <1>7, <1>8, <1>9, <1>10, <1>11, <1>12, <1>13, <1>14, <1>15, <1>16, <1>17, <1>18, <1>19 DEF EmitPoints, TryPoints

\* At the end of an action that went well, its evidence is in the timeline.
LEMMA EvidenceAtVerify ==
    ASSUME TypeInv, FlowInv, TailInv, pc = "verify", Verified
    PROVE  index \in Evaluated(timeline)
<1>1. pc \in OnPath /\ Depth = 9
  BY Depths DEF Depth, OnPath, AtAction, Points, EmitPoints, FinalPoints
<1>2. ~act.error /\ ~raised
  BY DEF FlowInv, BeforeFinally, InFinally, FinalPoints, Verified
<1>3. Smooth
  BY <1>2 DEF Smooth, Verified, Executions
<1>4. HasTail(timeline, index, 9)
  BY <1>1, <1>3 DEF TailInv
<1> DEFINE n == Len(timeline)
<1>5. n \in Nat /\ n >= 9 /\ DOMAIN timeline = 1..n
  BY <1>4 DEF HasTail, TypeInv, TypeOK
<1>6. \A e \in 1..9 : /\ timeline[n - 9 + e].step = index
                      /\ timeline[n - 9 + e].state \in FullLifecycle[e]
  BY <1>4 DEF HasTail
<1>7. /\ FullLifecycle[5] = Executions /\ FullLifecycle[6] = {"observed"}
      /\ FullLifecycle[7] = Outcomes
  BY DEF FullLifecycle, Executions, Outcomes
<1> HIDE DEF n
<1>8. /\ timeline[n - 9 + 7].step = index /\ timeline[n - 9 + 7].state \in Outcomes
      /\ timeline[n - 9 + 6].state = "observed" /\ timeline[n - 9 + 5].state \in Executions
  BY <1>6, <1>7
<1>9. n - 9 + 7 = n - 2 /\ n - 9 + 6 = n - 2 - 1 /\ n - 9 + 5 = n - 2 - 2 /\ n - 2 \in DOMAIN timeline
  BY <1>5
<1>10. /\ timeline[n - 2].step = index /\ timeline[n - 2].state \in Outcomes
       /\ timeline[n - 2 - 1].state = "observed" /\ timeline[n - 2 - 2].state \in Executions
  BY <1>8, <1>9
<1> DEFINE k == n - 2
<1>11. /\ k \in DOMAIN timeline /\ timeline[k].step = index /\ timeline[k].state \in Outcomes
       /\ timeline[k - 1].state = "observed" /\ timeline[k - 2].state \in Executions
  BY <1>9, <1>10
<1> HIDE DEF k
<1> QED
  BY <1>11 DEF Evaluated

\* An event that takes the current action from one phase to another.
LEMMA MoveMapped ==
    ASSUME NEW from, NEW to, index \in Actions,
           \A i : i # index => PhaseOf(timeline', i) = PhaseOf(timeline, i),
           PhaseOf(timeline, index) \in from, PhaseOf(timeline', index) = to,
           Evaluated(timeline') = Evaluated(timeline)
    PROVE  Lifecycle!Move(index, from, to)
  BY DEF Lifecycle!Move

\* Every event is a step of ActionLifecycle, or one that it does not tell from the last.
LEMMA EventRefines ==
    ASSUME TypeInv, FlowInv, TailInv, RowInv, PhaseInv,
           pc \in EmitPoints, timeline' = Append(timeline, Event)
    PROVE  Lifecycle!LifecycleNext \/ UNCHANGED Lifecycle!lifecycle
<1>1. /\ index \in Actions
      /\ \A i : i # index => PhaseOf(timeline', i) = PhaseOf(timeline, i)
      /\ PhaseOf(timeline', index) = LastPhase'
      /\ PhaseOf(timeline, index) = IF pc = "planned" THEN "absent" ELSE LastPhase
      /\ pc # "detection" => Evaluated(timeline') = Evaluated(timeline)
      /\ Evaluated(timeline') \in {Evaluated(timeline), Evaluated(timeline) \union {index}}
  BY EventMapped DEF LastPhase
<1>2. index \in 1..Len(Steps) /\ Actions = 1..Len(Steps)
  BY <1>1, CampaignAssumption DEF Actions
<1>3. ASSUME NEW from, NEW to, LastPhase \in from, LastPhase' = to, pc \notin {"planned", "detection"}
      PROVE  Lifecycle!Move(index, from, to)
  BY <1>1, <1>3, MoveMapped
<1>4. ASSUME LastPhase' = LastPhase, pc \notin {"planned", "detection"}
      PROVE  UNCHANGED Lifecycle!lifecycle
  <2>1. \A i : PhaseOf(timeline', i) = PhaseOf(timeline, i)
    BY <1>1, <1>4
  <2> QED
    BY <1>1, <1>4, <2>1 DEF Lifecycle!lifecycle
<1>5. CASE pc = "planned"
  <2>1. Lifecycle!Move(index, {"absent"}, "planned")
    BY <1>1, <1>5, MoveMapped, EventPhases
  <2>2. \A j \in 1..(index - 1) :
           PhaseOf(timeline, j) \in Lifecycle!Settled \ {"cancelled"}
    <3>1. ~stop_campaign /\ pc \in AtAction
      BY <1>5 DEF RowInv, AtAction, Points, EmitPoints, FinalPoints
    <3>2. \A j \in 1..(index - 1) : j \in 1..index /\ j < index
      BY <1>2
    <3> QED
      BY <3>1, <3>2 DEF PhaseInv, BehindInv
  <2>3. \A j \in 1..(index - 1) : j \in Actions
    BY <1>2, CampaignAssumption
  <2>4. Lifecycle!Plan(index)
    BY <2>1, <2>2, <2>3 DEF Lifecycle!Plan
  <2> QED
    BY <1>2, <2>4 DEF Lifecycle!LifecycleNext
<1>6. CASE pc = "denied"
  BY <1>2, <1>3, <1>6, EventPhases DEF Lifecycle!LifecycleNext, Lifecycle!Deny
<1>7. CASE pc = "prevented"
  BY <1>2, <1>3, <1>7, EventPhases DEF Lifecycle!LifecycleNext, Lifecycle!Prevent
<1>8. CASE pc = "authorized"
  BY <1>2, <1>3, <1>8, EventPhases DEF Lifecycle!LifecycleNext, Lifecycle!Authorize
<1>9. CASE pc = "prepared"
  BY <1>2, <1>3, <1>9, EventPhases DEF Lifecycle!LifecycleNext, Lifecycle!Activate, TryPoints
<1>10. CASE pc \in {"attempted", "executed", "observed", "handler"}
  BY <1>4, <1>10, EventPhases DEF TryPoints
<1>11. CASE pc = "detection"
  <2>1. PhaseOf(timeline, index) = "active" /\ \A i : PhaseOf(timeline', i) = PhaseOf(timeline, i)
    BY <1>1, <1>11, EventPhases DEF TryPoints
  <2>2. CASE Evaluated(timeline') = Evaluated(timeline)
    BY <2>1, <2>2 DEF Lifecycle!lifecycle
  <2>3. CASE Evaluated(timeline') = Evaluated(timeline) \union {index}
    <3>1. Lifecycle!Evaluate(index)
      BY <1>1, <2>1, <2>3 DEF Lifecycle!Evaluate
    <3> QED
      BY <1>2, <3>1 DEF Lifecycle!LifecycleNext
  <2> QED
    BY <1>1, <2>2, <2>3
<1>12. CASE pc = "cleanup_started"
  BY <1>2, <1>3, <1>12, EventPhases DEF Lifecycle!LifecycleNext, Lifecycle!StartCleanup
<1>13. CASE pc \in {"cleaned", "cleanup_failed"}
  <2>1. Lifecycle!Move(index, {"cleaning"}, EventState) /\ EventState \in {"cleaned", "cleanup_failed"}
    BY <1>3, <1>13, EventPhases
  <2>2. Lifecycle!CleanupOutcome(index)
    BY <2>1 DEF Lifecycle!CleanupOutcome
  <2> QED
    BY <1>2, <2>2 DEF Lifecycle!LifecycleNext
<1>14. CASE pc = "verify"
  <2>1. CASE Verified
    <3>0. LastPhase \in {"cleaned"} /\ LastPhase' = "verified"
      BY <1>14, <2>1, EventPhases, EventTold
    <3>1. Lifecycle!Move(index, {"cleaned"}, "verified")
      BY <1>3, <1>14, <3>0
    <3>2. Lifecycle!Verify(index)
      BY <1>14, <2>1, <3>1, EvidenceAtVerify DEF Lifecycle!Verify
    <3> QED
      BY <1>2, <3>2 DEF Lifecycle!LifecycleNext
  <2>2. CASE ~Verified
    <3>0. /\ LastPhase \in {"cleaned", "cleanup_failed"} /\ LastPhase' = EventState
          /\ EventState \in {"failed", "cancelled"}
      BY <1>14, <2>2, EventPhases, EventTold
    <3>1. Lifecycle!Move(index, {"cleaned", "cleanup_failed"}, EventState)
      BY <1>3, <1>14, <3>0
    <3>2. Lifecycle!Fail(index)
      BY <3>0, <3>1 DEF Lifecycle!Fail
    <3> QED
      BY <1>2, <3>2 DEF Lifecycle!LifecycleNext
  <2> QED
    BY <2>1, <2>2
<1> QED
  BY <1>5, <1>6, <1>7, <1>8, <1>9, <1>10, <1>11, <1>12, <1>13, <1>14 DEF EmitPoints, TryPoints

LEMMA StepRefines ==
    RunInv /\ PhaseInv /\ [Next]_vars => [Lifecycle!LifecycleNext]_(Lifecycle!lifecycle)
<1> SUFFICES ASSUME RunInv, PhaseInv, [Next]_vars
             PROVE  Lifecycle!LifecycleNext \/ UNCHANGED Lifecycle!lifecycle
  OBVIOUS
<1>1. CASE timeline' = timeline
  BY <1>1 DEF Lifecycle!lifecycle
<1>2. CASE pc \in EmitPoints /\ timeline' = Append(timeline, Event)
  BY <1>2, EventRefines DEF RunInv
<1> QED
  BY <1>1, <1>2, EveryLogStep DEF RunInv, LogStep, Emit

\* A step that adds no event: what is told of the last one holds where run() goes.
LEMMA QuietPhase ==
    ASSUME TypeInv, PhaseInv, UNCHANGED <<timeline, index>>, pc' # "start" \/ pc' = pc,
           stop_campaign' = stop_campaign \/ pc' \in FinalPoints,
           pc' = "next" => pc = "next",
           pc' \in AtAction => /\ pc \in AtAction
                               /\ Here(pc', ref'.cleaning, LastState, LastPhase)
                               /\ pc' = "planned" <=> pc = "planned"
                               /\ pc' \in {"observed", "detection"} => pc' = pc
                               /\ pc' \in {"verify", "record"} => pc' = pc /\ act' = act
    PROVE  PhaseInv'
<1>1. LastState' = LastState /\ LastPhase' = LastPhase
  BY DEF LastState, LastPhase
<1>2. HereInv'
  <2>1. {"planned", "observed", "detection", "verify", "record"} \subseteq AtAction
    BY DEF AtAction, Points, EmitPoints, TryPoints, FinalPoints
  <2> QED
    BY <1>1, <2>1 DEF PhaseInv, HereInv, Verified
<1>3. BehindInv'
  BY DEF PhaseInv, BehindInv, AtAction, FinalPoints
<1> QED
  BY <1>2, <1>3 DEF PhaseInv

\* An event after which run() goes on with the action.
LEMMA EventHere ==
    ASSUME TypeInv, FlowInv, RowInv, PhaseInv, Emit
    PROVE  PhaseInv'
<1>1. /\ pc \in EmitPoints /\ pc' = Following /\ timeline' = Append(timeline, Event)
      /\ UNCHANGED <<index, stop_campaign, ref>>
      /\ act'.cancelled = act.cancelled /\ act'.cleanup = act.cleanup
  BY DEF Emit, GoTo, control, TypeInv, TypeOK, ActType
<1>2. /\ index \in Actions /\ timeline' # <<>> /\ Ordered(timeline')
      /\ Len(timeline') = Len(timeline) + 1 /\ Len(timeline) \in Nat
      /\ timeline'[Len(timeline')].step = index
      /\ pc # "planned" => timeline # <<>>
      /\ \A i : i # index => PhaseOf(timeline', i) = PhaseOf(timeline, i)
  BY <1>1, EventMapped
<1>3. pc \in AtAction /\ pc' \notin {"start", "next", "planned"}
  BY <1>1 DEF Following, AtAction, Points, EmitPoints, TryPoints, FinalPoints
<1>4. Here(pc', ref.cleaning, LastState', LastPhase')
  <2>1. CASE pc = "planned"
    BY <1>1, <2>1, EventTold, EventPhases DEF Here, Following, TryPoints, Executions, Outcomes
  <2>2. CASE pc = "denied"
    BY <1>1, <2>2, EventTold, EventPhases DEF Here, Following, TryPoints, Executions, Outcomes
  <2>3. CASE pc = "prevented"
    BY <1>1, <2>3, EventTold, EventPhases DEF Here, Following, TryPoints, Executions, Outcomes
  <2>4. CASE pc = "authorized"
    BY <1>1, <2>4, EventTold, EventPhases DEF Here, Following, TryPoints, Executions, Outcomes
  <2>5. CASE pc = "prepared"
    BY <1>1, <2>5, EventTold, EventPhases DEF Here, Following, TryPoints, Executions, Outcomes
  <2>6. CASE pc = "attempted"
    BY <1>1, <2>6, EventTold, EventPhases DEF Here, Following, TryPoints, Executions, Outcomes
  <2>7. CASE pc = "executed"
    BY <1>1, <2>7, EventTold, EventPhases DEF Here, Following, TryPoints, Executions, Outcomes
  <2>8. CASE pc = "observed"
    BY <1>1, <2>8, EventTold, EventPhases DEF Here, Following, TryPoints, Executions, Outcomes
  <2>9. CASE pc = "detection"
    BY <1>1, <2>9, EventTold, EventPhases DEF Here, Following, TryPoints, Executions, Outcomes
  <2>10. CASE pc = "handler"
    BY <1>1, <2>10, EventTold, EventPhases DEF Here, Following, TryPoints, Executions, Outcomes
  <2>11. CASE pc = "cleanup_started"
    BY <1>1, <2>11, EventTold, EventPhases DEF Here, Following, TryPoints, Executions, Outcomes
  <2>12. CASE pc = "cleaned"
    BY <1>1, <2>12, EventTold, EventPhases DEF Here, Following, TryPoints, Executions, Outcomes
  <2>13. CASE pc = "cleanup_failed"
    BY <1>1, <2>13, EventTold, EventPhases DEF Here, Following, TryPoints, Executions, Outcomes
  <2>14. CASE pc = "verify"
    BY <1>1, <2>14, EventTold, EventPhases DEF Here, Following, TryPoints, Executions, Outcomes
  <2> QED
    BY <1>1, <2>1, <2>2, <2>3, <2>4, <2>5, <2>6, <2>7, <2>8, <2>9, <2>10, <2>11, <2>12, <2>13, <2>14 DEF EmitPoints, TryPoints
<1>5. pc' = "observed" => Len(timeline') >= 2
  <2>1. pc' = "observed" => pc = "executed"
    BY <1>1 DEF Following, EmitPoints, TryPoints
  <2>2. timeline # <<>> => Len(timeline) >= 1
    BY DEF TypeInv, TypeOK
  <2> QED
    BY <1>2, <2>1, <2>2
<1>6. pc' = "detection" => Len(timeline') >= 3
  <2>1. pc' = "detection" => pc = "observed"
    BY <1>1 DEF Following, EmitPoints, TryPoints
  <2> QED
    BY <1>2, <2>1 DEF PhaseInv, HereInv
<1>7. pc' = "verify" /\ Verified' => LastState' = "cleaned"
  <2>1. pc' = "verify" => pc \in {"cleaned", "cleanup_failed"}
    BY <1>1 DEF Following, EmitPoints, TryPoints
  <2>2. pc = "cleanup_failed" => act.cleanup # "cleaned"
    BY DEF FlowInv
  <2>3. pc = "cleaned" => LastState' = act.cleanup
    BY <1>1, EventTold, EventPhases
  <2> QED
    BY <1>1, <2>1, <2>2, <2>3 DEF Verified
<1>8. pc' = "record" /\ LastPhase' = "cancelled" => act'.cancelled
  <2>1. pc' = "record" => pc = "verify"
    BY <1>1 DEF Following, EmitPoints, TryPoints
  <2>2. pc = "verify" /\ LastPhase' = "cancelled" => act.cancelled
    BY <1>1, EventTold, EventPhases
  <2> QED
    BY <1>1, <2>1, <2>2
<1>9. HereInv'
  BY <1>1, <1>2, <1>3, <1>4, <1>5, <1>6, <1>7, <1>8 DEF HereInv
<1>10. BehindInv'
  <2>1. index \in Nat
    BY IndexIsNat DEF TypeInv
  <2> SUFFICES ASSUME NEW i \in 1..index, i < index, pc' \in AtAction
               PROVE  /\ PhaseOf(timeline', i) \in Lifecycle!Settled
                      /\ PhaseOf(timeline', i) = "cancelled" => stop_campaign
    BY <1>1, <1>3 DEF BehindInv
  <2>2. PhaseOf(timeline', i) = PhaseOf(timeline, i)
    BY <1>2, <2>1
  <2> QED
    BY <1>3, <2>2 DEF PhaseInv, BehindInv
<1> QED
  BY <1>2, <1>3, <1>9, <1>10 DEF PhaseInv

\* An event after which an exception takes the run to the cleanup, or out of it.
LEMMA EventLost ==
    ASSUME TypeInv, RowInv, PhaseInv, pc \in EmitPoints, timeline' = Append(timeline, Event),
           UNCHANGED <<index, stop_campaign, ref>>,
           \/ pc' \in FinalPoints
           \/ pc' = "cleanup_started" /\ pc \in TryPoints \union {"handler"}
    PROVE  PhaseInv'
<1>1. /\ timeline' # <<>> /\ Ordered(timeline') /\ timeline'[Len(timeline')].step = index
      /\ \A i : i # index => PhaseOf(timeline', i) = PhaseOf(timeline, i)
  BY EventMapped
<1>2. CASE pc' \in FinalPoints
  BY <1>1, <1>2 DEF PhaseInv, HereInv, BehindInv, AtAction, FinalPoints
<1>3. CASE pc' = "cleanup_started" /\ pc \in TryPoints \union {"handler"}
  <2>1. LastPhase' \in {"authorized", "active"}
    BY <1>3, EventPhases
  <2>2. HereInv'
    BY <1>1, <1>3, <2>1 DEF HereInv, Here
  <2>3. BehindInv'
    <3>1. index \in Nat /\ pc \in AtAction
      BY IndexIsNat DEF TypeInv, AtAction, Points, EmitPoints, TryPoints, FinalPoints
    <3> SUFFICES ASSUME NEW i \in 1..index, i < index
                 PROVE  /\ PhaseOf(timeline', i) \in Lifecycle!Settled
                        /\ PhaseOf(timeline', i) = "cancelled" => stop_campaign
      BY <1>3 DEF BehindInv
    <3>2. PhaseOf(timeline', i) = PhaseOf(timeline, i)
      BY <1>1, <3>1
    <3> QED
      BY <3>1, <3>2 DEF PhaseInv, BehindInv
  <2> QED
    BY <1>1, <1>3, <2>2, <2>3 DEF PhaseInv
<1> QED
  BY <1>2, <1>3

\* The row of an action that is settled.
LEMMA RowPhase ==
    ASSUME TypeInv, PhaseInv, NEW row, NEW stop, Record(row, stop),
           pc \in {"record", "record_prevented"}, ~stop_campaign,
           pc = "record" /\ act.cancelled => stop
    PROVE  PhaseInv'
<1>1. /\ pc' = "next" /\ stop_campaign' = stop /\ UNCHANGED <<timeline, index>>
  BY DEF Record, GoTo, logs
<1>2. pc \in AtAction \ {"planned"} /\ index \in Nat
  BY IndexIsNat DEF TypeInv, AtAction, Points, FinalPoints
<1>3. /\ timeline # <<>> /\ timeline[Len(timeline)].step = index
      /\ Here(pc, ref.cleaning, LastState, LastPhase)
      /\ pc = "record" /\ LastPhase = "cancelled" => act.cancelled
  BY <1>2 DEF PhaseInv, HereInv
<1>4. PhaseOf(timeline, index) = LastPhase
  BY <1>3, LastIsEnd DEF PhaseInv, TypeInv, TypeOK, LastPhase
<1>5. pc = "record_prevented" => LastPhase = "prevented"
  BY <1>3, PhaseTable DEF Here, LastState, LastPhase
<1>6. /\ LastPhase \in Lifecycle!Settled
      /\ LastPhase = "cancelled" => stop
  BY <1>3, <1>5 DEF Here, Lifecycle!Settled
<1>7. \A i \in 1..index : i < index => /\ PhaseOf(timeline, i) \in Lifecycle!Settled
                                       /\ PhaseOf(timeline, i) # "cancelled"
  BY <1>2 DEF PhaseInv, BehindInv
<1>8. BehindInv'
  BY <1>1, <1>2, <1>4, <1>6, <1>7 DEF BehindInv
<1> QED
  BY <1>1, <1>8 DEF PhaseInv, HereInv, AtAction

\* What the timeline tells of the actions is as PhaseInv says after every step.
LEMMA PhaseStep == TypeInv /\ FlowInv /\ RowInv /\ PhaseInv /\ [Next]_vars => PhaseInv'
<1> SUFFICES ASSUME TypeInv, FlowInv, RowInv, PhaseInv, [Next]_vars PROVE PhaseInv'
  OBVIOUS
<1> USE DEF GoTo, Move, control, logs
<1>0. ref \in RefType /\ index \in Nat
  BY IndexIsNat DEF TypeInv, TypeOK
<1>h. pc \in AtAction => Here(pc, ref.cleaning, LastState, LastPhase)
  BY DEF PhaseInv, HereInv
<1>p. LastState = "authorized" => LastPhase = "authorized"
  BY PhaseTable DEF LastState, LastPhase
<1>1. CASE RunLoop
  <2>1. CASE CreateRun
    <3>1. pc' = "next" /\ index = 0 /\ UNCHANGED <<timeline, index, stop_campaign>>
      BY <2>1 DEF CreateRun, PhaseInv
    <3> QED
      BY <3>1 DEF PhaseInv, HereInv, BehindInv, AtAction
  <2>2. CASE NextStep
    <3>1. /\ pc = "next" /\ ~stop_campaign /\ pc' = "planned" /\ index' = index + 1
          /\ UNCHANGED <<timeline, stop_campaign>> /\ index \in Nat
      BY <2>2, <1>0 DEF NextStep
    <3>2. HereInv'
      BY <3>1 DEF HereInv, RowInv, Here
    <3>3. BehindInv'
      <4> SUFFICES ASSUME NEW i \in 1..(index + 1), i < index + 1
                   PROVE  /\ PhaseOf(timeline, i) \in Lifecycle!Settled
                          /\ PhaseOf(timeline, i) = "cancelled" => stop_campaign
        BY <3>1 DEF BehindInv
      <4>1. i \in 1..index
        BY <3>1
      <4> QED
        BY <3>1, <4>1 DEF PhaseInv, BehindInv
    <3> QED
      BY <3>1, <3>2, <3>3 DEF PhaseInv
  <2>3. CASE LoopEnds
    BY <2>3, <1>h, QuietPhase DEF LoopEnds, Here, AtAction, Points, EmitPoints, TryPoints, FinalPoints
  <2>4. CASE Emit
    BY <2>4, EventHere
  <2>5. CASE Authorize
    BY <2>5, <1>h, QuietPhase DEF Authorize, Here, AtAction, Points, EmitPoints, TryPoints, FinalPoints
  <2>6. CASE RecordPrevented
    <3>1. ~stop_campaign
      BY <2>6 DEF RecordPrevented, RowInv, AtAction, Points, FinalPoints
    <3> QED
      BY <2>6, <3>1, RowPhase DEF RecordPrevented
  <2>7. CASE BeforeAction
    BY <2>7, <1>h, <1>p, QuietPhase DEF BeforeAction, Raise, InTry, Here, AtAction, Points, EmitPoints, TryPoints, FinalPoints
  <2>8. CASE Prepare
    BY <2>8, <1>h, QuietPhase DEF Prepare, Here, AtAction, Points, EmitPoints, TryPoints, FinalPoints
  <2>9. CASE HandleException
    BY <2>9, <1>h, QuietPhase DEF HandleException, Here, AtAction, Points, EmitPoints, TryPoints, FinalPoints
  <2>10. CASE ExecuteSimulated
    BY <2>10, <1>h, QuietPhase DEF ExecuteSimulated, Here, AtAction, Points, EmitPoints, TryPoints, FinalPoints
  <2>11. CASE Execute
    BY <2>11, <1>h, QuietPhase DEF Execute, BeginSequence, Here, AtAction, Points, EmitPoints, TryPoints, FinalPoints
  <2>12. CASE CleanupNoop
    BY <2>12, <1>h, QuietPhase DEF CleanupNoop, Here, AtAction, Points, EmitPoints, TryPoints, FinalPoints
  <2>13. CASE Cleanup
    BY <2>13, <1>h, QuietPhase DEF Cleanup, BeginSequence, Here, AtAction, Points, EmitPoints, TryPoints, FinalPoints
  <2>14. CASE CleanupRaised
    BY <2>14, <1>h, QuietPhase DEF CleanupRaised, Here, AtAction, Points, EmitPoints, TryPoints, FinalPoints
  <2>15. CASE SequenceEnds
    <3>1. Return(~ref.nonzero) /\ pc \in {"check", "spawn"}
      BY <2>15 DEF SequenceEnds
    <3> QED
      BY <3>1, <1>h, ReturnEffect, QuietPhase DEF TypeInv, Here, AtAction, Points, EmitPoints, TryPoints, FinalPoints
  <2>16. CASE ProcessRefused
    <3>1. Return(FALSE) /\ pc \in {"check", "spawn"}
      BY <2>16 DEF ProcessRefused
    <3> QED
      BY <3>1, <1>h, ReturnEffect, QuietPhase DEF TypeInv, Here, AtAction, Points, EmitPoints, TryPoints, FinalPoints
  <2>17. CASE ProcessAllowed
    <3>1. ref'.cleaning = ref.cleaning
      BY <2>17, <1>0 DEF ProcessAllowed, RefType
    <3> QED
      BY <2>17, <3>1, <1>h, QuietPhase DEF ProcessAllowed, Here, AtAction, Points, EmitPoints, TryPoints, FinalPoints
  <2>18. CASE CommandTimesOut
    <3>1. Return(FALSE) /\ pc \in {"check", "spawn"}
      BY <2>18 DEF CommandTimesOut
    <3> QED
      BY <3>1, <1>h, ReturnEffect, QuietPhase DEF TypeInv, Here, AtAction, Points, EmitPoints, TryPoints, FinalPoints
  <2>19. CASE RecordAction
    <3>1. ~stop_campaign
      BY <2>19 DEF RecordAction, RowInv, AtAction, Points, FinalPoints
    <3> QED
      BY <2>19, <3>1, RowPhase DEF RecordAction
  <2>20. CASE Finish
    BY <2>20, <1>h, QuietPhase DEF Finish, Here, AtAction, Points, EmitPoints, TryPoints, FinalPoints
  <2>21. CASE WriteReport
    BY <2>21, <1>h, QuietPhase DEF WriteReport, Here, AtAction, Points, EmitPoints, TryPoints, FinalPoints
  <2>22. CASE WriteArtifacts
    BY <2>22, <1>h, QuietPhase DEF WriteArtifacts, Here, AtAction, Points, EmitPoints, TryPoints, FinalPoints
  <2>23. CASE FinishRun
    BY <2>23, <1>h, QuietPhase DEF FinishRun, Here, AtAction, Points, EmitPoints, TryPoints, FinalPoints
  <2> QED
    BY <1>1, <2>1, <2>2, <2>3, <2>4, <2>5, <2>6, <2>7, <2>8, <2>9, <2>10, <2>11, <2>12, <2>13, <2>14, <2>15, <2>16, <2>17, <2>18, <2>19, <2>20, <2>21, <2>22, <2>23 DEF RunLoop
<1>2. CASE Environment
  <2>1. CASE EmitFileError
    BY <2>1, <1>h, <1>p, QuietPhase DEF EmitFileError, Raise, RaiseUncaught, InTry, Here, AtAction, Points, EmitPoints, TryPoints, FinalPoints
  <2>2. CASE EmitStoreError
    <3>1. /\ pc \in EmitPoints /\ timeline' = Append(timeline, Event)
          /\ UNCHANGED <<index, stop_campaign, ref>>
          /\ pc' = "aborted" \/ (pc' = "cleanup_started" /\ (InTry \/ pc = "handler"))
      BY <2>2 DEF EmitStoreError, RaiseUncaught
    <3>2. InTry => pc \in TryPoints
      BY <3>1 DEF InTry, EmitPoints, TryPoints
    <3> QED
      BY <3>1, <3>2, EventLost DEF FinalPoints
  <2>3. CASE WriteError
    BY <2>3, <1>h, QuietPhase DEF WriteError, Here, AtAction, Points, EmitPoints, TryPoints, FinalPoints
  <2>4. CASE PrepareRaises
    BY <2>4, <1>h, <1>p, QuietPhase DEF PrepareRaises, Here, AtAction, Points, EmitPoints, TryPoints, FinalPoints
  <2>5. CASE CommandEnds
    <3>1. ref'.cleaning = ref.cleaning
      BY <2>5, <1>0 DEF CommandEnds, RefType
    <3> QED
      BY <2>5, <3>1, <1>h, QuietPhase DEF CommandEnds, Here, AtAction, Points, EmitPoints, TryPoints, FinalPoints
  <2>6. CASE CommandNotStarted
    <3>1. Return(FALSE) /\ pc \in {"check", "spawn"}
      BY <2>6 DEF CommandNotStarted
    <3> QED
      BY <3>1, <1>h, ReturnEffect, QuietPhase DEF TypeInv, Here, AtAction, Points, EmitPoints, TryPoints, FinalPoints
  <2>7. CASE Cancel
    BY <2>7, <1>h, QuietPhase DEF Cancel, Here, AtAction, Points, EmitPoints, TryPoints, FinalPoints
  <2>8. CASE ClockPasses
    BY <2>8, <1>h, QuietPhase DEF ClockPasses, Here, AtAction, Points, EmitPoints, TryPoints, FinalPoints
  <2>9. CASE Interrupt
    BY <2>9, <1>h, <1>p, QuietPhase DEF Interrupt, RaiseUncaught, InTry, Here, AtAction, Points, EmitPoints, TryPoints, FinalPoints
  <2>10. CASE Crash
    <3>1. pc' = "crashed" /\ UNCHANGED <<index, stop_campaign, ref>>
      BY <2>10 DEF Crash
    <3>2. CASE timeline' = timeline
      BY <3>1, <3>2, QuietPhase DEF AtAction, FinalPoints
    <3>3. CASE pc \in EmitPoints /\ timeline' = Append(timeline, Event)
      BY <3>1, <3>3, EventLost DEF FinalPoints
    <3> QED
      BY <2>10, <3>2, <3>3 DEF Crash
  <2> QED
    BY <1>2, <2>1, <2>2, <2>3, <2>4, <2>5, <2>6, <2>7, <2>8, <2>9, <2>10 DEF Environment
<1>3. CASE UNCHANGED vars
  BY <1>3, <1>h, QuietPhase DEF vars, Here
<1> QED
  BY <1>1, <1>2, <1>3 DEF Next, Finished

\* The timeline file of every run implements ActionLifecycle, whatever fails: actions are
\* taken one at a time and in order, an authorized action settles only after a cleanup
\* outcome, as verified only with its evidence recorded and its cleanup done, and nothing
\* is planned after a cancelled action.
THEOREM TimelineImplementsLifecycle == Spec => TimelineIsLifecycle
<1>1. Init => PhaseInv
  <2> SUFFICES ASSUME Init PROVE PhaseInv
    OBVIOUS
  <2>1. pc = "start" /\ index = 0 /\ timeline = <<>>
    BY DEF Init
  <2> QED
    BY <2>1 DEF PhaseInv, Ordered, HereInv, BehindInv, AtAction
<1>2. Init => Lifecycle!LifecycleInit
  <2> SUFFICES ASSUME Init PROVE Lifecycle!LifecycleInit
    OBVIOUS
  <2>1. timeline = <<>> /\ Actions = 1..Len(Steps)
    BY CampaignAssumption DEF Init, Actions
  <2>2. Evaluated(timeline) = {} /\ \A i : PhaseOf(timeline, i) = "absent"
    BY <2>1 DEF Evaluated, PhaseOf
  <2> QED
    BY <2>1, <2>2 DEF Lifecycle!LifecycleInit
<1>3. RunInv /\ PhaseInv /\ [Next]_vars => PhaseInv'
  BY PhaseStep DEF RunInv
<1> QED
  BY <1>1, <1>2, <1>3, RunInit, RunStep, StepRefines, PTL
     DEF Spec, TimelineIsLifecycle, Lifecycle!LifecycleSpec

-----------------------------------------------------------------------------
(* The budget of cleanup commands suffices.                                    *)

\* Induction over the natural numbers, for sets.
Less == {p \in Nat \X Nat : p[1] < p[2]}

LEMMA LessWellFounded == IsWellFoundedOn(Less, Nat)
  BY NatLessThanWellFounded DEF OpToRel, Less

LEMMA SetInduction ==
    ASSUME NEW S, 0 \in S, \A n \in Nat : n \in S => n + 1 \in S
    PROVE  Nat \subseteq S
<1> SUFFICES ASSUME Nat \ S # {} PROVE FALSE
  OBVIOUS
<1> DEFINE T == Nat \ S
<1>1. PICK x \in T : \A y \in T : ~(<<y, x>> \in Less)
  <2>1. T \subseteq Nat /\ T # {}
    OBVIOUS
  <2> HIDE DEF T
  <2> QED
    BY <2>1, LessWellFounded, WFMin
<1>2. x \in Nat /\ x # 0 /\ x - 1 \in Nat /\ x - 1 < x
  OBVIOUS
<1>3. x - 1 \in S
  BY <1>1, <1>2 DEF Less
<1>4. (x - 1) + 1 \in S
  BY <1>2, <1>3
<1> QED
  BY <1>2, <1>4

\* The sums of a sequence of natural numbers exist.
LEMMA SumsExist ==
    ASSUME NEW L \in Nat, NEW c \in [1..L -> Nat]
    PROVE  \E f \in [0..L -> Nat] :
              \A i \in 0..L : f[i] = IF i = 0 THEN 0 ELSE f[i - 1] + c[i]
<1> DEFINE Sums(f, n) == /\ f \in [0..n -> Nat]
                         /\ \A i \in 0..n : f[i] = IF i = 0 THEN 0 ELSE f[i - 1] + c[i]
           Exist(n) == \E f : Sums(f, n)
           S == {n \in Nat : n <= L => Exist(n)}
<1>1. 0 \in S
  <2>1. Sums([i \in 0..0 |-> 0], 0)
    OBVIOUS
  <2>2. Exist(0)
    BY <2>1, Zenon
  <2> HIDE DEF Exist
  <2> QED
    BY <2>2
<1>2. ASSUME NEW n \in Nat, n \in S PROVE n + 1 \in S
  <2> SUFFICES ASSUME n + 1 <= L PROVE Exist(n + 1)
    <3> HIDE DEF Exist
    <3> QED
      OBVIOUS
  <2>0. Exist(n)
    <3> HIDE DEF Exist
    <3> QED
      BY <1>2
  <2>1. PICK f : Sums(f, n)
    BY <2>0
  <2> DEFINE g == [i \in 0..(n + 1) |-> IF i <= n THEN f[i] ELSE f[n] + c[n + 1]]
  <2>2. /\ f \in [0..n -> Nat] /\ n \in 0..n /\ n + 1 \in 1..L
        /\ c[n + 1] \in Nat /\ f[n] \in Nat
    BY <2>1
  <2>3. ASSUME NEW i \in 0..(n + 1) PROVE g[i] \in Nat
    <3>1. CASE i <= n
      <4>1. i \in 0..n
        BY <3>1
      <4> QED
        BY <2>2, <3>1, <4>1
    <3>2. CASE ~(i <= n)
      BY <2>2, <3>2
    <3> QED
      BY <3>1, <3>2
  <2>4. ASSUME NEW i \in 0..(n + 1)
        PROVE  g[i] = IF i = 0 THEN 0 ELSE g[i - 1] + c[i]
    <3>1. CASE i <= n
      <4>1. i \in 0..n /\ (i # 0 => i - 1 \in 0..n /\ i - 1 <= n /\ i - 1 \in 0..(n + 1))
        BY <3>1
      <4> QED
        BY <2>1, <3>1, <4>1
    <3>2. CASE ~(i <= n)
      <4>1. i = n + 1 /\ i # 0 /\ i - 1 = n /\ n \in 0..(n + 1) /\ n <= n
        BY <3>2
      <4> QED
        BY <3>2, <4>1
    <3> QED
      BY <3>1, <3>2
  <2>5. Sums(g, n + 1)
    BY <2>3, <2>4
  <2> QED
    BY <2>5
<1>3. L \in S
  <2> HIDE DEF S
  <2> QED
    BY <1>1, <1>2, SetInduction
<1>4. Exist(L)
  <2> HIDE DEF Exist
  <2> QED
    BY <1>3
<1> QED
  BY <1>4

\* CleanupTotal is the running sum of the cleanup commands.
LEMMA CleanupTotals ==
    /\ CleanupTotal \in [0..Len(Steps) -> Nat]
    /\ CleanupTotal[0] = 0
    /\ \A i \in Actions : CleanupTotal[i] = CleanupTotal[i - 1] + CleanupArgv[Steps[i].ability]
<1> DEFINE L == Len(Steps)
           c == [i \in 1..L |-> CleanupArgv[Steps[i].ability]]
           Total(f) == [i \in 0..L |-> IF i = 0 THEN 0 ELSE f[i - 1] + CleanupArgv[Steps[i].ability]]
<1>1. L \in Nat /\ Actions = 1..L
  BY CampaignAssumption DEF Actions
<1>2. c \in [1..L -> Nat]
  <2>1. \A i \in 1..L : Steps[i].ability \in Abilities
    BY <1>1 DEF Abilities
  <2> QED
    BY <2>1, CampaignAssumption
<1>3. \A i \in 1..L : c[i] = CleanupArgv[Steps[i].ability]
  OBVIOUS
<1> HIDE DEF c
<1>4. PICK f \in [0..L -> Nat] : \A i \in 0..L : f[i] = IF i = 0 THEN 0 ELSE f[i - 1] + c[i]
  BY <1>1, <1>2, SumsExist
<1>5. f = Total(f)
  <2>1. \A i \in 0..L : i # 0 => i \in 1..L
    BY <1>1
  <2>2. \A i \in 0..L : f[i] = IF i = 0 THEN 0 ELSE f[i - 1] + CleanupArgv[Steps[i].ability]
    BY <1>3, <1>4, <2>1
  <2> QED
    BY <2>2
<1>6. CleanupTotal = Total(CleanupTotal)
  <2>1. CleanupTotal = CHOOSE g : g = Total(g)
    BY Zenon DEF CleanupTotal
  <2> HIDE DEF Total
  <2> QED
    BY <1>5, <2>1
<1>7. \A i \in 0..L : CleanupTotal[i] = IF i = 0 THEN 0
                      ELSE CleanupTotal[i - 1] + CleanupArgv[Steps[i].ability]
  BY <1>6
<1>8. \A i \in 1..L : CleanupArgv[Steps[i].ability] \in Nat
  BY <1>2, <1>3
<1> DEFINE S == {n \in Nat : n <= L => CleanupTotal[n] \in Nat}
<1>9. 0 \in S
  BY <1>1, <1>7
<1>10. ASSUME NEW n \in Nat, n \in S PROVE n + 1 \in S
  <2> SUFFICES ASSUME n + 1 <= L PROVE CleanupTotal[n + 1] \in Nat
    OBVIOUS
  <2>1. n + 1 \in 0..L /\ n + 1 \in 1..L /\ n + 1 # 0 /\ (n + 1) - 1 = n /\ n <= L
    BY <1>1
  <2> QED
    BY <1>7, <1>8, <1>10, <2>1
<1>11. Nat \subseteq S
  <2> HIDE DEF S
  <2> QED
    BY <1>9, <1>10, SetInduction
<1>12. CleanupTotal \in [0..L -> Nat]
  <2>1. \A i \in 0..L : CleanupTotal[i] \in Nat
    BY <1>1, <1>11
  <2> QED
    BY <1>6, <2>1
<1> QED
  BY <1>1, <1>7, <1>12

\* The running sum never falls.
LEMMA CleanupTotalGrows ==
    ASSUME NEW i \in 0..Len(Steps)
    PROVE  CleanupTotal[i] <= TotalCleanup
<1> DEFINE L == Len(Steps)
           S == {n \in Nat : i + n <= L => CleanupTotal[i] <= CleanupTotal[i + n]}
<1>0. L \in Nat /\ Actions = 1..L
  BY CampaignAssumption DEF Actions
<1>1. /\ L \in Nat /\ Actions = 1..L /\ CleanupTotal \in [0..L -> Nat]
      /\ \A k \in 1..L : CleanupTotal[k] = CleanupTotal[k - 1] + CleanupArgv[Steps[k].ability]
  BY <1>0, CleanupTotals
<1>2. \A k \in 1..L : CleanupArgv[Steps[k].ability] \in Nat
  BY <1>1, CampaignAssumption DEF Abilities
<1>3. 0 \in S
  BY <1>1
<1>4. ASSUME NEW n \in Nat, n \in S PROVE n + 1 \in S
  <2> SUFFICES ASSUME i + (n + 1) <= L PROVE CleanupTotal[i] <= CleanupTotal[i + (n + 1)]
    OBVIOUS
  <2> DEFINE k == i + (n + 1)
  <2>1. k \in 1..L /\ k - 1 = i + n /\ i + n <= L /\ i + n \in 0..L
    BY <1>1
  <2>2. CleanupTotal[i] <= CleanupTotal[i + n]
    BY <1>4, <2>1
  <2>3. CleanupTotal[k] = CleanupTotal[i + n] + CleanupArgv[Steps[k].ability]
    BY <1>1, <2>1
  <2>4. CleanupTotal[i] \in Nat /\ CleanupTotal[i + n] \in Nat /\ CleanupArgv[Steps[k].ability] \in Nat
    BY <1>1, <1>2, <2>1
  <2> QED
    BY <2>2, <2>3, <2>4
<1>5. L - i \in S
  <2>1. L - i \in Nat
    BY <1>1
  <2> HIDE DEF S
  <2> QED
    BY <1>3, <1>4, <2>1, SetInduction
<1>6. i + (L - i) = L
  BY <1>1
<1> QED
  BY <1>1, <1>5, <1>6 DEF TotalCleanup

\* The sums at the current action.
LEMMA SumsHere ==
    ASSUME TypeInv
    PROVE  /\ CleanupTotal[index] \in Nat
           /\ pc \in AtAction => /\ CleanupTotal[index - 1] \in Nat
                                 /\ CleanupArgv[Ability] \in Nat
                                 /\ CleanupTotal[index] = CleanupTotal[index - 1] + CleanupArgv[Ability]
           /\ Spent \in Nat
<1>0. Len(Steps) \in Nat /\ Actions = 1..Len(Steps) /\ index \in 0..Len(Steps) /\ ref.argv \in Nat
  BY CampaignAssumption DEF Actions, TypeInv, TypeOK, RefType
<1>1. CleanupTotal[index] \in Nat
  BY <1>0, CleanupTotals
<1>2. ASSUME pc \in AtAction
      PROVE  /\ CleanupTotal[index - 1] \in Nat
             /\ CleanupArgv[Ability] \in Nat
             /\ CleanupTotal[index] = CleanupTotal[index - 1] + CleanupArgv[Ability]
  <2>1. index \in Actions /\ index - 1 \in 0..Len(Steps)
    BY <1>0, <1>2 DEF TypeInv, Assigned
  <2>2. Ability \in Abilities
    BY <2>1 DEF Ability, Abilities
  <2> QED
    BY <2>1, <2>2, CleanupTotals, CampaignAssumption DEF Ability
<1>3. {"check", "spawn", "except", "handler", "cleanup_started", "cleanup"} \subseteq AtAction
      /\ (BeforeFinally => pc \in AtAction)
  BY DEF BeforeFinally, AtAction, Points, EmitPoints, TryPoints, FinalPoints
<1> QED
  BY <1>0, <1>1, <1>2, <1>3 DEF Spent

\* Before the first cleanup command of the current action, and after its last one.
Earlier == BeforeFinally \/ pc \in {"except", "handler", "cleanup_started", "cleanup"}
Later   == ~Earlier /\ ~(pc \in {"check", "spawn"} /\ ref.cleaning)

LEMMA SpentBounds ==
    ASSUME TypeInv, Budget
    PROVE  /\ Earlier => Spent = CleanupTotal[index - 1]
           /\ Later => Spent = CleanupTotal[index]
           /\ Spent \in Nat /\ Spent <= CleanupTotal[index]
<1>0. Earlier => pc \in AtAction
  BY DEF Earlier, BeforeFinally, AtAction, Points, EmitPoints, TryPoints, FinalPoints
<1>1. Earlier => Spent = CleanupTotal[index - 1]
  BY DEF Earlier, Spent, BeforeFinally
<1>2. Later => Spent = CleanupTotal[index]
  BY DEF Later, Earlier, Spent
<1>3. Spent \in Nat /\ CleanupTotal[index] \in Nat
  BY SumsHere
<1>4. CASE Earlier
  BY <1>0, <1>1, <1>2, <1>3, <1>4, SumsHere
<1>5. CASE Later
  BY <1>1, <1>2, <1>3, <1>5 DEF Later
<1>6. CASE ~Earlier /\ ~Later
  <2>1. /\ pc \in AtAction /\ pc \in {"check", "spawn"} /\ ref.cleaning
        /\ SequenceLength = CleanupArgv[Ability]
    BY <1>6 DEF Later, SequenceLength, AtAction, Points, FinalPoints
  <2>2. ref.argv \in Nat
    BY DEF TypeInv, TypeOK, RefType
  <2>3. ref.argv + (IF pc = "spawn" THEN 1 ELSE 0) <= CleanupArgv[Ability]
    BY <2>1, <2>2, SumsHere DEF Budget, InSequence
  <2> QED
    BY <2>1, <2>2, <2>3, <1>3, <1>6, SumsHere DEF Spent
<1> QED
  BY <1>1, <1>2, <1>3, <1>4, <1>5, <1>6

\* The tracker counts a cleanup command only where Spent does.
Paid == /\ limits'.cleanups = limits.cleanups \/ limits'.cleanups = limits.cleanups + 1
        /\ (limits'.cleanups - limits.cleanups) + Spent <= Spent'

\* Every step pays for the cleanup command it counts.
LEMMA PaidStep ==
    ASSUME TypeInv, Budget, [Next]_vars
    PROVE  Paid
<1> USE DEF GoTo, Move, control
<1>0. /\ limits \in LimitsType /\ limits.cleanups \in Nat /\ ref \in RefType /\ ref.argv \in Nat
      /\ index \in Nat /\ pc \in Points
  BY IndexIsNat DEF TypeInv, TypeOK, LimitsType, RefType
<1>1. /\ CleanupTotal[index] \in Nat /\ Spent \in Nat /\ Spent <= CleanupTotal[index]
      /\ Earlier => Spent = CleanupTotal[index - 1]
  BY SumsHere, SpentBounds
<1>3. ASSUME index' = index, limits'.cleanups = limits.cleanups, Later' \/ (Earlier /\ Earlier')
      PROVE  Paid
  <2>1. CASE Later'
    <3>1. Spent' = CleanupTotal[index]
      BY <1>3, <2>1 DEF Later, Earlier, Spent
    <3> QED
      BY <1>0, <1>1, <1>3, <3>1 DEF Paid
  <2>2. CASE Earlier /\ Earlier'
    <3>1. Spent' = CleanupTotal[index - 1]
      BY <1>3, <2>2 DEF Earlier, Spent, BeforeFinally
    <3> QED
      BY <1>0, <1>1, <1>3, <2>2, <3>1 DEF Paid
  <2> QED
    BY <1>3, <2>1, <2>2
<1>4. ASSUME NEW ok, Return(ok), pc \in {"check", "spawn"} PROVE Paid
  <2>1. /\ UNCHANGED <<index, limits, ref>>
        /\ pc' = IF ref.cleaning THEN "cleaned" ELSE "executed"
    BY <1>4, ReturnEffect DEF TypeInv
  <2>2. Later' \/ (Earlier /\ Earlier')
    BY <1>4, <2>1 DEF Later, Earlier, BeforeFinally
  <2> QED
    BY <2>1, <2>2, <1>3
<1>5. ASSUME UNCHANGED <<index, ref, pc>>, limits'.cleanups = limits.cleanups PROVE Paid
  <2>1. Spent' = Spent
    BY <1>5 DEF Spent, BeforeFinally
  <2> QED
    BY <2>1, <1>0, <1>1, <1>5 DEF Paid
<1>8. CASE RunLoop
  <2>1. CASE CreateRun
    <3>1. /\ index' = index /\ limits'.cleanups = limits.cleanups /\ (Later' \/ (Earlier /\ Earlier'))
      BY <2>1, <1>0 DEF CreateRun, Earlier, Later, BeforeFinally
    <3> QED
      BY <3>1, <1>3
  <2>2. CASE NextStep
    <3>1. /\ pc = "next" /\ pc' = "planned" /\ index' = index + 1 /\ limits' = limits
      BY <2>2 DEF NextStep
    <3>2. index' - 1 = index
      BY <3>1, <1>0
    <3>3. Spent' = CleanupTotal[index] /\ Spent = CleanupTotal[index]
      BY <3>1, <3>2 DEF Spent, BeforeFinally
    <3> QED
      BY <3>1, <3>3, <1>0, <1>1 DEF Paid
  <2>3. CASE LoopEnds
    <3>1. /\ index' = index /\ limits'.cleanups = limits.cleanups /\ (Later' \/ (Earlier /\ Earlier'))
      BY <2>3, <1>0 DEF LoopEnds, Earlier, Later, BeforeFinally
    <3> QED
      BY <3>1, <1>3
  <2>4. CASE Emit
    <3>1. /\ index' = index /\ limits'.cleanups = limits.cleanups /\ (Later' \/ (Earlier /\ Earlier'))
      BY <2>4, <1>0 DEF Emit, Earlier, Later, BeforeFinally, InTry, EmitPoints, TryPoints, FinalPoints, Following
    <3> QED
      BY <3>1, <1>3
  <2>5. CASE Authorize
    <3>1. /\ index' = index /\ limits'.cleanups = limits.cleanups /\ (Later' \/ (Earlier /\ Earlier'))
      BY <2>5, <1>0 DEF Authorize, Earlier, Later, BeforeFinally
    <3> QED
      BY <3>1, <1>3
  <2>6. CASE RecordPrevented
    <3>1. /\ index' = index /\ limits'.cleanups = limits.cleanups /\ (Later' \/ (Earlier /\ Earlier'))
      BY <2>6, <1>0 DEF RecordPrevented, Record, Earlier, Later, BeforeFinally, InTry, EmitPoints, TryPoints, FinalPoints
    <3> QED
      BY <3>1, <1>3
  <2>7. CASE BeforeAction
    <3>1. limits'.cleanups = limits.cleanups
      BY <2>7, <1>0 DEF BeforeAction, LimitsType
    <3>2. index' = index /\ (Later' \/ (Earlier /\ Earlier'))
      BY <2>7 DEF BeforeAction, Raise, Earlier, Later, BeforeFinally, InTry, EmitPoints, TryPoints, FinalPoints
    <3> QED
      BY <3>1, <3>2, <1>3
  <2>8. CASE Prepare
    <3>1. /\ index' = index /\ limits'.cleanups = limits.cleanups /\ (Later' \/ (Earlier /\ Earlier'))
      BY <2>8, <1>0 DEF Prepare, Earlier, Later, BeforeFinally
    <3> QED
      BY <3>1, <1>3
  <2>9. CASE HandleException
    <3>1. /\ index' = index /\ limits'.cleanups = limits.cleanups /\ (Later' \/ (Earlier /\ Earlier'))
      BY <2>9, <1>0 DEF HandleException, Earlier, Later, BeforeFinally
    <3> QED
      BY <3>1, <1>3
  <2>10. CASE ExecuteSimulated
    <3>1. /\ index' = index /\ limits'.cleanups = limits.cleanups /\ (Later' \/ (Earlier /\ Earlier'))
      BY <2>10, <1>0 DEF ExecuteSimulated, Earlier, Later, BeforeFinally
    <3> QED
      BY <3>1, <1>3
  <2>11. CASE Execute
    <3>1. /\ index' = index /\ limits'.cleanups = limits.cleanups /\ (Later' \/ (Earlier /\ Earlier'))
      BY <2>11, <1>0 DEF Execute, BeginSequence, Earlier, Later, BeforeFinally
    <3> QED
      BY <3>1, <1>3
  <2>12. CASE CleanupNoop
    <3>1. /\ index' = index /\ limits'.cleanups = limits.cleanups /\ (Later' \/ (Earlier /\ Earlier'))
      BY <2>12, <1>0 DEF CleanupNoop, Earlier, Later, BeforeFinally
    <3> QED
      BY <3>1, <1>3
  <2>13. CASE Cleanup
    <3>1. /\ pc = "cleanup" /\ pc' = "check" /\ UNCHANGED <<index, limits>> /\ ref'.argv = 0
          /\ ref'.cleaning
      BY <2>13 DEF Cleanup, BeginSequence
    <3>2. pc \in AtAction /\ Earlier
      BY <3>1 DEF Earlier, AtAction, Points, FinalPoints
    <3>3. Spent' = CleanupTotal[index - 1] + 0 + 0
      BY <3>1 DEF Spent
    <3> QED
      BY <3>1, <3>2, <3>3, <1>0, <1>1, SumsHere DEF Paid
  <2>14. CASE CleanupRaised
    <3>1. /\ index' = index /\ limits'.cleanups = limits.cleanups /\ (Later' \/ (Earlier /\ Earlier'))
      BY <2>14, <1>0 DEF CleanupRaised, Earlier, Later, BeforeFinally
    <3> QED
      BY <3>1, <1>3
  <2>15. CASE SequenceEnds
    <3>1. Return(~ref.nonzero) /\ pc \in {"check", "spawn"}
      BY <2>15 DEF SequenceEnds
    <3> QED
      BY <3>1, <1>4
  <2>16. CASE ProcessRefused
    <3>1. Return(FALSE) /\ pc \in {"check", "spawn"}
      BY <2>16 DEF ProcessRefused
    <3> QED
      BY <3>1, <1>4
  <2>17. CASE ProcessAllowed
    <3>1. /\ pc = "check" /\ pc' = "spawn" /\ ref'.argv = ref.argv /\ ref'.cleaning = ref.cleaning
          /\ limits'.cleanups = IF ref.cleaning THEN limits.cleanups + 1 ELSE limits.cleanups
          /\ index' = index
      BY <2>17, <1>0 DEF ProcessAllowed, LimitsType, RefType
    <3>2. CASE ref.cleaning
      <4>1. pc \in AtAction
        BY <3>1 DEF AtAction, Points, FinalPoints
      <4>2. Spent = CleanupTotal[index - 1] + ref.argv + 0 /\ Spent' = CleanupTotal[index - 1] + ref.argv + 1
        BY <3>1, <3>2 DEF Spent
      <4> QED
        BY <3>1, <3>2, <4>1, <4>2, <1>0, SumsHere DEF Paid
    <3>3. CASE ~ref.cleaning
      <4>1. Earlier /\ Earlier' /\ limits'.cleanups = limits.cleanups
        BY <3>1, <3>3 DEF Earlier, BeforeFinally
      <4> QED
        BY <3>1, <4>1, <1>3
    <3> QED
      BY <3>2, <3>3
  <2>18. CASE CommandTimesOut
    <3>1. Return(FALSE) /\ pc \in {"check", "spawn"}
      BY <2>18 DEF CommandTimesOut
    <3> QED
      BY <3>1, <1>4
  <2>19. CASE RecordAction
    <3>1. /\ index' = index /\ limits'.cleanups = limits.cleanups /\ (Later' \/ (Earlier /\ Earlier'))
      BY <2>19, <1>0 DEF RecordAction, Record, Earlier, Later, BeforeFinally, InTry, EmitPoints, TryPoints, FinalPoints
    <3> QED
      BY <3>1, <1>3
  <2>20. CASE Finish
    <3>1. /\ index' = index /\ limits'.cleanups = limits.cleanups /\ (Later' \/ (Earlier /\ Earlier'))
      BY <2>20, <1>0 DEF Finish, Earlier, Later, BeforeFinally
    <3> QED
      BY <3>1, <1>3
  <2>21. CASE WriteReport
    <3>1. /\ index' = index /\ limits'.cleanups = limits.cleanups /\ (Later' \/ (Earlier /\ Earlier'))
      BY <2>21, <1>0 DEF WriteReport, Earlier, Later, BeforeFinally
    <3> QED
      BY <3>1, <1>3
  <2>22. CASE WriteArtifacts
    <3>1. /\ index' = index /\ limits'.cleanups = limits.cleanups /\ (Later' \/ (Earlier /\ Earlier'))
      BY <2>22, <1>0 DEF WriteArtifacts, Earlier, Later, BeforeFinally
    <3> QED
      BY <3>1, <1>3
  <2>23. CASE FinishRun
    <3>1. /\ index' = index /\ limits'.cleanups = limits.cleanups /\ (Later' \/ (Earlier /\ Earlier'))
      BY <2>23, <1>0 DEF FinishRun, Earlier, Later, BeforeFinally
    <3> QED
      BY <3>1, <1>3
  <2> QED
    BY <1>8, <2>1, <2>2, <2>3, <2>4, <2>5, <2>6, <2>7, <2>8, <2>9, <2>10, <2>11, <2>12, <2>13, <2>14, <2>15, <2>16, <2>17, <2>18, <2>19, <2>20, <2>21, <2>22, <2>23 DEF RunLoop
<1>9. CASE Environment
  <2>1. CASE EmitFileError
    <3>1. /\ index' = index /\ limits'.cleanups = limits.cleanups /\ (Later' \/ (Earlier /\ Earlier'))
      BY <2>1, <1>0 DEF EmitFileError, Raise, RaiseUncaught, Earlier, Later, BeforeFinally, InTry, EmitPoints, TryPoints, FinalPoints
    <3> QED
      BY <3>1, <1>3
  <2>2. CASE EmitStoreError
    <3>1. /\ index' = index /\ limits'.cleanups = limits.cleanups /\ (Later' \/ (Earlier /\ Earlier'))
      BY <2>2, <1>0 DEF EmitStoreError, RaiseUncaught, Earlier, Later, BeforeFinally, InTry, EmitPoints, TryPoints, FinalPoints
    <3> QED
      BY <3>1, <1>3
  <2>3. CASE WriteError
    <3>1. /\ index' = index /\ limits'.cleanups = limits.cleanups /\ (Later' \/ (Earlier /\ Earlier'))
      BY <2>3, <1>0 DEF WriteError, Earlier, Later, BeforeFinally, InTry, EmitPoints, TryPoints, FinalPoints
    <3> QED
      BY <3>1, <1>3
  <2>4. CASE PrepareRaises
    <3>1. /\ index' = index /\ limits'.cleanups = limits.cleanups /\ (Later' \/ (Earlier /\ Earlier'))
      BY <2>4, <1>0 DEF PrepareRaises, Earlier, Later, BeforeFinally, InTry, EmitPoints, TryPoints, FinalPoints
    <3> QED
      BY <3>1, <1>3
  <2>5. CASE CommandEnds
    <3>1. /\ pc = "spawn" /\ pc' = "check" /\ ref'.argv = ref.argv + 1 /\ ref'.cleaning = ref.cleaning
          /\ UNCHANGED <<index, limits>>
      BY <2>5, <1>0 DEF CommandEnds, RefType
    <3>2. CASE ref.cleaning
      <4>1. pc \in AtAction
        BY <3>1 DEF AtAction, Points, FinalPoints
      <4>2. Spent = CleanupTotal[index - 1] + ref.argv + 1 /\ Spent' = CleanupTotal[index - 1] + ref'.argv + 0
        BY <3>1, <3>2 DEF Spent
      <4> QED
        BY <3>1, <4>1, <4>2, <1>0, SumsHere DEF Paid
    <3>3. CASE ~ref.cleaning
      <4>1. Earlier /\ Earlier' /\ limits'.cleanups = limits.cleanups
        BY <3>1, <3>3 DEF Earlier, BeforeFinally
      <4> QED
        BY <3>1, <4>1, <1>3
    <3> QED
      BY <3>2, <3>3
  <2>6. CASE CommandNotStarted
    <3>1. Return(FALSE) /\ pc \in {"check", "spawn"}
      BY <2>6 DEF CommandNotStarted
    <3> QED
      BY <3>1, <1>4
  <2>7. CASE Cancel
    <3>1. UNCHANGED <<index, ref, pc>> /\ limits'.cleanups = limits.cleanups
      BY <2>7, <1>0 DEF Cancel, LimitsType
    <3> QED
      BY <3>1, <1>5
  <2>8. CASE ClockPasses
    <3>1. UNCHANGED <<index, ref, pc>> /\ limits'.cleanups = limits.cleanups
      BY <2>8, <1>0 DEF ClockPasses, LimitsType
    <3> QED
      BY <3>1, <1>5
  <2>9. CASE Interrupt
    <3>1. /\ index' = index /\ limits'.cleanups = limits.cleanups /\ (Later' \/ (Earlier /\ Earlier'))
      BY <2>9, <1>0 DEF Interrupt, RaiseUncaught, Earlier, Later, BeforeFinally, InTry, EmitPoints, TryPoints, FinalPoints
    <3> QED
      BY <3>1, <1>3
  <2>10. CASE Crash
    <3>1. /\ index' = index /\ limits'.cleanups = limits.cleanups /\ (Later' \/ (Earlier /\ Earlier'))
      BY <2>10, <1>0 DEF Crash, Earlier, Later, BeforeFinally, InTry, EmitPoints, TryPoints, FinalPoints
    <3> QED
      BY <3>1, <1>3
  <2> QED
    BY <1>9, <2>1, <2>2, <2>3, <2>4, <2>5, <2>6, <2>7, <2>8, <2>9, <2>10 DEF Environment
<1>10. CASE UNCHANGED vars
  BY <1>10, <1>5 DEF vars
<1> QED
  BY <1>8, <1>9, <1>10 DEF Next, Finished

\* No sequence runs past its last command.
LEMMA ArgvStep ==
    ASSUME TypeInv, Budget, [Next]_vars
    PROVE  InSequence'
<1> USE DEF GoTo, Move, control
<1>0. /\ limits \in LimitsType /\ ref \in RefType /\ ref.argv \in Nat /\ index \in Nat
      /\ pc \in {"execute", "cleanup", "check", "spawn"} =>
            /\ SequenceLength \in Nat /\ Argv[Ability] \in Nat \ {0} /\ CleanupArgv[Ability] \in Nat
  <2>1. ASSUME pc \in {"execute", "cleanup", "check", "spawn"} PROVE Ability \in Abilities
    BY <2>1 DEF TypeInv, Assigned, AtAction, Points, FinalPoints, Ability, Abilities
  <2> QED
    BY <2>1, IndexIsNat, CampaignAssumption DEF TypeInv, TypeOK, LimitsType, RefType, SequenceLength
<1>3. ASSUME UNCHANGED <<index, ref, pc>> PROVE InSequence'
  BY <1>3 DEF Budget, InSequence, SequenceLength, Ability
<1>4. ASSUME pc' \notin {"check", "spawn"} PROVE InSequence'
  BY <1>4 DEF InSequence
<1>5. ASSUME NEW ok, Return(ok) PROVE InSequence'
  BY <1>5 DEF Return, InSequence
<1>8. CASE RunLoop
  <2>1. CASE CreateRun
    BY <2>1, <1>4 DEF CreateRun
  <2>2. CASE NextStep
    BY <2>2, <1>4 DEF NextStep
  <2>3. CASE LoopEnds
    BY <2>3, <1>4 DEF LoopEnds
  <2>4. CASE Emit
    BY <2>4, <1>4 DEF Emit, Following, EmitPoints, TryPoints
  <2>5. CASE Authorize
    BY <2>5, <1>4 DEF Authorize
  <2>6. CASE RecordPrevented
    BY <2>6, <1>4 DEF RecordPrevented, Record
  <2>7. CASE BeforeAction
    BY <2>7, <1>4 DEF BeforeAction, Raise, InTry, TryPoints
  <2>8. CASE Prepare
    BY <2>8, <1>4 DEF Prepare
  <2>9. CASE HandleException
    BY <2>9, <1>4 DEF HandleException
  <2>10. CASE ExecuteSimulated
    BY <2>10, <1>4 DEF ExecuteSimulated
  <2>11. CASE Execute
    <3>1. /\ pc = "execute" /\ index' = index /\ ref'.argv = 0 /\ ~ref'.cleaning /\ pc' = "check"
      BY <2>11 DEF Execute, BeginSequence
    <3> QED
      BY <3>1, <1>0 DEF InSequence, SequenceLength, Ability
  <2>12. CASE CleanupNoop
    BY <2>12, <1>4 DEF CleanupNoop
  <2>13. CASE Cleanup
    <3>1. /\ pc = "cleanup" /\ index' = index /\ ref'.argv = 0 /\ ref'.cleaning /\ pc' = "check"
      BY <2>13 DEF Cleanup, BeginSequence
    <3> QED
      BY <3>1, <1>0 DEF InSequence, SequenceLength, Ability
  <2>14. CASE CleanupRaised
    BY <2>14, <1>4 DEF CleanupRaised
  <2>15. CASE SequenceEnds
    BY <2>15, <1>5 DEF SequenceEnds
  <2>16. CASE ProcessRefused
    BY <2>16, <1>5 DEF ProcessRefused
  <2>17. CASE ProcessAllowed
    <3>1. /\ pc = "check" /\ pc' = "spawn" /\ index' = index /\ ref.argv < SequenceLength
          /\ ref'.argv = ref.argv /\ ref'.cleaning = ref.cleaning
      BY <2>17, <1>0 DEF ProcessAllowed, RefType
    <3>2. SequenceLength' = SequenceLength
      BY <3>1 DEF SequenceLength, Ability
    <3> QED
      BY <3>1, <3>2, <1>0 DEF InSequence
  <2>18. CASE CommandTimesOut
    BY <2>18, <1>5 DEF CommandTimesOut
  <2>19. CASE RecordAction
    BY <2>19, <1>4 DEF RecordAction, Record
  <2>20. CASE Finish
    BY <2>20, <1>4 DEF Finish
  <2>21. CASE WriteReport
    BY <2>21, <1>4 DEF WriteReport
  <2>22. CASE WriteArtifacts
    BY <2>22, <1>4 DEF WriteArtifacts
  <2>23. CASE FinishRun
    BY <2>23, <1>4 DEF FinishRun
  <2> QED
    BY <1>8, <2>1, <2>2, <2>3, <2>4, <2>5, <2>6, <2>7, <2>8, <2>9, <2>10, <2>11, <2>12, <2>13, <2>14, <2>15, <2>16, <2>17, <2>18, <2>19, <2>20, <2>21, <2>22, <2>23 DEF RunLoop
<1>9. CASE Environment
  <2>1. CASE EmitFileError
    BY <2>1, <1>4 DEF EmitFileError, Raise, RaiseUncaught, InTry, TryPoints
  <2>2. CASE EmitStoreError
    BY <2>2, <1>4 DEF EmitStoreError, RaiseUncaught, InTry, TryPoints
  <2>3. CASE WriteError
    BY <2>3, <1>4 DEF WriteError
  <2>4. CASE PrepareRaises
    BY <2>4, <1>4 DEF PrepareRaises
  <2>5. CASE CommandEnds
    <3>1. /\ pc = "spawn" /\ pc' = "check" /\ index' = index /\ ref.argv < SequenceLength
          /\ ref'.argv = ref.argv + 1 /\ ref'.cleaning = ref.cleaning
      BY <2>5, <1>0 DEF CommandEnds, RefType, Budget, InSequence
    <3>2. SequenceLength' = SequenceLength
      BY <3>1 DEF SequenceLength, Ability
    <3> QED
      BY <3>1, <3>2, <1>0 DEF InSequence
  <2>6. CASE CommandNotStarted
    BY <2>6, <1>5 DEF CommandNotStarted
  <2>7. CASE Cancel
    BY <2>7, <1>3 DEF Cancel
  <2>8. CASE ClockPasses
    BY <2>8, <1>3 DEF ClockPasses
  <2>9. CASE Interrupt
    BY <2>9, <1>4 DEF Interrupt, RaiseUncaught, InTry, TryPoints
  <2>10. CASE Crash
    BY <2>10, <1>4 DEF Crash
  <2> QED
    BY <1>9, <2>1, <2>2, <2>3, <2>4, <2>5, <2>6, <2>7, <2>8, <2>9, <2>10 DEF Environment
<1>10. CASE UNCHANGED vars
  BY <1>10, <1>3 DEF vars
<1> QED
  BY <1>8, <1>9, <1>10 DEF Next, Finished

\* A cleanup command is refused only when the tracker has counted more than the reserve.
LEMMA NotStarved ==
    ASSUME TypeInv, Budget, pc = "check", ref.argv < SequenceLength, ref.cleaning,
           \A use \in PriorUse : use.cleanups + TotalCleanup <= MaxProcesses
    PROVE  ~LimitsRefuseProcess
<1>1. /\ pc \in AtAction /\ SequenceLength = CleanupArgv[Ability] /\ ref.argv \in Nat
      /\ limits.cleanups \in Nat /\ index \in 0..Len(Steps) /\ MaxProcesses \in Nat
  BY CampaignAssumption
     DEF SequenceLength, AtAction, Points, FinalPoints, TypeInv, TypeOK, RefType, LimitsType
<1>2. Spent = CleanupTotal[index - 1] + ref.argv + 0
  BY DEF Spent
<1>3. /\ CleanupTotal[index] \in Nat /\ CleanupTotal[index - 1] \in Nat
      /\ CleanupArgv[Ability] \in Nat
      /\ CleanupTotal[index] = CleanupTotal[index - 1] + CleanupArgv[Ability]
  BY <1>1, SumsHere
<1>4. CleanupTotal[index] <= TotalCleanup /\ TotalCleanup \in Nat
  <2>1. Len(Steps) \in Nat /\ Len(Steps) \in 0..Len(Steps)
    BY CampaignAssumption
  <2> QED
    BY <1>1, <2>1, CleanupTotalGrows, CleanupTotals DEF TotalCleanup
<1>5. PICK u \in PriorUse : limits.cleanups <= u.cleanups + Spent
  BY DEF Budget
<1>6. u.cleanups \in Nat /\ u.cleanups + TotalCleanup <= MaxProcesses
  BY <1>5, CampaignAssumption
<1>7. limits.cleanups < MaxProcesses
  <2>1. Spent \in Nat /\ Spent < TotalCleanup
    BY <1>1, <1>2, <1>3, <1>4
  <2>2. \A count, used, spent, total, max \in Nat :
           count <= used + spent /\ spent < total /\ used + total <= max => count < max
    OBVIOUS
  <2> QED
    BY <1>1, <1>4, <1>5, <1>6, <2>1, <2>2
<1> QED
  BY <1>1, <1>7 DEF LimitsRefuseProcess

LEMMA StarvedStep ==
    ASSUME TypeInv, Budget, [Next]_vars,
           \A use \in PriorUse : use.cleanups + TotalCleanup <= MaxProcesses
    PROVE  seen'.starved = seen.starved
<1> USE DEF GoTo, Move, control
<1>0. seen \in SeenType
  BY DEF TypeInv, TypeOK
<1>1. CASE RunLoop
  <2>1. CASE CreateRun
    BY <2>1 DEF CreateRun
  <2>2. CASE NextStep
    BY <2>2 DEF NextStep
  <2>3. CASE LoopEnds
    BY <2>3 DEF LoopEnds
  <2>4. CASE Emit
    BY <2>4 DEF Emit
  <2>5. CASE Authorize
    BY <2>5 DEF Authorize
  <2>6. CASE RecordPrevented
    BY <2>6 DEF RecordPrevented, Record
  <2>7. CASE BeforeAction
    BY <2>7 DEF BeforeAction, Raise
  <2>8. CASE Prepare
    BY <2>8 DEF Prepare
  <2>9. CASE HandleException
    BY <2>9 DEF HandleException
  <2>10. CASE ExecuteSimulated
    BY <2>10 DEF ExecuteSimulated
  <2>11. CASE Execute
    BY <2>11 DEF Execute, BeginSequence
  <2>12. CASE CleanupNoop
    BY <2>12, <1>0 DEF CleanupNoop, CleanupCalled, SeenType
  <2>13. CASE Cleanup
    BY <2>13, <1>0 DEF Cleanup, CleanupCalled, SeenType
  <2>14. CASE CleanupRaised
    BY <2>14 DEF CleanupRaised
  <2>15. CASE SequenceEnds
    BY <2>15 DEF SequenceEnds, Return
  <2>16. CASE ProcessRefused
    <3>1. ~ref.cleaning
      BY <2>16, NotStarved DEF ProcessRefused
    <3> QED
      BY <2>16, <3>1, <1>0 DEF ProcessRefused, SeenType
  <2>17. CASE ProcessAllowed
    BY <2>17 DEF ProcessAllowed
  <2>18. CASE CommandTimesOut
    BY <2>18, <1>0 DEF CommandTimesOut, Spawned, SeenType
  <2>19. CASE RecordAction
    BY <2>19 DEF RecordAction, Record
  <2>20. CASE Finish
    BY <2>20 DEF Finish
  <2>21. CASE WriteReport
    BY <2>21 DEF WriteReport
  <2>22. CASE WriteArtifacts
    BY <2>22 DEF WriteArtifacts
  <2>23. CASE FinishRun
    BY <2>23 DEF FinishRun
  <2> QED
    BY <1>1, <2>1, <2>2, <2>3, <2>4, <2>5, <2>6, <2>7, <2>8, <2>9, <2>10, <2>11, <2>12, <2>13, <2>14, <2>15, <2>16, <2>17, <2>18, <2>19, <2>20, <2>21, <2>22, <2>23 DEF RunLoop
<1>2. CASE Environment
  <2>1. CASE EmitFileError
    BY <2>1 DEF EmitFileError, Raise, RaiseUncaught
  <2>2. CASE EmitStoreError
    BY <2>2 DEF EmitStoreError, RaiseUncaught
  <2>3. CASE WriteError
    BY <2>3 DEF WriteError
  <2>4. CASE PrepareRaises
    BY <2>4, <1>0 DEF PrepareRaises, CleanupCalled, SeenType
  <2>5. CASE CommandEnds
    BY <2>5, <1>0 DEF CommandEnds, Spawned, SeenType
  <2>6. CASE CommandNotStarted
    BY <2>6 DEF CommandNotStarted, Return
  <2>7. CASE Cancel
    BY <2>7 DEF Cancel
  <2>8. CASE ClockPasses
    BY <2>8 DEF ClockPasses
  <2>9. CASE Interrupt
    BY <2>9, <1>0 DEF Interrupt, Spawned, SeenType
  <2>10. CASE Crash
    BY <2>10 DEF Crash
  <2> QED
    BY <1>2, <2>1, <2>2, <2>3, <2>4, <2>5, <2>6, <2>7, <2>8, <2>9, <2>10 DEF Environment
<1>3. CASE UNCHANGED vars
  BY <1>3 DEF vars
<1> QED
  BY <1>1, <1>2, <1>3 DEF Next, Finished

LEMMA SpentIsNat == TypeInv => Spent \in Nat
  BY SumsHere

LEMMA ReserveStep == TypeInv /\ ReserveInv /\ [Next]_vars => ReserveInv'
<1> SUFFICES ASSUME TypeInv, ReserveInv, [Next]_vars PROVE ReserveInv'
  OBVIOUS
<1>0. TypeInv' /\ Budget
  BY TypeStep DEF ReserveInv
<1>1. Paid
  BY <1>0, PaidStep
<1>2. \E u \in PriorUse : limits'.cleanups <= u.cleanups + Spent'
  <2>1. PICK u \in PriorUse : limits.cleanups <= u.cleanups + Spent
    BY <1>0 DEF Budget
  <2>2. /\ u.cleanups \in Nat /\ limits.cleanups \in Nat /\ Spent \in Nat
        /\ limits'.cleanups \in Nat
    BY <1>0, SumsHere, CampaignAssumption DEF TypeInv, TypeOK, LimitsType
  <2>3. (Spent \in Nat)'
    BY <1>0, SpentIsNat, PTL
  <2>4. limits'.cleanups <= u.cleanups + Spent'
    BY <1>1, <2>1, <2>2, <2>3 DEF Paid
  <2> QED
    BY <2>4
<1>3. Budget'
  BY <1>0, <1>2, ArgvStep DEF Budget
<1>4. ReserveSuffices'
  BY <1>0, StarvedStep DEF ReserveInv, ReserveSuffices
<1> QED
  BY <1>3, <1>4 DEF ReserveInv

LEMMA ReserveInit == Init => ReserveInv
<1> SUFFICES ASSUME Init PROVE ReserveInv
  OBVIOUS
<1>1. pc = "start" /\ index = 0 /\ seen.starved = {}
  BY DEF Init
<1>2. Spent = 0
  BY <1>1, CleanupTotals DEF Spent, BeforeFinally
<1>3. PICK u \in PriorUse : limits.cleanups = u.cleanups
  BY DEF Init
<1>4. u.cleanups \in Nat
  BY <1>3, CampaignAssumption
<1>5. limits.cleanups <= u.cleanups + Spent
  BY <1>2, <1>3, <1>4
<1> QED
  BY <1>1, <1>5 DEF ReserveInv, Budget, InSequence, ReserveSuffices

\* The reserve of cleanup commands is enough: whatever the earlier use of the tracker, when
\* max_processes covers it and every cleanup command of the campaign, no cleanup is refused a
\* command by the limits, whatever failed, timed out or was cancelled before.
THEOREM ReserveSufficesHolds == Spec => []ReserveSuffices
<1>1. TypeInv /\ ReserveInv => ReserveSuffices
  BY DEF ReserveInv
<1> QED
  BY <1>1, TypeInit, TypeStep, ReserveInit, ReserveStep, PTL DEF Spec

=============================================================================
