---------------------------- MODULE RunStoreProofs ----------------------------
(* Proofs about the run history as its writers share it: for every campaign,    *)
(* any number of telemetry queries and every interleaving of their statements.  *)
EXTENDS RunStore, SequenceTheorems, TLAPS

-----------------------------------------------------------------------------
(* The invariants.                                                             *)

\* Each query process has its locals, and the runs row its columns.
Shape ==
    /\ DOMAIN query = Queries
    /\ \A q \in Queries : DOMAIN query[q] = {"pc", "outcomes", "appended", "summary", "merged"}
    /\ DOMAIN run = {"status", "summary"}
    /\ actions \in Seq(PlannedSet)

\* A query has judged the run's actions, is audited, has persisted all it concluded.
Persisted == {"read_summary", "read_evaluations", "update", "artifact", "done"}
Audited   == Persisted \union {"evaluation"}
Judged    == Audited \union {"audit"}

RunnerInv ==
    /\ runner = "create" => actions = <<>> /\ ~fresh /\ run.status = "none"
    /\ runner = "actions" => run.status = "running"

\* The number of planned actions, where a summary has it, is the campaign's.
PlannedKept(summary) ==
    "planned_actions" \in DOMAIN summary => summary["planned_actions"] = Len(Planned)

QueryInv ==
    \A q \in Queries :
        /\ query[q].pc = "select" => query[q].appended = {}
        /\ query[q].pc \in Judged => actions # <<>> /\ DOMAIN query[q].outcomes # {}
        /\ query[q].pc \in Audited => q \in audits
        /\ query[q].pc \in Persisted => DOMAIN query[q].outcomes \subseteq query[q].appended
        /\ query[q].appended \subseteq DOMAIN evaluations
        /\ q \in artifacts => query[q].pc = "done"
        /\ PlannedKept(query[q].summary)

\* What a query that was not overtaken is about to count are the evaluations there are.
CurrentInv ==
    /\ \A q \in Queries : q \in current /\ query[q].pc = "update" => query[q].merged = evaluations
    /\ PlannedKept(run.summary)

AuditInv == audits \subseteq Queries /\ artifacts \subseteq Queries /\ AuditedFirst

StoreInv == Shape /\ RunnerInv /\ QueryInv /\ CurrentInv /\ AuditInv /\ CountersFresh

\* What a step may never take away (HistoryKept).
Kept ==
    /\ DOMAIN evaluations \subseteq DOMAIN evaluations'
    /\ audits \subseteq audits' /\ artifacts \subseteq artifacts'
    /\ SubSeq(actions', 1, Len(actions)) = actions
    /\ FinalStatus => run'.status = run.status

-----------------------------------------------------------------------------
(* The steps.                                                                  *)

\* A query's step changes its own locals only.
LEMMA OwnLocals ==
    ASSUME Shape, NEW q \in Queries, NEW v, Update(q, v)
    PROVE  /\ DOMAIN query' = Queries
           /\ query'[q] = v
           /\ \A p \in Queries \ {q} : query'[p] = query[p]
  BY DEF Shape, Update

LEMMA ShapeStep == Shape /\ [Next]_vars => Shape'
<1> SUFFICES ASSUME Shape, [Next]_vars PROVE Shape'
  OBVIOUS
<1> USE DEF tables
<1>a. ASSUME UNCHANGED <<query, run, actions>> PROVE Shape'
  BY <1>a DEF Shape
<1>b. ASSUME NEW q \in Queries, NEW v, Update(q, v), UNCHANGED actions, DOMAIN run' = DOMAIN run,
             DOMAIN v = DOMAIN query[q]
      PROVE  Shape'
  BY <1>b, OwnLocals DEF Shape
<1>1. CASE CreateRun
  BY <1>1 DEF CreateRun, Shape
<1>2. CASE AppendAction
  <2>1. Len(actions) + 1 \in DOMAIN Planned
    BY <1>2, StoreAssumption, LenProperties DEF AppendAction, Shape
  <2>2. Planned[Len(actions) + 1] \in PlannedSet
    BY <2>1 DEF PlannedSet
  <2>3. actions' \in Seq(PlannedSet)
    BY <1>2, <2>2 DEF AppendAction, Shape
  <2> QED
    BY <1>2, <2>3 DEF AppendAction, Shape
<1>3. CASE FinishRun
  BY <1>3 DEF FinishRun, Shape
<1>4. CASE RunnerFails
  BY <1>4, <1>a DEF RunnerFails
<1>5. ASSUME NEW q \in Queries, SelectAbilities(q) PROVE Shape'
  <2>1. UNCHANGED <<run, actions>>
    BY <1>5 DEF SelectAbilities
  <2> DEFINE usable(f) == [query[q] EXCEPT !.pc = "audit", !.outcomes = f]
             refused   == [query[q] EXCEPT !.pc = "failed"]
  <2>2. (\E f : Update(q, usable(f))) \/ Update(q, refused)
    BY <1>5 DEF SelectAbilities
  <2>3. DOMAIN refused = DOMAIN query[q] /\ \A f : DOMAIN usable(f) = DOMAIN query[q]
    OBVIOUS
  <2> HIDE DEF usable, refused
  <2> QED
    BY <2>1, <2>2, <2>3, <1>b
<1>6. ASSUME NEW q \in Queries, RecordTelemetryQuery(q) PROVE Shape'
  <2> DEFINE v == [query[q] EXCEPT !.pc = "evaluation"]
  <2>1. Update(q, v) /\ UNCHANGED actions /\ DOMAIN run' = DOMAIN run
    BY <1>6 DEF RecordTelemetryQuery
  <2>2. DOMAIN v = DOMAIN query[q]
    OBVIOUS
  <2> QED
    BY <2>1, <2>2, <1>b
<1>7. ASSUME NEW q \in Queries, AppendDetection(q) PROVE Shape'
  <2>1. UNCHANGED <<run, actions>>
    BY <1>7 DEF AppendDetection
  <2>2. PICK a \in Left(q) :
            Update(q, [query[q] EXCEPT !.appended = @ \union {a},
                                       !.pc = IF Left(q) = {a} THEN "read_summary" ELSE "evaluation"])
    BY <1>7 DEF AppendDetection
  <2> DEFINE v == [query[q] EXCEPT !.appended = @ \union {a},
                                   !.pc = IF Left(q) = {a} THEN "read_summary" ELSE "evaluation"]
  <2>3. DOMAIN v = DOMAIN query[q] /\ Update(q, v)
    BY <2>2
  <2> HIDE DEF v
  <2> QED
    BY <2>1, <2>3, <1>b
<1>8. ASSUME NEW q \in Queries, ReadSummary(q) PROVE Shape'
  <2> DEFINE v == [query[q] EXCEPT !.pc = "read_evaluations", !.summary = run.summary]
  <2>1. Update(q, v) /\ UNCHANGED actions /\ DOMAIN run' = DOMAIN run
    BY <1>8 DEF ReadSummary
  <2>2. DOMAIN v = DOMAIN query[q]
    OBVIOUS
  <2> QED
    BY <2>1, <2>2, <1>b
<1>9. ASSUME NEW q \in Queries, ReadEvaluations(q) PROVE Shape'
  <2> DEFINE v == [query[q] EXCEPT !.pc = "update", !.merged = IF DOMAIN evaluations = {} THEN query[q].outcomes ELSE evaluations]
  <2>1. Update(q, v) /\ UNCHANGED actions /\ DOMAIN run' = DOMAIN run
    BY <1>9 DEF ReadEvaluations
  <2>2. DOMAIN v = DOMAIN query[q]
    OBVIOUS
  <2> QED
    BY <2>1, <2>2, <1>b
<1>10. ASSUME NEW q \in Queries, UpdateSummary(q) PROVE Shape'
  <2> DEFINE v == [query[q] EXCEPT !.pc = "artifact"]
  <2>1. Update(q, v) /\ UNCHANGED actions /\ DOMAIN run' = DOMAIN run
    BY <1>10 DEF UpdateSummary
  <2>2. DOMAIN v = DOMAIN query[q]
    OBVIOUS
  <2> QED
    BY <2>1, <2>2, <1>b
<1>11. ASSUME NEW q \in Queries, RecordArtifact(q) PROVE Shape'
  <2> DEFINE v == [query[q] EXCEPT !.pc = "done"]
  <2>1. Update(q, v) /\ UNCHANGED actions /\ DOMAIN run' = DOMAIN run
    BY <1>11 DEF RecordArtifact
  <2>2. DOMAIN v = DOMAIN query[q]
    OBVIOUS
  <2> QED
    BY <2>1, <2>2, <1>b
<1>12. ASSUME NEW q \in Queries, PrintResult(q) PROVE Shape'
  <2> DEFINE v == [query[q] EXCEPT !.pc = "done"]
  <2>1. Update(q, v) /\ UNCHANGED actions /\ DOMAIN run' = DOMAIN run
    BY <1>12 DEF PrintResult
  <2>2. DOMAIN v = DOMAIN query[q]
    OBVIOUS
  <2> QED
    BY <2>1, <2>2, <1>b
<1>13. ASSUME NEW q \in Queries, QueryFails(q) PROVE Shape'
  <2> DEFINE v == [query[q] EXCEPT !.pc = "failed"]
  <2>1. Update(q, v) /\ UNCHANGED actions /\ DOMAIN run' = DOMAIN run
    BY <1>13 DEF QueryFails
  <2>2. DOMAIN v = DOMAIN query[q]
    OBVIOUS
  <2> QED
    BY <2>1, <2>2, <1>b
<1>14. CASE UNCHANGED vars
  BY <1>14, <1>a DEF vars
<1> QED
  BY <1>1, <1>2, <1>3, <1>4, <1>5, <1>6, <1>7, <1>8, <1>9, <1>10, <1>11, <1>12, <1>13, <1>14 DEF Next, Runner, QueryStep, Finished

\* The runner's own control, and that no query has begun before it created the run.
LEMMA RunnerStep == Shape /\ RunnerInv /\ QueryInv /\ [Next]_vars => RunnerInv'
<1> SUFFICES ASSUME Shape, RunnerInv, QueryInv, [Next]_vars PROVE RunnerInv'
  OBVIOUS
<1> USE DEF tables
<1>a. ASSUME UNCHANGED <<runner, actions, fresh, run>> PROVE RunnerInv'
  BY <1>a DEF RunnerInv
<1>1. CASE CreateRun
  BY <1>1 DEF CreateRun, RunnerInv, Overtake
<1>2. CASE AppendAction
  BY <1>2 DEF AppendAction, RunnerInv, Overtake
<1>3. CASE FinishRun
  BY <1>3 DEF FinishRun, RunnerInv, Overtake
<1>4. CASE RunnerFails
  BY <1>4 DEF RunnerFails, RunnerInv, Overtake
<1>5. ASSUME NEW q \in Queries, SelectAbilities(q) PROVE RunnerInv'
  BY <1>5, <1>a DEF SelectAbilities
<1>6. ASSUME NEW q \in Queries, RecordTelemetryQuery(q) PROVE RunnerInv'
  BY <1>6, <1>a DEF RecordTelemetryQuery
<1>7. ASSUME NEW q \in Queries, AppendDetection(q) PROVE RunnerInv'
  BY <1>7 DEF AppendDetection, RunnerInv, Overtake
<1>8. ASSUME NEW q \in Queries, ReadSummary(q) PROVE RunnerInv'
  BY <1>8, <1>a DEF ReadSummary
<1>9. ASSUME NEW q \in Queries, ReadEvaluations(q) PROVE RunnerInv'
  BY <1>9, <1>a DEF ReadEvaluations
<1>10. ASSUME NEW q \in Queries, UpdateSummary(q) PROVE RunnerInv'
  <2>1. UNCHANGED <<runner, actions>> /\ run'.status = run.status /\ query[q].pc = "update"
    BY <1>10 DEF UpdateSummary, At, Shape
  <2>2. runner # "create"
    BY <2>1 DEF QueryInv, RunnerInv, Judged, Audited, Persisted
  <2> QED
    BY <2>1, <2>2 DEF RunnerInv
<1>11. ASSUME NEW q \in Queries, RecordArtifact(q) PROVE RunnerInv'
  BY <1>11, <1>a DEF RecordArtifact
<1>12. ASSUME NEW q \in Queries, PrintResult(q) PROVE RunnerInv'
  BY <1>12, <1>a DEF PrintResult
<1>13. ASSUME NEW q \in Queries, QueryFails(q) PROVE RunnerInv'
  BY <1>13, <1>a DEF QueryFails
<1>14. CASE UNCHANGED vars
  BY <1>14, <1>a DEF vars
<1> QED
  BY <1>1, <1>2, <1>3, <1>4, <1>5, <1>6, <1>7, <1>8, <1>9, <1>10, <1>11, <1>12, <1>13, <1>14 DEF Next, Runner, QueryStep, Finished

\* What each query's control says of its locals and of the tables.
LEMMA QueryInvStep == Shape /\ RunnerInv /\ QueryInv /\ CurrentInv /\ [Next]_vars => QueryInv'
<1> SUFFICES ASSUME Shape, RunnerInv, QueryInv, CurrentInv, [Next]_vars PROVE QueryInv'
  OBVIOUS
<1> USE DEF tables
<1> DEFINE Own(q) ==
              /\ query[q].pc = "select" => query[q].appended = {}
              /\ query[q].pc \in Judged => actions # <<>> /\ DOMAIN query[q].outcomes # {}
              /\ query[q].pc \in Audited => q \in audits
              /\ query[q].pc \in Persisted => DOMAIN query[q].outcomes \subseteq query[q].appended
              /\ query[q].appended \subseteq DOMAIN evaluations
              /\ q \in artifacts => query[q].pc = "done"
              /\ PlannedKept(query[q].summary)
<1>a. \A q \in Queries : Own(q)
  BY DEF QueryInv
<1>b. ASSUME UNCHANGED <<query, audits, evaluations, artifacts>>, actions # <<>> => actions' # <<>>
      PROVE  QueryInv'
  BY <1>b DEF QueryInv
\* One query goes on: the others keep what they have, tables only grow.
<1>c. ASSUME NEW q \in Queries, NEW v, Update(q, v), actions' = actions, audits \subseteq audits',
             DOMAIN evaluations \subseteq DOMAIN evaluations', artifacts' \subseteq artifacts \union {q},
             /\ v.pc = "select" => v.appended = {}
             /\ v.pc \in Judged => actions # <<>> /\ DOMAIN v.outcomes # {}
             /\ v.pc \in Audited => q \in audits'
             /\ v.pc \in Persisted => DOMAIN v.outcomes \subseteq v.appended
             /\ v.appended \subseteq DOMAIN evaluations'
             /\ q \in artifacts' => v.pc = "done"
             /\ PlannedKept(v.summary)
      PROVE  QueryInv'
  <2>1. query'[q] = v /\ \A p \in Queries \ {q} : query'[p] = query[p]
    BY <1>c, OwnLocals
  <2>2. Own(q)'
    BY <1>c, <2>1
  <2>3. ASSUME NEW p \in Queries \ {q} PROVE Own(p)'
    BY <1>a, <1>c, <2>1, <2>3
  <2>4. \A p \in Queries : Own(p)'
    BY <2>2, <2>3
  <2> QED
    BY <2>4 DEF QueryInv
<1>1. CASE CreateRun
  BY <1>1, <1>b DEF CreateRun
<1>2. CASE AppendAction
  <2>1. actions' # <<>>
    BY <1>2 DEF AppendAction, Shape
  <2> QED
    BY <1>2, <2>1, <1>b DEF AppendAction
<1>3. CASE FinishRun
  BY <1>3, <1>b DEF FinishRun
<1>4. CASE RunnerFails
  BY <1>4, <1>b DEF RunnerFails
<1>5. ASSUME NEW q \in Queries, SelectAbilities(q) PROVE QueryInv'
  <2>1. UNCHANGED <<actions, audits, evaluations, artifacts>> /\ Own(q) /\ query[q].pc = "select"
    BY <1>5, <1>a DEF SelectAbilities, At
  <2>2. DOMAIN query[q] = {"pc", "outcomes", "appended", "summary", "merged"}
    BY DEF Shape
  <2>3. CASE Update(q, [query[q] EXCEPT !.pc = "failed"])
    <3> DEFINE v == [query[q] EXCEPT !.pc = "failed"]
    <3>1. v.pc = "failed" /\ v.appended = query[q].appended /\ v.summary = query[q].summary
      BY <2>2
    <3>2. Update(q, v)
      BY <2>3
    <3> HIDE DEF v
    <3> QED
      BY <1>c, <2>1, <3>1, <3>2 DEF Judged, Audited, Persisted
  <2>4. CASE ~Update(q, [query[q] EXCEPT !.pc = "failed"])
    <3> DEFINE ran == {actions[i] : i \in DOMAIN actions}
               selected == Selected[q] \union ran
               v == [query[q] EXCEPT !.pc = "audit", !.outcomes = [a \in selected |-> Verdict[q][a]]]
    <3>1. ran # {} /\ Update(q, v)
      BY <1>5, <2>4 DEF SelectAbilities
    <3>2. actions # <<>> /\ selected # {}
      BY <3>1
    <3>3. /\ v.pc = "audit" /\ v.appended = query[q].appended /\ v.summary = query[q].summary
          /\ DOMAIN v.outcomes = selected
      BY <2>2
    <3> HIDE DEF v, selected
    <3> QED
      BY <1>c, <2>1, <3>1, <3>2, <3>3 DEF Judged, Audited, Persisted
  <2> QED
    BY <2>3, <2>4
<1>6. ASSUME NEW q \in Queries, RecordTelemetryQuery(q) PROVE QueryInv'
  <2> DEFINE v == [query[q] EXCEPT !.pc = "evaluation"]
  <2>1. Update(q, v) /\ actions' = actions /\ Own(q)
    BY <1>6, <1>a DEF RecordTelemetryQuery
  <2>2. DOMAIN query[q] = {"pc", "outcomes", "appended", "summary", "merged"}
    BY DEF Shape
  <2>3. /\ v.outcomes = query[q].outcomes /\ v.appended = query[q].appended
        /\ v.pc = "evaluation"
        /\ v.summary = query[q].summary
    BY <2>2
  <2> HIDE DEF v
  <2> QED
    BY <1>6, <1>c, <2>1, <2>3 DEF RecordTelemetryQuery, At, Judged, Audited, Persisted
<1>7. ASSUME NEW q \in Queries, AppendDetection(q) PROVE QueryInv'
  <2>1. PICK a \in Left(q) :
            /\ evaluations' = [b \in DOMAIN evaluations \union {a} |->
                                  IF b = a THEN query[q].outcomes[a] ELSE evaluations[b]]
            /\ Update(q, [query[q] EXCEPT !.appended = @ \union {a},
                             !.pc = IF Left(q) = {a} THEN "read_summary" ELSE "evaluation"])
    BY <1>7 DEF AppendDetection
  <2> DEFINE v == [query[q] EXCEPT !.appended = @ \union {a},
                             !.pc = IF Left(q) = {a} THEN "read_summary" ELSE "evaluation"]
  <2>2. DOMAIN query[q] = {"pc", "outcomes", "appended", "summary", "merged"}
    BY DEF Shape
  <2>3. /\ v.outcomes = query[q].outcomes /\ v.appended = query[q].appended \union {a}
        /\ v.pc = (IF Left(q) = {a} THEN "read_summary" ELSE "evaluation")
        /\ v.summary = query[q].summary /\ v.merged = query[q].merged
    BY <2>2
  <2>4. Update(q, v)
    BY <2>1
  <2>5. DOMAIN evaluations' = DOMAIN evaluations \union {a}
    BY <2>1
  <2> HIDE DEF v
  <2>6. UNCHANGED <<actions, audits, artifacts>> /\ query[q].pc = "evaluation" /\ Own(q)
    BY <1>7, <1>a DEF AppendDetection, At
  <2>7. v.pc \in Persisted => DOMAIN v.outcomes \subseteq v.appended
    BY <2>3 DEF Left, Persisted
  <2> QED
    BY <1>c, <2>3, <2>4, <2>5, <2>6, <2>7 DEF Judged, Audited, Persisted
<1>8. ASSUME NEW q \in Queries, ReadSummary(q) PROVE QueryInv'
  <2> DEFINE v == [query[q] EXCEPT !.pc = "read_evaluations", !.summary = run.summary]
  <2>1. Update(q, v) /\ actions' = actions /\ Own(q)
    BY <1>8, <1>a DEF ReadSummary
  <2>2. DOMAIN query[q] = {"pc", "outcomes", "appended", "summary", "merged"}
    BY DEF Shape
  <2>3. /\ v.outcomes = query[q].outcomes /\ v.appended = query[q].appended
        /\ v.pc = "read_evaluations"
        /\ v.summary = run.summary
    BY <2>2
  <2> HIDE DEF v
  <2> QED
    BY <1>8, <1>c, <2>1, <2>3 DEF ReadSummary, At, Judged, Audited, Persisted, CurrentInv
<1>9. ASSUME NEW q \in Queries, ReadEvaluations(q) PROVE QueryInv'
  <2> DEFINE v == [query[q] EXCEPT !.pc = "update", !.merged = IF DOMAIN evaluations = {} THEN query[q].outcomes ELSE evaluations]
  <2>1. Update(q, v) /\ actions' = actions /\ Own(q)
    BY <1>9, <1>a DEF ReadEvaluations
  <2>2. DOMAIN query[q] = {"pc", "outcomes", "appended", "summary", "merged"}
    BY DEF Shape
  <2>3. /\ v.outcomes = query[q].outcomes /\ v.appended = query[q].appended
        /\ v.pc = "update"
        /\ v.summary = query[q].summary
    BY <2>2
  <2> HIDE DEF v
  <2> QED
    BY <1>9, <1>c, <2>1, <2>3 DEF ReadEvaluations, At, Judged, Audited, Persisted
<1>10. ASSUME NEW q \in Queries, UpdateSummary(q) PROVE QueryInv'
  <2> DEFINE v == [query[q] EXCEPT !.pc = "artifact"]
  <2>1. Update(q, v) /\ actions' = actions /\ Own(q)
    BY <1>10, <1>a DEF UpdateSummary
  <2>2. DOMAIN query[q] = {"pc", "outcomes", "appended", "summary", "merged"}
    BY DEF Shape
  <2>3. /\ v.outcomes = query[q].outcomes /\ v.appended = query[q].appended
        /\ v.pc = "artifact"
        /\ v.summary = query[q].summary
    BY <2>2
  <2> HIDE DEF v
  <2> QED
    BY <1>10, <1>c, <2>1, <2>3 DEF UpdateSummary, At, Judged, Audited, Persisted
<1>11. ASSUME NEW q \in Queries, RecordArtifact(q) PROVE QueryInv'
  <2> DEFINE v == [query[q] EXCEPT !.pc = "done"]
  <2>1. Update(q, v) /\ actions' = actions /\ Own(q)
    BY <1>11, <1>a DEF RecordArtifact
  <2>2. DOMAIN query[q] = {"pc", "outcomes", "appended", "summary", "merged"}
    BY DEF Shape
  <2>3. /\ v.outcomes = query[q].outcomes /\ v.appended = query[q].appended
        /\ v.pc = "done"
        /\ v.summary = query[q].summary
    BY <2>2
  <2> HIDE DEF v
  <2> QED
    BY <1>11, <1>c, <2>1, <2>3 DEF RecordArtifact, At, Judged, Audited, Persisted
<1>12. ASSUME NEW q \in Queries, PrintResult(q) PROVE QueryInv'
  <2> DEFINE v == [query[q] EXCEPT !.pc = "done"]
  <2>1. Update(q, v) /\ actions' = actions /\ Own(q)
    BY <1>12, <1>a DEF PrintResult
  <2>2. DOMAIN query[q] = {"pc", "outcomes", "appended", "summary", "merged"}
    BY DEF Shape
  <2>3. /\ v.outcomes = query[q].outcomes /\ v.appended = query[q].appended
        /\ v.pc = "done"
        /\ v.summary = query[q].summary
    BY <2>2
  <2> HIDE DEF v
  <2> QED
    BY <1>12, <1>c, <2>1, <2>3 DEF PrintResult, At, Judged, Audited, Persisted
<1>13. ASSUME NEW q \in Queries, QueryFails(q) PROVE QueryInv'
  <2> DEFINE v == [query[q] EXCEPT !.pc = "failed"]
  <2>1. Update(q, v) /\ actions' = actions /\ Own(q)
    BY <1>13, <1>a DEF QueryFails
  <2>2. DOMAIN query[q] = {"pc", "outcomes", "appended", "summary", "merged"}
    BY DEF Shape
  <2>3. /\ v.outcomes = query[q].outcomes /\ v.appended = query[q].appended
        /\ v.pc = "failed"
        /\ v.summary = query[q].summary
    BY <2>2
  <2> HIDE DEF v
  <2> QED
    BY <1>13, <1>c, <2>1, <2>3 DEF QueryFails, At, Judged, Audited, Persisted
<1>14. CASE UNCHANGED vars
  BY <1>14, <1>b DEF vars
<1> QED
  BY <1>1, <1>2, <1>3, <1>4, <1>5, <1>6, <1>7, <1>8, <1>9, <1>10, <1>11, <1>12, <1>13, <1>14 DEF Next, Runner, QueryStep, Finished

\* A query that was not overtaken counts the evaluations there are, for the campaign's own
\* number of planned actions.
LEMMA CurrentStep == Shape /\ QueryInv /\ CurrentInv /\ [Next]_vars => CurrentInv'
<1> SUFFICES ASSUME Shape, QueryInv, CurrentInv, [Next]_vars PROVE CurrentInv'
  OBVIOUS
<1> USE DEF tables
<1>a. ASSUME UNCHANGED <<query, run, evaluations>>, current' \subseteq current PROVE CurrentInv'
  BY <1>a DEF CurrentInv
<1>b. ASSUME NEW q \in Queries, NEW v, Update(q, v), UNCHANGED evaluations, PlannedKept(run'.summary),
             current' \subseteq current \union {q},
             q \in current' /\ v.pc = "update" => v.merged = evaluations
      PROVE  CurrentInv'
  <2>1. query'[q] = v /\ \A p \in Queries \ {q} : query'[p] = query[p]
    BY <1>b, OwnLocals
  <2>2. ASSUME NEW p \in Queries, p \in current', query'[p].pc = "update"
        PROVE  query'[p].merged = evaluations'
    <3>1. CASE p = q
      BY <1>b, <2>1, <2>2, <3>1
    <3>2. CASE p # q
      BY <1>b, <2>1, <2>2, <3>2 DEF CurrentInv
    <3> QED
      BY <3>1, <3>2
  <2> QED
    BY <1>b, <2>2 DEF CurrentInv
<1>1. CASE CreateRun
  <2>1. UNCHANGED <<query, evaluations, current>> /\ run'.summary = NoSummary
    BY <1>1 DEF CreateRun
  <2>2. PlannedKept(NoSummary)
    BY DEF PlannedKept, NoSummary
  <2> QED
    BY <2>1, <2>2 DEF CurrentInv
<1>2. CASE AppendAction
  BY <1>2, <1>a DEF AppendAction
<1>3. CASE FinishRun
  <2>1. PICK summary \in RunSummaries : run'.summary = summary
    BY <1>3 DEF FinishRun
  <2>2. current' = {}
    BY <1>3 DEF FinishRun, Overtake
  <2>3. PlannedKept(summary)
    BY <2>1 DEF PlannedKept, RunSummaries
  <2> QED
    BY <2>1, <2>2, <2>3 DEF CurrentInv
<1>4. CASE RunnerFails
  BY <1>4, <1>a DEF RunnerFails
<1>5. ASSUME NEW q \in Queries, SelectAbilities(q) PROVE CurrentInv'
  <2>1. UNCHANGED <<run, evaluations, current>>
    BY <1>5 DEF SelectAbilities
  <2> DEFINE usable(f) == [query[q] EXCEPT !.pc = "audit", !.outcomes = f]
             refused   == [query[q] EXCEPT !.pc = "failed"]
  <2>2. (\E f : Update(q, usable(f))) \/ Update(q, refused)
    BY <1>5 DEF SelectAbilities
  <2>3. refused.pc # "update" /\ \A f : usable(f).pc # "update"
    BY DEF Shape
  <2> HIDE DEF usable, refused
  <2> QED
    BY <2>1, <2>2, <2>3, <1>b DEF CurrentInv
<1>6. ASSUME NEW q \in Queries, RecordTelemetryQuery(q) PROVE CurrentInv'
  <2> DEFINE v == [query[q] EXCEPT !.pc = "evaluation"]
  <2>1. Update(q, v) /\ UNCHANGED <<run, evaluations>> /\ current' = current
    BY <1>6 DEF RecordTelemetryQuery
  <2>2. v.pc # "update"
    BY DEF Shape
  <2> HIDE DEF v
  <2> QED
    BY <1>b, <2>1, <2>2 DEF CurrentInv
<1>7. ASSUME NEW q \in Queries, AppendDetection(q) PROVE CurrentInv'
  <2>1. current' = {} /\ UNCHANGED run
    BY <1>7 DEF AppendDetection, Overtake
  <2> QED
    BY <2>1 DEF CurrentInv
<1>8. ASSUME NEW q \in Queries, ReadSummary(q) PROVE CurrentInv'
  <2> DEFINE v == [query[q] EXCEPT !.pc = "read_evaluations", !.summary = run.summary]
  <2>1. Update(q, v) /\ UNCHANGED <<run, evaluations>> /\ current' = current \union {q}
    BY <1>8 DEF ReadSummary
  <2>2. v.pc # "update"
    BY DEF Shape
  <2> HIDE DEF v
  <2> QED
    BY <1>b, <2>1, <2>2 DEF CurrentInv
<1>9. ASSUME NEW q \in Queries, ReadEvaluations(q) PROVE CurrentInv'
  <2> DEFINE v == [query[q] EXCEPT !.pc = "update", !.merged = IF DOMAIN evaluations = {} THEN query[q].outcomes ELSE evaluations]
  <2>1. /\ Update(q, v) /\ UNCHANGED <<run, evaluations, current>>
        /\ query[q].pc = "read_evaluations"
    BY <1>9 DEF ReadEvaluations, At
  <2>2. DOMAIN query[q] = {"pc", "outcomes", "appended", "summary", "merged"}
    BY DEF Shape
  <2>3. v.merged = IF DOMAIN evaluations = {} THEN query[q].outcomes ELSE evaluations
    BY <2>2
  <2>4. DOMAIN query[q].outcomes # {} /\ DOMAIN query[q].outcomes \subseteq DOMAIN evaluations
    BY <2>1 DEF QueryInv, Judged, Audited, Persisted
  <2> HIDE DEF v
  <2> QED
    BY <1>b, <2>1, <2>3, <2>4 DEF CurrentInv
<1>10. ASSUME NEW q \in Queries, UpdateSummary(q) PROVE CurrentInv'
  <2> DEFINE v == [query[q] EXCEPT !.pc = "artifact"]
  <2>1. Update(q, v) /\ UNCHANGED <<evaluations, current>> /\ run'.summary = NewSummary(q)
    BY <1>10 DEF UpdateSummary, Shape
  <2>2. v.pc = "artifact"
    BY DEF Shape
  <2>3. PlannedKept(query[q].summary)
    BY DEF QueryInv
  <2>4. PlannedKept(NewSummary(q))
    BY <2>3 DEF PlannedKept, NewSummary, CounterKeys
  <2> HIDE DEF v
  <2> QED
    BY <1>b, <2>1, <2>2, <2>4
<1>11. ASSUME NEW q \in Queries, RecordArtifact(q) PROVE CurrentInv'
  <2> DEFINE v == [query[q] EXCEPT !.pc = "done"]
  <2>1. Update(q, v) /\ UNCHANGED <<run, evaluations>> /\ current' = current
    BY <1>11 DEF RecordArtifact
  <2>2. v.pc # "update"
    BY DEF Shape
  <2> HIDE DEF v
  <2> QED
    BY <1>b, <2>1, <2>2 DEF CurrentInv
<1>12. ASSUME NEW q \in Queries, PrintResult(q) PROVE CurrentInv'
  <2> DEFINE v == [query[q] EXCEPT !.pc = "done"]
  <2>1. Update(q, v) /\ UNCHANGED <<run, evaluations>> /\ current' = current
    BY <1>12 DEF PrintResult
  <2>2. v.pc # "update"
    BY DEF Shape
  <2> HIDE DEF v
  <2> QED
    BY <1>b, <2>1, <2>2 DEF CurrentInv
<1>13. ASSUME NEW q \in Queries, QueryFails(q) PROVE CurrentInv'
  <2> DEFINE v == [query[q] EXCEPT !.pc = "failed"]
  <2>1. Update(q, v) /\ UNCHANGED <<run, evaluations>> /\ current' = current
    BY <1>13 DEF QueryFails
  <2>2. v.pc # "update"
    BY DEF Shape
  <2> HIDE DEF v
  <2> QED
    BY <1>b, <2>1, <2>2 DEF CurrentInv
<1>14. CASE UNCHANGED vars
  BY <1>14, <1>a DEF vars
<1> QED
  BY <1>1, <1>2, <1>3, <1>4, <1>5, <1>6, <1>7, <1>8, <1>9, <1>10, <1>11, <1>12, <1>13, <1>14 DEF Next, Runner, QueryStep, Finished

\* The UPDATE of a query that was not overtaken stores the counters of the evaluations.
LEMMA FreshStep ==
    Shape /\ RunnerInv /\ QueryInv /\ CurrentInv /\ CountersFresh /\ [Next]_vars => CountersFresh'
<1> SUFFICES ASSUME Shape, RunnerInv, QueryInv, CurrentInv, CountersFresh, [Next]_vars
             PROVE  CountersFresh'
  OBVIOUS
<1> USE DEF tables
<1>a. ASSUME UNCHANGED <<run, evaluations, fresh>> PROVE CountersFresh'
  BY <1>a DEF CountersFresh
<1>b. ASSUME ~fresh' PROVE CountersFresh'
  BY <1>b DEF CountersFresh
<1>1. CASE CreateRun
  BY <1>1, <1>b DEF CreateRun, RunnerInv
<1>2. CASE AppendAction
  BY <1>2, <1>a DEF AppendAction
<1>3. CASE FinishRun
  BY <1>3, <1>b DEF FinishRun, Overtake
<1>4. CASE RunnerFails
  BY <1>4, <1>a DEF RunnerFails
<1>5. ASSUME NEW q \in Queries, SelectAbilities(q) PROVE CountersFresh'
  BY <1>5, <1>a DEF SelectAbilities
<1>6. ASSUME NEW q \in Queries, RecordTelemetryQuery(q) PROVE CountersFresh'
  BY <1>6, <1>a DEF RecordTelemetryQuery
<1>7. ASSUME NEW q \in Queries, AppendDetection(q) PROVE CountersFresh'
  BY <1>7, <1>b DEF AppendDetection, Overtake
<1>8. ASSUME NEW q \in Queries, ReadSummary(q) PROVE CountersFresh'
  BY <1>8, <1>a DEF ReadSummary
<1>9. ASSUME NEW q \in Queries, ReadEvaluations(q) PROVE CountersFresh'
  BY <1>9, <1>a DEF ReadEvaluations
<1>10. ASSUME NEW q \in Queries, UpdateSummary(q) PROVE CountersFresh'
  <2>1. /\ UNCHANGED evaluations /\ run'.summary = NewSummary(q) /\ fresh' = (q \in current)
        /\ query[q].pc = "update"
    BY <1>10 DEF UpdateSummary, Shape, At
  <2> SUFFICES ASSUME q \in current PROVE CountersFresh'
    BY <2>1, <1>b
  <2>2. query[q].merged = evaluations
    BY <2>1 DEF CurrentInv
  <2> DEFINE s == NewSummary(q)
             counters == Counters(evaluations, PlannedActions(q))
  <2>3. /\ \A k \in CounterKeys : s[k] = counters[k]
        /\ "planned_actions" \in DOMAIN s => "planned_actions" \in DOMAIN query[q].summary
    BY <2>2 DEF NewSummary, CounterKeys
  <2>4. /\ s["detections"] = Count(evaluations, "detected")
        /\ s["misses"] = Count(evaluations, "missed")
        /\ s["visibility_gaps"] = Count(evaluations, "visibility_gap")
        /\ s["pending_detection_results"]
              = Beyond(PlannedActions(q), Cardinality(DOMAIN evaluations))
    BY <2>3 DEF Counters, CounterKeys
  <2>5. "planned_actions" \in DOMAIN s => PlannedActions(q) = Len(Planned)
    BY <2>3 DEF PlannedActions, QueryInv, PlannedKept
  <2> HIDE DEF s
  <2> QED
    BY <2>1, <2>4, <2>5 DEF CountersFresh, s
<1>11. ASSUME NEW q \in Queries, RecordArtifact(q) PROVE CountersFresh'
  BY <1>11, <1>a DEF RecordArtifact
<1>12. ASSUME NEW q \in Queries, PrintResult(q) PROVE CountersFresh'
  BY <1>12, <1>a DEF PrintResult
<1>13. ASSUME NEW q \in Queries, QueryFails(q) PROVE CountersFresh'
  BY <1>13, <1>a DEF QueryFails
<1>14. CASE UNCHANGED vars
  BY <1>14, <1>a DEF vars
<1> QED
  BY <1>1, <1>2, <1>3, <1>4, <1>5, <1>6, <1>7, <1>8, <1>9, <1>10, <1>11, <1>12, <1>13, <1>14 DEF Next, Runner, QueryStep, Finished

\* Nothing a query concludes precedes its audit row.
LEMMA AuditStep == Shape /\ QueryInv /\ AuditInv /\ [Next]_vars => AuditInv'
<1> SUFFICES ASSUME Shape, QueryInv, AuditInv, [Next]_vars PROVE AuditInv'
  OBVIOUS
<1> USE DEF tables
<1>a. ASSUME UNCHANGED <<query, evaluations, audits, artifacts>>,
             "visibility_gaps" \in DOMAIN run'.summary => audits # {}
      PROVE  AuditInv'
  BY <1>a DEF AuditInv, AuditedFirst
\* A query changes its locals, but not what it has appended, nor what it concluded of that.
<1>b. ASSUME NEW q \in Queries, NEW v, Update(q, v), UNCHANGED evaluations,
             audits \subseteq audits', audits' \subseteq audits \union {q},
             \A a \in query[q].appended : a \in v.appended /\ v.outcomes[a] = query[q].outcomes[a],
             "visibility_gaps" \in DOMAIN run'.summary => audits' # {},
             artifacts' \subseteq artifacts \union {q},
             q \in artifacts' => q \in audits' /\ DOMAIN v.outcomes \subseteq DOMAIN evaluations
      PROVE  AuditInv'
  <2>1. query'[q] = v /\ \A p \in Queries \ {q} : query'[p] = query[p]
    BY <1>b, OwnLocals
  <2>2. ASSUME NEW a \in DOMAIN evaluations'
        PROVE  \E p \in audits' : a \in query'[p].appended /\ evaluations'[a] = query'[p].outcomes[a]
    <3>1. PICK p \in audits : a \in query[p].appended /\ evaluations[a] = query[p].outcomes[a]
      BY <1>b, <2>2 DEF AuditInv, AuditedFirst
    <3>2. a \in query'[p].appended /\ query'[p].outcomes[a] = query[p].outcomes[a]
      BY <1>b, <2>1, <3>1 DEF AuditInv
    <3> QED
      BY <1>b, <3>1, <3>2
  <2>3. ASSUME NEW p \in artifacts'
        PROVE  p \in audits' /\ DOMAIN query'[p].outcomes \subseteq DOMAIN evaluations'
    <3>1. CASE p = q
      BY <1>b, <2>1, <2>3, <3>1
    <3>2. CASE p # q
      BY <1>b, <2>1, <2>3, <3>2 DEF AuditInv, AuditedFirst
    <3> QED
      BY <3>1, <3>2
  <2>4. audits' \subseteq Queries /\ artifacts' \subseteq Queries
    BY <1>b DEF AuditInv
  <2> QED
    BY <1>b, <2>2, <2>3, <2>4 DEF AuditInv, AuditedFirst
<1>1. CASE CreateRun
  <2>1. UNCHANGED <<query, evaluations, audits, artifacts>> /\ run'.summary = NoSummary
    BY <1>1 DEF CreateRun
  <2>2. DOMAIN NoSummary = {}
    BY DEF NoSummary
  <2> QED
    BY <2>1, <2>2, <1>a
<1>2. CASE AppendAction
  BY <1>2, <1>a DEF AppendAction, AuditInv, AuditedFirst
<1>3. CASE FinishRun
  <2>1. PICK summary \in RunSummaries : run'.summary = summary
    BY <1>3 DEF FinishRun
  <2>2. "visibility_gaps" \notin DOMAIN summary
    BY <2>1 DEF RunSummaries, RunnerCounters, CampaignKeys
  <2>3. UNCHANGED <<query, evaluations, audits, artifacts>>
    BY <1>3 DEF FinishRun
  <2> QED
    BY <2>1, <2>2, <2>3, <1>a
<1>4. CASE RunnerFails
  BY <1>4, <1>a DEF RunnerFails, AuditInv, AuditedFirst
<1>5. ASSUME NEW q \in Queries, SelectAbilities(q) PROVE AuditInv'
  <2>1. UNCHANGED <<run, evaluations, audits, artifacts>> /\ query[q].pc = "select"
    BY <1>5 DEF SelectAbilities, At
  <2>2. query[q].appended = {} /\ q \notin artifacts
    BY <2>1 DEF QueryInv
  <2>3. "visibility_gaps" \in DOMAIN run.summary => audits # {}
    BY DEF AuditInv, AuditedFirst
  <2>4. PICK v : Update(q, v)
    BY <1>5 DEF SelectAbilities
  <2> QED
    BY <1>b, <2>1, <2>2, <2>3, <2>4
<1>6. ASSUME NEW q \in Queries, RecordTelemetryQuery(q) PROVE AuditInv'
  <2> DEFINE v == [query[q] EXCEPT !.pc = "evaluation"]
  <2>1. Update(q, v)
    BY <1>6 DEF RecordTelemetryQuery
  <2>2. DOMAIN query[q] = {"pc", "outcomes", "appended", "summary", "merged"}
    BY DEF Shape
  <2>3. v.outcomes = query[q].outcomes /\ v.appended = query[q].appended
    BY <2>2
  <2>4. q \in artifacts => q \in audits /\ DOMAIN query[q].outcomes \subseteq DOMAIN evaluations
    BY DEF AuditInv, AuditedFirst
  <2>5. "visibility_gaps" \in DOMAIN run.summary => audits # {}
    BY DEF AuditInv, AuditedFirst
  <2>6. query[q].pc \in Audited => q \in audits
    BY DEF QueryInv
  <2>7. query[q].pc \in Persisted => DOMAIN query[q].outcomes \subseteq DOMAIN evaluations
    BY DEF QueryInv
  <2> HIDE DEF v
  <2> QED
    BY <1>6, <1>b, <2>1, <2>3, <2>4, <2>5, <2>6, <2>7 DEF RecordTelemetryQuery, At, Audited, Persisted
<1>7. ASSUME NEW q \in Queries, AppendDetection(q) PROVE AuditInv'
  <2>1. PICK a \in Left(q) :
            /\ evaluations' = [b \in DOMAIN evaluations \union {a} |->
                                  IF b = a THEN query[q].outcomes[a] ELSE evaluations[b]]
            /\ Update(q, [query[q] EXCEPT !.appended = @ \union {a},
                             !.pc = IF Left(q) = {a} THEN "read_summary" ELSE "evaluation"])
    BY <1>7 DEF AppendDetection
  <2> DEFINE v == [query[q] EXCEPT !.appended = @ \union {a},
                             !.pc = IF Left(q) = {a} THEN "read_summary" ELSE "evaluation"]
  <2>2. DOMAIN query[q] = {"pc", "outcomes", "appended", "summary", "merged"}
    BY DEF Shape
  <2>3. /\ v.outcomes = query[q].outcomes /\ v.appended = query[q].appended \union {a}
        /\ v.pc = (IF Left(q) = {a} THEN "read_summary" ELSE "evaluation")
        /\ v.summary = query[q].summary /\ v.merged = query[q].merged
    BY <2>2
  <2>4. Update(q, v)
    BY <2>1
  <2>5. DOMAIN evaluations' = DOMAIN evaluations \union {a}
    BY <2>1
  <2> HIDE DEF v
  <2>6. UNCHANGED <<run, audits, artifacts>> /\ query[q].pc = "evaluation"
    BY <1>7 DEF AppendDetection, At
  <2>7. q \in audits /\ q \notin artifacts
    BY <2>6 DEF QueryInv, Audited
  <2>8. query'[q] = v /\ \A p \in Queries \ {q} : query'[p] = query[p]
    BY <2>4, OwnLocals
  <2>9. ASSUME NEW b \in DOMAIN evaluations'
        PROVE  \E p \in audits' : b \in query'[p].appended /\ evaluations'[b] = query'[p].outcomes[b]
    <3>1. CASE b = a
      <4>1. b \in query'[q].appended /\ evaluations'[b] = query'[q].outcomes[b]
        BY <2>1, <2>3, <2>8, <3>1
      <4> QED
        BY <2>6, <2>7, <4>1
    <3>2. CASE b # a
      <4>1. b \in DOMAIN evaluations /\ evaluations'[b] = evaluations[b]
        BY <2>1, <2>9, <3>2
      <4>2. PICK p \in audits : b \in query[p].appended /\ evaluations[b] = query[p].outcomes[b]
        BY <4>1 DEF AuditInv, AuditedFirst
      <4>3. b \in query'[p].appended /\ query'[p].outcomes[b] = query[p].outcomes[b]
        BY <2>3, <2>8, <4>2 DEF AuditInv
      <4> QED
        BY <2>6, <4>1, <4>2, <4>3
    <3> QED
      BY <3>1, <3>2
  <2>10. ASSUME NEW p \in artifacts'
         PROVE  p \in audits' /\ DOMAIN query'[p].outcomes \subseteq DOMAIN evaluations'
    BY <2>5, <2>6, <2>7, <2>8, <2>10 DEF AuditInv, AuditedFirst
  <2> QED
    BY <2>6, <2>9, <2>10 DEF AuditInv, AuditedFirst
<1>8. ASSUME NEW q \in Queries, ReadSummary(q) PROVE AuditInv'
  <2> DEFINE v == [query[q] EXCEPT !.pc = "read_evaluations", !.summary = run.summary]
  <2>1. Update(q, v)
    BY <1>8 DEF ReadSummary
  <2>2. DOMAIN query[q] = {"pc", "outcomes", "appended", "summary", "merged"}
    BY DEF Shape
  <2>3. v.outcomes = query[q].outcomes /\ v.appended = query[q].appended
    BY <2>2
  <2>4. q \in artifacts => q \in audits /\ DOMAIN query[q].outcomes \subseteq DOMAIN evaluations
    BY DEF AuditInv, AuditedFirst
  <2>5. "visibility_gaps" \in DOMAIN run.summary => audits # {}
    BY DEF AuditInv, AuditedFirst
  <2>6. query[q].pc \in Audited => q \in audits
    BY DEF QueryInv
  <2>7. query[q].pc \in Persisted => DOMAIN query[q].outcomes \subseteq DOMAIN evaluations
    BY DEF QueryInv
  <2> HIDE DEF v
  <2> QED
    BY <1>8, <1>b, <2>1, <2>3, <2>4, <2>5, <2>6, <2>7 DEF ReadSummary, At, Audited, Persisted
<1>9. ASSUME NEW q \in Queries, ReadEvaluations(q) PROVE AuditInv'
  <2> DEFINE v == [query[q] EXCEPT !.pc = "update", !.merged = IF DOMAIN evaluations = {} THEN query[q].outcomes ELSE evaluations]
  <2>1. Update(q, v)
    BY <1>9 DEF ReadEvaluations
  <2>2. DOMAIN query[q] = {"pc", "outcomes", "appended", "summary", "merged"}
    BY DEF Shape
  <2>3. v.outcomes = query[q].outcomes /\ v.appended = query[q].appended
    BY <2>2
  <2>4. q \in artifacts => q \in audits /\ DOMAIN query[q].outcomes \subseteq DOMAIN evaluations
    BY DEF AuditInv, AuditedFirst
  <2>5. "visibility_gaps" \in DOMAIN run.summary => audits # {}
    BY DEF AuditInv, AuditedFirst
  <2>6. query[q].pc \in Audited => q \in audits
    BY DEF QueryInv
  <2>7. query[q].pc \in Persisted => DOMAIN query[q].outcomes \subseteq DOMAIN evaluations
    BY DEF QueryInv
  <2> HIDE DEF v
  <2> QED
    BY <1>9, <1>b, <2>1, <2>3, <2>4, <2>5, <2>6, <2>7 DEF ReadEvaluations, At, Audited, Persisted
<1>10. ASSUME NEW q \in Queries, UpdateSummary(q) PROVE AuditInv'
  <2> DEFINE v == [query[q] EXCEPT !.pc = "artifact"]
  <2>1. Update(q, v)
    BY <1>10 DEF UpdateSummary
  <2>2. DOMAIN query[q] = {"pc", "outcomes", "appended", "summary", "merged"}
    BY DEF Shape
  <2>3. v.outcomes = query[q].outcomes /\ v.appended = query[q].appended
    BY <2>2
  <2>4. q \in artifacts => q \in audits /\ DOMAIN query[q].outcomes \subseteq DOMAIN evaluations
    BY DEF AuditInv, AuditedFirst
  <2>5. "visibility_gaps" \in DOMAIN run.summary => audits # {}
    BY DEF AuditInv, AuditedFirst
  <2>6. query[q].pc \in Audited => q \in audits
    BY DEF QueryInv
  <2>7. query[q].pc \in Persisted => DOMAIN query[q].outcomes \subseteq DOMAIN evaluations
    BY DEF QueryInv
  <2> HIDE DEF v
  <2> QED
    BY <1>10, <1>b, <2>1, <2>3, <2>4, <2>5, <2>6, <2>7 DEF UpdateSummary, At, Audited, Persisted
<1>11. ASSUME NEW q \in Queries, RecordArtifact(q) PROVE AuditInv'
  <2> DEFINE v == [query[q] EXCEPT !.pc = "done"]
  <2>1. Update(q, v)
    BY <1>11 DEF RecordArtifact
  <2>2. DOMAIN query[q] = {"pc", "outcomes", "appended", "summary", "merged"}
    BY DEF Shape
  <2>3. v.outcomes = query[q].outcomes /\ v.appended = query[q].appended
    BY <2>2
  <2>4. q \in artifacts => q \in audits /\ DOMAIN query[q].outcomes \subseteq DOMAIN evaluations
    BY DEF AuditInv, AuditedFirst
  <2>5. "visibility_gaps" \in DOMAIN run.summary => audits # {}
    BY DEF AuditInv, AuditedFirst
  <2>6. query[q].pc \in Audited => q \in audits
    BY DEF QueryInv
  <2>7. query[q].pc \in Persisted => DOMAIN query[q].outcomes \subseteq DOMAIN evaluations
    BY DEF QueryInv
  <2> HIDE DEF v
  <2> QED
    BY <1>11, <1>b, <2>1, <2>3, <2>4, <2>5, <2>6, <2>7 DEF RecordArtifact, At, Audited, Persisted
<1>12. ASSUME NEW q \in Queries, PrintResult(q) PROVE AuditInv'
  <2> DEFINE v == [query[q] EXCEPT !.pc = "done"]
  <2>1. Update(q, v)
    BY <1>12 DEF PrintResult
  <2>2. DOMAIN query[q] = {"pc", "outcomes", "appended", "summary", "merged"}
    BY DEF Shape
  <2>3. v.outcomes = query[q].outcomes /\ v.appended = query[q].appended
    BY <2>2
  <2>4. q \in artifacts => q \in audits /\ DOMAIN query[q].outcomes \subseteq DOMAIN evaluations
    BY DEF AuditInv, AuditedFirst
  <2>5. "visibility_gaps" \in DOMAIN run.summary => audits # {}
    BY DEF AuditInv, AuditedFirst
  <2>6. query[q].pc \in Audited => q \in audits
    BY DEF QueryInv
  <2>7. query[q].pc \in Persisted => DOMAIN query[q].outcomes \subseteq DOMAIN evaluations
    BY DEF QueryInv
  <2> HIDE DEF v
  <2> QED
    BY <1>12, <1>b, <2>1, <2>3, <2>4, <2>5, <2>6, <2>7 DEF PrintResult, At, Audited, Persisted
<1>13. ASSUME NEW q \in Queries, QueryFails(q) PROVE AuditInv'
  <2> DEFINE v == [query[q] EXCEPT !.pc = "failed"]
  <2>1. Update(q, v)
    BY <1>13 DEF QueryFails
  <2>2. DOMAIN query[q] = {"pc", "outcomes", "appended", "summary", "merged"}
    BY DEF Shape
  <2>3. v.outcomes = query[q].outcomes /\ v.appended = query[q].appended
    BY <2>2
  <2>4. q \in artifacts => q \in audits /\ DOMAIN query[q].outcomes \subseteq DOMAIN evaluations
    BY DEF AuditInv, AuditedFirst
  <2>5. "visibility_gaps" \in DOMAIN run.summary => audits # {}
    BY DEF AuditInv, AuditedFirst
  <2>6. query[q].pc \in Audited => q \in audits
    BY DEF QueryInv
  <2>7. query[q].pc \in Persisted => DOMAIN query[q].outcomes \subseteq DOMAIN evaluations
    BY DEF QueryInv
  <2> HIDE DEF v
  <2> QED
    BY <1>13, <1>b, <2>1, <2>3, <2>4, <2>5, <2>6, <2>7 DEF QueryFails, At, Audited, Persisted
<1>14. CASE UNCHANGED vars
  BY <1>14, <1>a DEF vars, AuditInv, AuditedFirst
<1> QED
  BY <1>1, <1>2, <1>3, <1>4, <1>5, <1>6, <1>7, <1>8, <1>9, <1>10, <1>11, <1>12, <1>13, <1>14 DEF Next, Runner, QueryStep, Finished

\* The rows stay, and the status that finish_run wrote.
LEMMA HistoryStep ==
    ASSUME Shape, RunnerInv, QueryInv, [Next]_vars
    PROVE  Kept
<1> USE DEF tables, Kept
<1>a. SubSeq(actions, 1, Len(actions)) = actions
  BY SubSeqFull DEF Shape
<1>b. ASSUME UNCHANGED <<run, evaluations>>, audits \subseteq audits', artifacts \subseteq artifacts',
             UNCHANGED actions
      PROVE  Kept
  BY <1>a, <1>b
<1>1. CASE CreateRun
  <2>1. run.status = "none"
    BY <1>1 DEF CreateRun, RunnerInv
  <2> QED
    BY <1>1, <1>a, <2>1 DEF CreateRun, FinalStatus, FinalStatuses
<1>2. CASE AppendAction
  <2> DEFINE e == Planned[Len(actions) + 1]
  <2>1. actions' = Append(actions, e) /\ actions \in Seq(PlannedSet)
    BY <1>2 DEF AppendAction, Shape
  <2>2. Len(actions) + 1 \in DOMAIN Planned
    BY <1>2, <2>1, StoreAssumption, LenProperties DEF AppendAction
  <2>3. e \in PlannedSet
    BY <2>2 DEF PlannedSet
  <2> HIDE DEF e
  <2>4. SubSeq(actions', 1, Len(actions)) = actions
    <3> DEFINE n == Len(actions)
    <3>1. n \in Nat /\ \A i \in 1..n : actions'[i] = actions[i] /\ actions[i] \in PlannedSet
      BY <2>1, <2>3
    <3>2. SubSeq(actions', 1, n) \in Seq(PlannedSet) /\ Len(SubSeq(actions', 1, n)) = n
          /\ \A i \in 1..n : SubSeq(actions', 1, n)[i] = actions'[i]
      BY <3>1, SubSeqProperties
    <3> QED
      BY <2>1, <3>1, <3>2, SeqEqual
  <2> QED
    BY <1>2, <2>4 DEF AppendAction
<1>3. CASE FinishRun
  <2>1. run.status = "running"
    BY <1>3 DEF FinishRun, RunnerInv
  <2> QED
    BY <1>3, <1>a, <2>1 DEF FinishRun, FinalStatus, FinalStatuses
<1>4. CASE RunnerFails
  BY <1>4, <1>b DEF RunnerFails
<1>5. ASSUME NEW q \in Queries, SelectAbilities(q) PROVE Kept
  BY <1>5, <1>b DEF SelectAbilities
<1>6. ASSUME NEW q \in Queries, RecordTelemetryQuery(q) PROVE Kept
  BY <1>6, <1>b DEF RecordTelemetryQuery
<1>7. ASSUME NEW q \in Queries, AppendDetection(q) PROVE Kept
  <2>1. PICK a \in Left(q) :
            /\ evaluations' = [b \in DOMAIN evaluations \union {a} |->
                                  IF b = a THEN query[q].outcomes[a] ELSE evaluations[b]]
            /\ Update(q, [query[q] EXCEPT !.appended = @ \union {a},
                             !.pc = IF Left(q) = {a} THEN "read_summary" ELSE "evaluation"])
    BY <1>7 DEF AppendDetection
  <2> DEFINE v == [query[q] EXCEPT !.appended = @ \union {a},
                             !.pc = IF Left(q) = {a} THEN "read_summary" ELSE "evaluation"]
  <2>2. DOMAIN query[q] = {"pc", "outcomes", "appended", "summary", "merged"}
    BY DEF Shape
  <2>3. /\ v.outcomes = query[q].outcomes /\ v.appended = query[q].appended \union {a}
        /\ v.pc = (IF Left(q) = {a} THEN "read_summary" ELSE "evaluation")
        /\ v.summary = query[q].summary /\ v.merged = query[q].merged
    BY <2>2
  <2>4. Update(q, v)
    BY <2>1
  <2>5. DOMAIN evaluations' = DOMAIN evaluations \union {a}
    BY <2>1
  <2> HIDE DEF v
  <2> QED
    BY <1>7, <1>a, <2>5 DEF AppendDetection
<1>8. ASSUME NEW q \in Queries, ReadSummary(q) PROVE Kept
  BY <1>8, <1>b DEF ReadSummary
<1>9. ASSUME NEW q \in Queries, ReadEvaluations(q) PROVE Kept
  BY <1>9, <1>b DEF ReadEvaluations
<1>10. ASSUME NEW q \in Queries, UpdateSummary(q) PROVE Kept
  <2>1. run'.status = run.status
    BY <1>10 DEF UpdateSummary, Shape
  <2> QED
    BY <1>10, <1>a, <2>1 DEF UpdateSummary
<1>11. ASSUME NEW q \in Queries, RecordArtifact(q) PROVE Kept
  BY <1>11, <1>b DEF RecordArtifact
<1>12. ASSUME NEW q \in Queries, PrintResult(q) PROVE Kept
  BY <1>12, <1>b DEF PrintResult
<1>13. ASSUME NEW q \in Queries, QueryFails(q) PROVE Kept
  BY <1>13, <1>b DEF QueryFails
<1>14. CASE UNCHANGED vars
  BY <1>14, <1>b DEF vars
<1> QED
  BY <1>1, <1>2, <1>3, <1>4, <1>5, <1>6, <1>7, <1>8, <1>9, <1>10, <1>11, <1>12, <1>13, <1>14 DEF Next, Runner, QueryStep, Finished

LEMMA StoreInit == Init => StoreInv
<1> SUFFICES ASSUME Init PROVE StoreInv
  OBVIOUS
<1>1. /\ DOMAIN query = Queries /\ \A q \in Queries : query[q] = NewQuery
      /\ run = [status |-> "none", summary |-> NoSummary]
      /\ actions = <<>> /\ actions \in Seq(PlannedSet) /\ evaluations = NoVerdicts
      /\ runner = "create" /\ audits = {} /\ artifacts = {} /\ current = {} /\ fresh = FALSE
  BY DEF Init
<1>2. DOMAIN NoSummary = {} /\ DOMAIN NoVerdicts = {}
  BY DEF NoSummary, NoVerdicts
<1>3. Shape
  BY <1>1 DEF Shape, NewQuery
<1>4. RunnerInv /\ CurrentInv /\ CountersFresh
  BY <1>1, <1>2 DEF RunnerInv, CurrentInv, CountersFresh, PlannedKept
<1>5. AuditInv
  BY <1>1, <1>2 DEF AuditInv, AuditedFirst
<1>6. QueryInv
  BY <1>1, <1>2 DEF QueryInv, NewQuery, Judged, Audited, Persisted, PlannedKept
<1> QED
  BY <1>3, <1>4, <1>5, <1>6 DEF StoreInv

LEMMA StoreStep == StoreInv /\ [Next]_vars => StoreInv'
  BY ShapeStep, RunnerStep, QueryInvStep, CurrentStep, AuditStep, FreshStep DEF StoreInv

\* Whenever the counters of a run were written by a query that nothing overtook, they are
\* the counts of all the evaluations stored for it, whatever queries failed, were killed or
\* disagreed before.
THEOREM CountersFreshHolds == Spec => []CountersFresh
<1>1. StoreInv => CountersFresh
  BY DEF StoreInv
<1> QED
  BY <1>1, StoreInit, StoreStep, PTL DEF Spec

\* Nothing that a query concludes is stored before its audit row, and no interleaving of any
\* number of queries with the campaign takes a row, or the final status, away.
THEOREM AuditedHistoryHolds == Spec => AuditedHistory
<1>1. StoreInv => AuditedFirst
  BY DEF StoreInv, AuditInv
<1>2. StoreInv /\ [Next]_vars => [Kept]_vars
  BY HistoryStep DEF StoreInv
<1> QED
  BY <1>1, <1>2, StoreInit, StoreStep, PTL DEF Spec, AuditedHistory, HistoryKept, Kept

=============================================================================
