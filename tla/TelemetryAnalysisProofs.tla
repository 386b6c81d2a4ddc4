----------------------- MODULE TelemetryAnalysisProofs -----------------------
(* Proofs about the analyses of evidence: for any snapshots, thresholds and      *)
(* ways to tune; any lifecycle in any order; any query, answers and changes of   *)
(* its plan; any window and feedback.                                            *)
EXTENDS TelemetryAnalysis, FiniteSetTheorems, SequenceTheorems, WellFoundedInduction, TLAPS

-----------------------------------------------------------------------------
(* Drift.                                                                      *)

\* Tuning moves verdicts within their class: both snapshots are of the same corpora.
DriftInv ==
    study = "drift" =>
        /\ baseline \in Snapshots /\ candidate \in Snapshots
        /\ candidate.true_positive + candidate.false_negative = baseline.true_positive + baseline.false_negative
        /\ candidate.true_negative + candidate.false_positive = baseline.true_negative + baseline.false_positive
        /\ candidate.alerts = baseline.alerts
        /\ candidate.latency = Untimed <=> baseline.latency = Untimed

LEMMA DriftStep == DriftInv /\ [Next]_vars => DriftInv'
<1> SUFFICES ASSUME DriftInv, [Next]_vars PROVE DriftInv'
  OBVIOUS
<1>1. study' = study /\ (driftVars' = driftVars => DriftInv')
  <2>1. study' = study
    BY DEF Next, Deliver, Convert, Observe, Tune, LoseAlert, Slow, Ask, vars
  <2> QED
    BY <2>1 DEF DriftInv, driftVars
<1>2. ASSUME study = "drift" PROVE baseline \in Snapshots /\ candidate \in Snapshots
  BY <1>2 DEF DriftInv
<1>3. ASSUME NEW by \in {-1, 1}, Tune("true_positive", "false_negative", by) PROVE DriftInv'
  <2>1. /\ study = "drift" /\ baseline' = baseline
        /\ candidate' = [candidate EXCEPT !["true_positive"] = @ - by, !["false_negative"] = @ + by]
        /\ candidate.true_positive - by >= 0 /\ candidate.false_negative + by >= 0
    BY <1>3 DEF Tune
  <2>2. /\ candidate'.true_positive = candidate.true_positive - by
        /\ candidate'.false_negative = candidate.false_negative + by
        /\ candidate'.true_negative = candidate.true_negative /\ candidate'.false_positive = candidate.false_positive
        /\ candidate'.alerts = candidate.alerts /\ candidate'.latency = candidate.latency
    BY <1>2, <2>1 DEF Snapshots
  <2>3. candidate.true_positive - by \in Nat /\ candidate.false_negative + by \in Nat
    BY <1>2, <2>1 DEF Snapshots
  <2>4. candidate' \in Snapshots
    BY <1>2, <2>1, <2>3 DEF Snapshots
  <2>5. candidate'.true_positive + candidate'.false_negative = candidate.true_positive + candidate.false_negative
    BY <1>2, <2>1, <2>2 DEF Snapshots
  <2> QED
    BY <1>1, <2>1, <2>2, <2>4, <2>5 DEF DriftInv
<1>4. ASSUME NEW by \in {-1, 1}, Tune("true_negative", "false_positive", by) PROVE DriftInv'
  <2>1. /\ study = "drift" /\ baseline' = baseline
        /\ candidate' = [candidate EXCEPT !["true_negative"] = @ - by, !["false_positive"] = @ + by]
        /\ candidate.true_negative - by >= 0 /\ candidate.false_positive + by >= 0
    BY <1>4 DEF Tune
  <2>2. /\ candidate'.true_negative = candidate.true_negative - by
        /\ candidate'.false_positive = candidate.false_positive + by
        /\ candidate'.true_positive = candidate.true_positive /\ candidate'.false_negative = candidate.false_negative
        /\ candidate'.alerts = candidate.alerts /\ candidate'.latency = candidate.latency
    BY <1>2, <2>1 DEF Snapshots
  <2>3. candidate.true_negative - by \in Nat /\ candidate.false_positive + by \in Nat
    BY <1>2, <2>1 DEF Snapshots
  <2>4. candidate' \in Snapshots
    BY <1>2, <2>1, <2>3 DEF Snapshots
  <2>5. candidate'.true_negative + candidate'.false_positive = candidate.true_negative + candidate.false_positive
    BY <1>2, <2>1, <2>2 DEF Snapshots
  <2> QED
    BY <1>1, <2>1, <2>2, <2>4, <2>5 DEF DriftInv
<1>5. CASE LoseAlert
  <2>1. /\ study = "drift" /\ baseline' = baseline /\ candidate.reconciled > 0
        /\ candidate' = [candidate EXCEPT !.reconciled = @ - 1]
    BY <1>5 DEF LoseAlert
  <2>2. candidate.reconciled - 1 \in Nat /\ candidate.reconciled - 1 <= candidate.alerts
    BY <1>2, <2>1 DEF Snapshots
  <2>3. candidate' \in Snapshots
    BY <1>2, <2>1, <2>2 DEF Snapshots
  <2> QED
    BY <1>1, <1>2, <2>1, <2>3 DEF DriftInv, Snapshots
<1>6. CASE Slow
  <2>1. /\ study = "drift" /\ baseline' = baseline /\ candidate.latency # Untimed
        /\ candidate' = [candidate EXCEPT !.latency = @ + 1]
    BY <1>6 DEF Slow
  <2>2. candidate.latency + 1 \in Nat
    BY <1>2, <2>1 DEF Snapshots
  <2>3. candidate' \in Snapshots
    BY <1>2, <2>1, <2>2 DEF Snapshots
  <2> QED
    BY <1>1, <1>2, <2>1, <2>2, <2>3, DriftAssumption DEF DriftInv, Snapshots
<1>7. ASSUME \/ \E i \in 1 .. (IF corpus = None THEN 0 ELSE Len(corpus.events)) : Deliver(i)
             \/ \E profile \in Profiles : Convert(profile)
             \/ \E e \in recorded : Observe(e)
             \/ Ask
             \/ UNCHANGED vars
      PROVE  DriftInv'
  BY <1>1, <1>7 DEF Deliver, Convert, Observe, Ask, vars
<1> QED
  BY <1>3, <1>4, <1>5, <1>6, <1>7 DEF Next

\* The rates of one class, as fractions of one denominator.
LEMMA RateDrop ==
    ASSUME NEW x \in Nat, NEW y \in Nat, NEW all \in Nat, NEW d \in Nat, NEW empty, NEW rounded,
           all = 0 => x = 0 /\ y = 0, 100 * (x - y) > d * all
    PROVE  MoreThan(Rate(x, all, empty), Rate(y, all, empty), d, rounded)
<1>1. all > 0
  OBVIOUS
<1>2. (100 * (x - y)) * all > (d * all) * all
  <2> DEFINE m == 100 * (x - y)
             k == d * all
  <2>1. m \in Int /\ k \in Int /\ m > k
    OBVIOUS
  <2> HIDE DEF m, k
  <2>2. m * all > k * all
    BY <1>1, <2>1
  <2> QED
    BY <2>2 DEF m, k
<1>3. (100 * (x - y)) * all = 100 * (x * all - y * all)
  OBVIOUS
<1>4. Rate(x, all, empty) = <<x, all>> /\ Rate(y, all, empty) = <<y, all>>
  BY <1>1 DEF Rate
<1>5. 100 * (x * all - y * all) > d * all * all
  BY <1>2, <1>3
<1> QED
  BY <1>4, <1>5 DEF MoreThan, Less

\* For any baseline and any tuning, a loss of more than the threshold is a regression, and a
\* stable candidate has lost no more in any respect.
THEOREM LossesShow == Spec => []GainHidesNoLoss
<1>1. Init => DriftInv
  <2> SUFFICES ASSUME Init, study = "drift" PROVE DriftInv
    BY DEF DriftInv
  <2>1. baseline \in Baselines /\ candidate = baseline
    BY DEF Init
  <2> QED
    BY <2>1, AnalysisAssumption DEF DriftInv
<1>2. DriftInv => GainHidesNoLoss
  <2> SUFFICES ASSUME DriftInv, study = "drift", NEW rounded \in BOOLEAN
               PROVE  LET status    == DriftStatus(DriftFindings(baseline, candidate, rounded))
                          malicious == baseline.true_positive + baseline.false_negative
                          benign    == baseline.true_negative + baseline.false_positive
                      IN  /\ \/ 100 * (baseline.true_positive - candidate.true_positive) > MaxDrop * malicious
                             \/ 100 * (candidate.false_positive - baseline.false_positive) > MaxDrop * benign
                             => status = "regressed"
                          /\ status = "stable" =>
                                /\ 100 * (baseline.true_positive - candidate.true_positive) <= MaxDrop * malicious
                                /\ 100 * (baseline.reconciled - candidate.reconciled) <= MaxDrop * baseline.alerts
                                /\ baseline.latency # Untimed => candidate.latency - baseline.latency <= MaxLatency
    BY DEF GainHidesNoLoss
  <2> DEFINE findings  == DriftFindings(baseline, candidate, rounded)
             malicious == baseline.true_positive + baseline.false_negative
             benign    == baseline.true_negative + baseline.false_positive
             recall    == MoreThan(Recall(baseline), Recall(candidate), MaxDrop, rounded)
             alarms    == MoreThan(FalseAlarms(candidate), FalseAlarms(baseline), MaxDrop, rounded)
             matched   == MoreThan(Reconciliation(baseline), Reconciliation(candidate), MaxDrop, rounded)
  <2>0. /\ baseline \in Snapshots /\ candidate \in Snapshots /\ MaxDrop \in Nat
        /\ candidate.true_positive + candidate.false_negative = malicious
        /\ candidate.true_negative + candidate.false_positive = benign
        /\ candidate.alerts = baseline.alerts
        /\ candidate.latency = Untimed <=> baseline.latency = Untimed
    BY DriftAssumption DEF DriftInv
  <2>1. /\ baseline.true_positive \in Nat /\ baseline.false_negative \in Nat /\ baseline.true_negative \in Nat
        /\ baseline.false_positive \in Nat /\ baseline.reconciled \in Nat /\ baseline.alerts \in Nat
        /\ candidate.true_positive \in Nat /\ candidate.false_negative \in Nat /\ candidate.true_negative \in Nat
        /\ candidate.false_positive \in Nat /\ candidate.reconciled \in Nat
        /\ baseline.reconciled <= baseline.alerts /\ candidate.reconciled <= candidate.alerts
        /\ baseline.latency \in Nat \union {Untimed} /\ candidate.latency \in Nat \union {Untimed}
    BY <2>0 DEF Snapshots
  <2>2. 100 * (baseline.true_positive - candidate.true_positive) > MaxDrop * malicious => recall
    <3>1. malicious \in Nat /\ (malicious = 0 => baseline.true_positive = 0 /\ candidate.true_positive = 0)
      BY <2>0, <2>1
    <3>2. /\ Recall(baseline) = Rate(baseline.true_positive, malicious, 1)
          /\ Recall(candidate) = Rate(candidate.true_positive, malicious, 1)
      BY <2>0 DEF Recall
    <3> HIDE DEF malicious
    <3>3. ASSUME 100 * (baseline.true_positive - candidate.true_positive) > MaxDrop * malicious
          PROVE  MoreThan(Rate(baseline.true_positive, malicious, 1), Rate(candidate.true_positive, malicious, 1),
                          MaxDrop, rounded)
      BY <2>0, <2>1, <3>1, <3>3, RateDrop
    <3> QED
      BY <3>2, <3>3
  <2>3. 100 * (candidate.false_positive - baseline.false_positive) > MaxDrop * benign => alarms
    <3>1. benign \in Nat /\ (benign = 0 => baseline.false_positive = 0 /\ candidate.false_positive = 0)
      BY <2>0, <2>1
    <3>2. /\ baseline.false_positive + baseline.true_negative = benign
          /\ candidate.false_positive + candidate.true_negative = benign
      BY <2>0, <2>1
    <3>3. /\ FalseAlarms(baseline) = Rate(baseline.false_positive, benign, 0)
          /\ FalseAlarms(candidate) = Rate(candidate.false_positive, benign, 0)
      BY <3>2 DEF FalseAlarms
    <3> HIDE DEF benign
    <3> QED
      BY <2>0, <2>1, <3>1, <3>3, RateDrop
  <2>4. 100 * (baseline.reconciled - candidate.reconciled) > MaxDrop * baseline.alerts => matched
    <3>1. baseline.alerts = 0 => baseline.reconciled = 0 /\ candidate.reconciled = 0
      BY <2>0, <2>1
    <3>2. /\ Reconciliation(baseline) = Rate(baseline.reconciled, baseline.alerts, 1)
          /\ Reconciliation(candidate) = Rate(candidate.reconciled, baseline.alerts, 1)
      BY <2>0 DEF Reconciliation
    <3>3. ASSUME 100 * (baseline.reconciled - candidate.reconciled) > MaxDrop * baseline.alerts
          PROVE  MoreThan(Rate(baseline.reconciled, baseline.alerts, 1), Rate(candidate.reconciled, baseline.alerts, 1),
                          MaxDrop, rounded)
      BY <2>0, <2>1, <3>1, <3>3, RateDrop
    <3> QED
      BY <3>2, <3>3
  <2>5. /\ recall => \E f \in findings : f[2] \in {"critical", "high"}
        /\ alarms => \E f \in findings : f[2] \in {"critical", "high"}
        /\ matched => findings # {}
        /\ baseline.latency # Untimed /\ candidate.latency - baseline.latency > MaxLatency => findings # {}
    <3> HIDE DEF recall, alarms, matched
    <3>1. ASSUME recall PROVE \E f \in findings : f[2] \in {"critical", "high"}
      <4>1. \E s \in {"critical", "high"} : <<"recall", s>> \in findings
        BY <3>1 DEF DriftFindings, RateFinding, recall
      <4> QED
        BY <4>1
    <3>2. ASSUME alarms PROVE \E f \in findings : f[2] \in {"critical", "high"}
      <4>1. \E s \in {"critical", "high"} : <<"false_positive_rate", s>> \in findings
        BY <3>2 DEF DriftFindings, RateFinding, alarms
      <4> QED
        BY <4>1
    <3>3. ASSUME matched PROVE findings # {}
      BY <3>3 DEF DriftFindings, RateFinding, matched
    <3>4. ASSUME baseline.latency # Untimed, candidate.latency - baseline.latency > MaxLatency
          PROVE  findings # {}
      BY <2>0, <3>4 DEF DriftFindings
    <3> QED
      BY <3>1, <3>2, <3>3, <3>4
  <2> HIDE DEF recall, alarms, matched
  <2>6. /\ (\E f \in findings : f[2] \in {"critical", "high"}) => DriftStatus(findings) = "regressed"
        /\ DriftStatus(findings) = "stable" => findings = {}
    <3>1. \A f \in findings : f[2] \in {"critical", "high", "medium"}
      BY DEF DriftFindings, RateFinding
    <3> HIDE DEF findings
    <3> QED
      BY <3>1 DEF DriftStatus
  <2> HIDE DEF findings
  <2>7. 100 * (baseline.true_positive - candidate.true_positive) \in Int /\ MaxDrop * malicious \in Int
        /\ 100 * (baseline.reconciled - candidate.reconciled) \in Int /\ MaxDrop * baseline.alerts \in Int
    BY <2>0, <2>1
  <2>8. DriftStatus(findings) = "stable" => ~recall /\ ~matched
    BY <2>5, <2>6
  <2>9. DriftStatus(findings) = "stable" /\ baseline.latency # Untimed => candidate.latency - baseline.latency <= MaxLatency
    BY <2>0, <2>1, <2>5, <2>6, DriftAssumption
  <2>10. DriftStatus(findings) = "stable" =>
            /\ 100 * (baseline.true_positive - candidate.true_positive) <= MaxDrop * malicious
            /\ 100 * (baseline.reconciled - candidate.reconciled) <= MaxDrop * baseline.alerts
    BY <2>2, <2>4, <2>7, <2>8
  <2> QED
    BY <2>2, <2>3, <2>5, <2>6, <2>9, <2>10 DEF findings
<1> QED
  BY <1>1, <1>2, DriftStep, PTL DEF Spec

-----------------------------------------------------------------------------
(* Correlation.                                                                *)

Below == {p \in Nat \X Nat : p[1] < p[2]}

LEMMA SetInduction ==
    ASSUME NEW S, 0 \in S, \A n \in Nat : n \in S => n + 1 \in S
    PROVE  Nat \subseteq S
<1> SUFFICES ASSUME Nat \ S # {} PROVE FALSE
  OBVIOUS
<1> DEFINE T == Nat \ S
<1>1. IsWellFoundedOn(Below, Nat)
  BY NatLessThanWellFounded DEF OpToRel, Below
<1>2. PICK x \in T : \A y \in T : ~(<<y, x>> \in Below)
  <2>1. T \subseteq Nat /\ T # {}
    OBVIOUS
  <2> HIDE DEF T
  <2> QED
    BY <1>1, <2>1, WFMin
<1>3. x \in Nat /\ x # 0 /\ x - 1 \in Nat /\ x - 1 < x
  OBVIOUS
<1>4. x - 1 \in S
  BY <1>2, <1>3 DEF Below
<1>5. (x - 1) + 1 \in S
  BY <1>3, <1>4
<1> QED
  BY <1>3, <1>5

\* Of the positions of a sequence of numbers, some hold the greatest and some the least.
LEMMA Greatest ==
    ASSUME NEW f, NEW n \in Nat, NEW P \in SUBSET (1 .. n), P # {}, \A i \in P : f[i] \in Int
    PROVE  \E i \in P : \A j \in P : f[j] <= f[i]
<1> DEFINE Top(Q) == \E i \in Q : \A j \in Q : f[j] <= f[i]
           Numbers(Q) == Q # {} /\ \A i \in Q : f[i] \in Int
           T == {m \in Nat : \A Q \in SUBSET (1 .. m) : Numbers(Q) => Top(Q)}
<1>1. 0 \in T
  <2>1. \A Q \in SUBSET (1 .. 0) : Q = {}
    OBVIOUS
  <2> QED
    BY <2>1
<1>2. ASSUME NEW m \in Nat, m \in T PROVE m + 1 \in T
  <2> SUFFICES ASSUME NEW Q \in SUBSET (1 .. m + 1), Numbers(Q) PROVE Top(Q)
    BY <1>2
  <2>1. Q \ {m + 1} \in SUBSET (1 .. m)
    BY <1>2
  <2>2. CASE Q \ {m + 1} = {}
    <3>1. Q = {m + 1}
      BY <2>2
    <3>2. f[m + 1] \in Int
      BY <3>1
    <3>3. f[m + 1] <= f[m + 1]
      BY <3>2
    <3> QED
      BY <3>1, <3>3
  <2>3. CASE Q \ {m + 1} # {}
    <3>1. Top(Q \ {m + 1})
      BY <1>2, <2>1, <2>3
    <3>2. PICK i \in Q \ {m + 1} : \A j \in Q \ {m + 1} : f[j] <= f[i]
      BY <3>1
    <3>3. CASE m + 1 \notin Q \/ f[m + 1] <= f[i]
      BY <3>2, <3>3
    <3>4. CASE m + 1 \in Q /\ ~(f[m + 1] <= f[i])
      <4>1. \A j \in Q : f[j] <= f[m + 1]
        BY <3>2, <3>4
      <4> QED
        BY <3>4, <4>1
    <3> QED
      BY <3>3, <3>4
  <2> QED
    BY <2>2, <2>3
<1>3. n \in T
  <2> HIDE DEF T
  <2> QED
    BY <1>1, <1>2, SetInduction
<1> QED
  BY <1>3

LEMMA Least ==
    ASSUME NEW f, NEW n \in Nat, NEW P \in SUBSET (1 .. n), P # {}, \A i \in P : f[i] \in Int
    PROVE  \E i \in P : \A j \in P : f[i] <= f[j]
<1> DEFINE g == [i \in P |-> -f[i]]
<1>1. \A i \in P : g[i] \in Int
  OBVIOUS
<1>2. PICK i \in P : \A j \in P : g[j] <= g[i]
  <2> HIDE DEF g
  <2> QED
    BY <1>1, Greatest
<1>3. \A j \in P : f[i] <= f[j]
  BY <1>2
<1> QED
  BY <1>3

\* What has come of a lifecycle is the run's.
CorrelationInv ==
    study = "correlation" =>
        /\ recorded \in Lifecycles /\ telemetry \in Evidence
        /\ lifecycle \in Seq(recorded)

LEMMA CorrelationStep == CorrelationInv /\ [Next]_vars => CorrelationInv'
<1> SUFFICES ASSUME CorrelationInv, [Next]_vars PROVE CorrelationInv'
  OBVIOUS
<1>1. ASSUME NEW e \in recorded, Observe(e) PROVE CorrelationInv'
  <2>1. /\ study = "correlation" /\ recorded' = recorded /\ telemetry' = telemetry
        /\ lifecycle' = Append(lifecycle, e)
    BY <1>1 DEF Observe
  <2>2. lifecycle' \in Seq(recorded)
    BY <2>1 DEF CorrelationInv
  <2> QED
    BY <2>1, <2>2 DEF CorrelationInv
<1>2. study' = study /\ correlationVars' = correlationVars => CorrelationInv'
  BY DEF CorrelationInv, correlationVars
<1>3. ASSUME \/ \E i \in 1 .. (IF corpus = None THEN 0 ELSE Len(corpus.events)) : Deliver(i)
             \/ \E profile \in Profiles : Convert(profile)
             \/ \E by \in {-1, 1} : Tune("true_positive", "false_negative", by)
             \/ \E by \in {-1, 1} : Tune("true_negative", "false_positive", by)
             \/ LoseAlert \/ Slow \/ Ask \/ UNCHANGED vars
      PROVE  CorrelationInv'
  <2>1. study' = study /\ correlationVars' = correlationVars
    BY <1>3 DEF Deliver, Convert, Tune, LoseAlert, Slow, Ask, vars
  <2> QED
    BY <1>2, <2>1
<1> QED
  BY <1>1, <1>3 DEF Next

\* The ends that are found of an action's events are its first and its last in time.
LEMMA EndsAreBounds ==
    ASSUME CorrelationInv, study = "correlation", ToSet(lifecycle) = recorded, NEW action \in Actions
    PROVE  LET ran == {e \in recorded : e.action = action}
           IN  /\ Ordered(action).first \in ran /\ Ordered(action).last \in ran
               /\ \A e \in ran : Ordered(action).first.time <= e.time /\ e.time <= Ordered(action).last.time
               /\ \A e \in ran : e.time \in Int /\ e.run = Ordered(action).first.run
               /\ \A e \in ran : e.expected \subseteq Expected(action)
<1> DEFINE ran == {e \in recorded : e.action = action}
           P == Positions(action)
           events == {lifecycle[i] : i \in P}
           Earliest(e) == \A f \in events : e.sequence <= f.sequence
           Latest(e) == \A f \in events : e.sequence >= f.sequence
<1>1. lifecycle \in Seq(recorded) /\ recorded \in Lifecycles
  BY DEF CorrelationInv
<1>2. events = ran
  <2>1. recorded = {lifecycle[i] : i \in DOMAIN lifecycle}
    BY DEF ToSet
  <2> QED
    BY <2>1 DEF Positions
<1>3. P \in SUBSET (1 .. Len(lifecycle)) /\ P # {} /\ Len(lifecycle) \in Nat
  BY <1>1 DEF Positions, Actions
<1>4. \A e, f \in ran : /\ e.sequence \in Nat /\ e.time \in Int /\ e.run = f.run
                        /\ e.sequence <= f.sequence => e.time <= f.time
  BY <1>1, AnalysisAssumption
<1> DEFINE s == [i \in P |-> lifecycle[i].sequence]
<1>5. \A i \in P : s[i] \in Int /\ s[i] = lifecycle[i].sequence
  BY <1>2, <1>4
<1>6. \E e \in events : Earliest(e)
  <2>1. PICK i \in P : \A j \in P : s[i] <= s[j]
    <3> HIDE DEF s, P
    <3> QED
      BY <1>3, <1>5, Least
  <2> HIDE DEF P, s
  <2> QED
    BY <1>5, <2>1
<1>7. \E e \in events : Latest(e)
  <2>1. PICK i \in P : \A j \in P : s[j] <= s[i]
    <3> HIDE DEF s, P
    <3> QED
      BY <1>3, <1>5, Greatest
  <2>2. \A j \in P : lifecycle[i].sequence >= lifecycle[j].sequence
    BY <1>5, <2>1
  <2> HIDE DEF P, s
  <2> QED
    BY <2>2
<1>8. /\ Ordered(action).first \in events /\ Earliest(Ordered(action).first)
      /\ Ordered(action).last \in events /\ Latest(Ordered(action).last)
  <2>1. /\ Ordered(action).first = CHOOSE e \in events : Earliest(e)
        /\ Ordered(action).last = CHOOSE e \in events : Latest(e)
    BY DEF Ordered
  <2> HIDE DEF events, Earliest, Latest
  <2> QED
    BY <1>6, <1>7, <2>1
<1>9. \A e \in ran : e.expected \subseteq Expected(action)
  <2>1. Expected(action) = UNION {lifecycle[i].expected : i \in P}
    BY DEF Expected
  <2>2. \A i \in P : lifecycle[i].expected \subseteq Expected(action)
    <3> HIDE DEF P
    <3> QED
      BY <2>1
  <2> HIDE DEF P, ran
  <2> QED
    BY <1>2, <2>2
<1> HIDE DEF ran, events
<1>10. \A e \in ran : Ordered(action).first.sequence <= e.sequence /\ e.sequence <= Ordered(action).last.sequence
  <2>1. \A e \in ran : Ordered(action).last.sequence >= e.sequence
    BY <1>2, <1>8
  <2> QED
    BY <1>2, <1>4, <1>8, <2>1
<1>11. \A e \in ran : Ordered(action).first.time <= e.time /\ e.time <= Ordered(action).last.time
  BY <1>2, <1>4, <1>8, <1>10
<1> QED
  BY <1>2, <1>4, <1>8, <1>9, <1>11 DEF ran

\* For any lifecycle, delivered in any order, and any telemetry: what an action is correlated
\* with has all that ran its course within the tolerance, and nothing of another run.
LEMMA CorrelationComplete == CorrelationInv => CorrelatedIsComplete
<1> SUFFICES ASSUME CorrelationInv, study = "correlation", ToSet(lifecycle) = recorded,
                    NEW action \in Actions, NEW i \in DOMAIN telemetry
             PROVE  LET t   == telemetry[i]
                        ran == {e \in recorded : e.action = action}
                    IN  /\ /\ \E e, f \in ran : e.time <= t.emitted /\ t.emitted <= f.time
                           /\ t.time - t.emitted \in -Tolerance .. Tolerance
                           /\ \E e \in ran : t.source \in e.expected /\ t.run \in {Anyone, e.run}
                           => i \in Correlated(action)
                        /\ i \in Correlated(action) => \E e \in ran : t.run \in {Anyone, e.run}
  BY DEF CorrelatedIsComplete
<1> DEFINE t     == telemetry[i]
           ran   == {e \in recorded : e.action = action}
           first == Ordered(action).first
           last  == Ordered(action).last
<1>1. /\ first \in ran /\ last \in ran
      /\ \A e \in ran : first.time <= e.time /\ e.time <= last.time
      /\ \A e \in ran : e.time \in Int /\ e.run = first.run
      /\ \A e \in ran : e.expected \subseteq Expected(action)
  BY EndsAreBounds
<1>2. t.time \in Int /\ t.emitted \in Int /\ Tolerance \in Nat
  BY AnalysisAssumption DEF CorrelationInv
<1>3. i \in Correlated(action) <=>
         /\ t.time \in first.time - Tolerance .. last.time + Tolerance
         /\ \/ Expected(action) = {}
            \/ t.source \in Expected(action)
            \/ t.type \in Expected(action)
            \/ t.ability = first.ability
         /\ t.run \in {Anyone, first.run}
  BY DEF Correlated
<1> HIDE DEF t, ran, first, last
<1>4. ASSUME \E e, f \in ran : e.time <= t.emitted /\ t.emitted <= f.time,
             t.time - t.emitted \in -Tolerance .. Tolerance,
             \E e \in ran : t.source \in e.expected /\ t.run \in {Anyone, e.run}
      PROVE  i \in Correlated(action)
  <2>1. first.time <= t.emitted /\ t.emitted <= last.time
    BY <1>1, <1>2, <1>4
  <2>2. t.time \in first.time - Tolerance .. last.time + Tolerance
    BY <1>1, <1>2, <1>4, <2>1
  <2>3. t.source \in Expected(action) /\ t.run \in {Anyone, first.run}
    BY <1>1, <1>4
  <2> QED
    BY <1>3, <2>2, <2>3
<1>5. i \in Correlated(action) => \E e \in ran : t.run \in {Anyone, e.run}
  BY <1>1, <1>3
<1> QED
  BY <1>4, <1>5 DEF t, ran

-----------------------------------------------------------------------------
(* Sequences of sequences.                                                     *)

\* The results of so many steps.
Iterates(X, x, g, N, f) ==
    f \in [0 .. N -> X] /\ f[0] = x /\ \A n \in 1 .. N : f[n] = g[<<f[n - 1], n>>]

LEMMA Recursion ==
    ASSUME NEW X, NEW x \in X, NEW g \in [X \X Nat -> X], NEW N \in Nat
    PROVE  \E f : Iterates(X, x, g, N, f)
<1> DEFINE Upto(f, m) == f[0] = x /\ \A n \in 1 .. m : f[n] = g[<<f[n - 1], n>>]
           Exists(m) == \E f \in [0 .. m -> X] : Upto(f, m)
           T == {m \in Nat : Exists(m)}
<1>1. 0 \in T
  <2> DEFINE f == [n \in 0 .. 0 |-> x]
  <2>1. f \in [0 .. 0 -> X] /\ Upto(f, 0)
    OBVIOUS
  <2> HIDE DEF f, Upto
  <2> QED
    BY <2>1
<1>2. ASSUME NEW m \in Nat, m \in T PROVE m + 1 \in T
  <2>1. PICK f \in [0 .. m -> X] : Upto(f, m)
    <3> HIDE DEF Upto
    <3> QED
      BY <1>2
  <2> DEFINE h == [n \in 0 .. m + 1 |-> IF n <= m THEN f[n] ELSE g[<<f[m], m + 1>>]]
  <2>2. f[m] \in X /\ g[<<f[m], m + 1>>] \in X
    OBVIOUS
  <2>3. h \in [0 .. m + 1 -> X]
    BY <2>2
  <2>4. \A n \in 0 .. m : h[n] = f[n]
    OBVIOUS
  <2>5. h[m + 1] = g[<<f[m], m + 1>>]
    OBVIOUS
  <2> HIDE DEF h
  <2>6. ASSUME NEW n \in 1 .. m + 1 PROVE h[n] = g[<<h[n - 1], n>>]
    <3>1. CASE n = m + 1
      <4>1. n - 1 = m /\ m \in 0 .. m
        BY <3>1
      <4>2. h[n - 1] = f[m]
        BY <2>4, <4>1
      <4> QED
        BY <2>5, <3>1, <4>2
    <3>2. CASE n # m + 1
      <4>1. n \in 1 .. m /\ n - 1 \in 0 .. m /\ n \in 0 .. m
        BY <3>2
      <4> QED
        BY <2>1, <2>4, <4>1
    <3> QED
      BY <3>1, <3>2
  <2>7. h[0] = x
    BY <2>1, <2>4
  <2>8. Upto(h, m + 1)
    BY <2>6, <2>7
  <2> HIDE DEF Upto
  <2> QED
    BY <2>3, <2>8
<1>3. N \in T
  <2> HIDE DEF T
  <2> QED
    BY <1>1, <1>2, SetInduction
<1> QED
  BY <1>3 DEF Iterates

\* The concatenations of the first parts, of which FlattenSeq is the last.
Joins(S, ss, f) ==
    /\ f \in [0 .. Len(ss) -> Seq(S)] /\ f[0] = <<>>
    /\ \A n \in 1 .. Len(ss) : f[n] = f[n - 1] \o ss[n]

LEMMA Flattened ==
    ASSUME NEW S, NEW ss \in Seq(Seq(S))
    PROVE  \E f : Joins(S, ss, f) /\ FlattenSeq(ss) = f[Len(ss)]
<1> DEFINE L == Len(ss)
           g == [p \in Seq(S) \X Nat |-> IF p[2] \in 1 .. L THEN p[1] \o ss[p[2]] ELSE p[1]]
<1>1. L \in Nat /\ \A n \in 1 .. L : ss[n] \in Seq(S)
  OBVIOUS
<1>2. <<>> \in Seq(S)
  OBVIOUS
<1>3. g \in [Seq(S) \X Nat -> Seq(S)]
  <2>1. \A s \in Seq(S), n \in 1 .. L : s \o ss[n] \in Seq(S)
    BY <1>1, ConcatProperties
  <2> HIDE DEF L
  <2> QED
    BY <2>1
<1>4. PICK f \in [0 .. L -> Seq(S)] : f[0] = <<>> /\ \A n \in 1 .. L : f[n] = g[<<f[n - 1], n>>]
  <2> DEFINE X == Seq(S)
             x == <<>>
  <2>1. x \in X /\ g \in [X \X Nat -> X] /\ L \in Nat
    BY <1>1, <1>2, <1>3
  <2> HIDE DEF g, L, X, x
  <2>2. \E f : Iterates(X, x, g, L, f)
    BY <2>1, Recursion
  <2> QED
    BY <2>2 DEF Iterates, X, x
<1>5. \A n \in 1 .. L : n - 1 \in 0 .. L /\ f[n] = f[n - 1] \o ss[n]
  <2> SUFFICES ASSUME NEW n \in 1 .. L PROVE n - 1 \in 0 .. L /\ f[n] = f[n - 1] \o ss[n]
    OBVIOUS
  <2>1. n \in Nat /\ n - 1 \in 0 .. L
    BY <1>1
  <2>2. <<f[n - 1], n>> \in Seq(S) \X Nat
    BY <2>1
  <2> QED
    BY <1>4, <2>1, <2>2
<1>6. Joins(S, ss, f)
  BY <1>4, <1>5 DEF Joins
<1>7. CASE L = 0
  <2>1. FlattenSeq(ss) = ss /\ ss = <<>>
    BY <1>7, EmptySeq DEF FlattenSeq
  <2> QED
    BY <1>4, <1>6, <1>7, <2>1
<1>8. CASE L # 0
  <2> DEFINE Flat(h) == [i \in 1 .. L |-> IF i = 1 THEN ss[i] ELSE h[i - 1] \o ss[i]]
             flat == CHOOSE h : h = Flat(h)
             r == [i \in 1 .. L |-> f[i]]
  <2>1. FlattenSeq(ss) = flat[L]
    BY <1>8 DEF FlattenSeq
  <2>2. r = Flat(r)
    <3>1. ASSUME NEW i \in 1 .. L PROVE r[i] = IF i = 1 THEN ss[i] ELSE r[i - 1] \o ss[i]
      <4>1. CASE i = 1
        <5>1. f[1] = <<>> \o ss[1] /\ ss[1] \in Seq(S)
          <6>1. 1 \in 1 .. L /\ 1 - 1 = 0
            BY <4>1
          <6>2. f[1] = f[1 - 1] \o ss[1]
            BY <1>5, <6>1
          <6> QED
            BY <1>1, <1>4, <6>1, <6>2
        <5>2. f[1] = ss[1]
          BY <5>1, ConcatEmptySeq
        <5> QED
          BY <4>1, <5>2
      <4>2. CASE i # 1
        <5>1. i - 1 \in 1 .. L
          BY <1>1, <4>2
        <5> QED
          BY <1>5, <4>2, <5>1
      <4> QED
        BY <4>1, <4>2
    <3> QED
      BY <3>1
  <2>3. flat = Flat(flat)
    <3> HIDE DEF Flat, r
    <3> QED
      BY <2>2
  <2> HIDE DEF flat
  <2>4. \A i \in 1 .. L : flat[i] = IF i = 1 THEN ss[i] ELSE flat[i - 1] \o ss[i]
    BY <2>3
  <2> DEFINE T == {n \in Nat : n \in 1 .. L => flat[n] = f[n]}
  <2>5. 0 \in T
    OBVIOUS
  <2>6. ASSUME NEW n \in Nat, n \in T PROVE n + 1 \in T
    <3> SUFFICES ASSUME n + 1 \in 1 .. L PROVE flat[n + 1] = f[n + 1]
      OBVIOUS
    <3>1. flat[n + 1] = IF n + 1 = 1 THEN ss[n + 1] ELSE flat[(n + 1) - 1] \o ss[n + 1]
      BY <2>4
    <3>2. r[n + 1] = IF n + 1 = 1 THEN ss[n + 1] ELSE r[(n + 1) - 1] \o ss[n + 1]
      BY <2>2
    <3>3. n + 1 # 1 => n \in 1 .. L /\ (n + 1) - 1 = n
      BY <1>1
    <3>4. n + 1 # 1 => r[n] = f[n] /\ flat[n] = f[n]
      BY <2>6, <3>3
    <3>5. r[n + 1] = f[n + 1]
      OBVIOUS
    <3> QED
      BY <3>1, <3>2, <3>3, <3>4, <3>5
  <2>7. L \in T
    <3> HIDE DEF T
    <3> QED
      BY <1>1, <2>5, <2>6, SetInduction
  <2>8. flat[L] = f[L]
    BY <1>1, <1>8, <2>7
  <2> QED
    BY <1>6, <2>1, <2>8
<1> QED
  BY <1>7, <1>8

LEMMA FlattenType ==
    ASSUME NEW S, NEW ss \in Seq(Seq(S))
    PROVE  FlattenSeq(ss) \in Seq(S)
<1>1. PICK f : Joins(S, ss, f) /\ FlattenSeq(ss) = f[Len(ss)]
  BY Flattened
<1> QED
  BY <1>1 DEF Joins

LEMMA FlattenAppend ==
    ASSUME NEW S, NEW ss \in Seq(Seq(S)), NEW s \in Seq(S)
    PROVE  FlattenSeq(Append(ss, s)) = FlattenSeq(ss) \o s
<1> DEFINE L == Len(ss)
           more == Append(ss, s)
<1>1. more \in Seq(Seq(S)) /\ Len(more) = L + 1 /\ more[L + 1] = s /\ L \in Nat /\ \A n \in 1 .. L : more[n] = ss[n]
  OBVIOUS
<1> HIDE DEF more
<1>2. PICK f : Joins(S, ss, f) /\ FlattenSeq(ss) = f[L]
  BY Flattened
<1>3. PICK h : Joins(S, more, h) /\ FlattenSeq(more) = h[L + 1]
  BY <1>1, Flattened
<1>4. /\ f[0] = <<>> /\ \A n \in 1 .. L : f[n] = f[n - 1] \o ss[n]
      /\ h[0] = <<>> /\ \A n \in 1 .. L + 1 : h[n] = h[n - 1] \o more[n]
  BY <1>1, <1>2, <1>3 DEF Joins
<1> HIDE DEF L
<1> DEFINE T == {n \in Nat : n <= L => h[n] = f[n]}
<1>5. 0 \in T
  BY <1>4
<1>6. ASSUME NEW n \in Nat, n \in T PROVE n + 1 \in T
  <2> SUFFICES ASSUME n + 1 <= L PROVE h[n + 1] = f[n + 1]
    OBVIOUS
  <2>1. h[n] = f[n]
    BY <1>1, <1>6
  <2>2. n + 1 \in 1 .. L /\ n + 1 \in 1 .. L + 1 /\ (n + 1) - 1 = n
    BY <1>1
  <2>3. h[n + 1] = h[(n + 1) - 1] \o more[n + 1] /\ f[n + 1] = f[(n + 1) - 1] \o ss[n + 1]
    BY <1>4, <2>2
  <2>4. more[n + 1] = ss[n + 1]
    BY <1>1, <2>2
  <2> QED
    BY <2>1, <2>2, <2>3, <2>4
<1>7. L \in T
  <2> HIDE DEF T
  <2> QED
    BY <1>1, <1>5, <1>6, SetInduction
<1>8. L + 1 \in 1 .. L + 1 /\ (L + 1) - 1 = L
  BY <1>1
<1>9. h[L + 1] = h[(L + 1) - 1] \o more[L + 1]
  BY <1>4, <1>8
<1>10. h[L] = f[L]
  BY <1>1, <1>7
<1> QED
  BY <1>1, <1>2, <1>3, <1>8, <1>9, <1>10 DEF more

-----------------------------------------------------------------------------
(* The query.                                                                  *)

PlanFields ==
    {"connector", "origin", "path", "body", "credential", "style", "since", "until", "target", "dataset",
     "limit", "field"}

\* Whatever was changed, each field of a plan is what some specification has there.
PlanShaped ==
    /\ DOMAIN plan = PlanFields
    /\ \A f \in PlanFields : \E s \in Specifications : plan[f] = Built(s)[f]

\* What was sent, how far the exchange is, and what has come of it.
ExchangeInv ==
    /\ exchange \in [pc : {"planned", "refused", "issue", "request", "poll", "failed", "completed"},
                     sent : Seq({Asked, Polled}), answers : Seq(Answers), bytes : Nat, events : Seq(Items)]
    /\ exchange.bytes = Counted(exchange.answers) /\ Len(exchange.answers) = Len(exchange.sent)
    /\ exchange.pc \in {"planned", "refused", "issue", "request"} => exchange.sent = <<>>
    /\ exchange.pc \notin {"planned", "refused"} => Generated(plan)
    /\ exchange.sent # <<>> => exchange.sent[1] = Asked
    /\ exchange.pc = "issue" => plan.connector = "panther"
    /\ exchange.pc = "request" => plan.connector # "panther"
    /\ exchange.pc = "poll" =>
          plan.connector = "panther" /\ Len(exchange.sent) \in 1 .. MaxPolls /\ exchange.answers[1].id
    /\ Len(exchange.sent) <= MaxPolls + 1
    /\ exchange.pc = "completed" =>
          LET answer == Last(exchange.answers) IN
          /\ exchange.answers # <<>> /\ answer.transport = "ok"
          /\ plan.connector = "panther" => answer.status = "succeeded" /\ exchange.answers[1].id
          /\ exchange.events = Cut(Extracted(answer, plan.connector), plan.limit)

QueryInv == exchange.pc # "none" => PlanShaped /\ ExchangeInv

LEMMA ExtractedType ==
    ASSUME NEW answer \in Answers, NEW connector
    PROVE  Extracted(answer, connector) \in Seq(Items)
<1> DEFINE ss == [n \in DOMAIN answer.items |->
                     IF answer.items[n] \in Kept(answer, connector) THEN <<answer.items[n]>> ELSE <<>>]
<1>1. answer.items \in Seq(Items)
  BY QueryAssumption
<1>2. \A n \in DOMAIN answer.items : ss[n] \in Seq(Items)
  <2> SUFFICES ASSUME NEW n \in DOMAIN answer.items PROVE ss[n] \in Seq(Items)
    OBVIOUS
  <2>1. answer.items[n] \in Items
    BY <1>1
  <2>2. <<answer.items[n]>> \in Seq(Items) /\ <<>> \in Seq(Items)
    BY <2>1
  <2> QED
    BY <2>2
<1>3. DOMAIN ss = 1 .. Len(answer.items) /\ Len(answer.items) \in Nat
  BY <1>1
<1>4. ss \in [1 .. Len(answer.items) -> Seq(Items)]
  BY <1>1, <1>2
<1>5. ss \in Seq(Seq(Items))
  <2> HIDE DEF ss
  <2> QED
    BY <1>3, <1>4, IsASeq
<1>6. Extracted(answer, connector) = FlattenSeq(ss)
  BY DEF Extracted
<1> HIDE DEF ss
<1> QED
  BY <1>5, <1>6, FlattenType

LEMMA CutIsPrefix ==
    ASSUME NEW S, NEW items \in Seq(S), NEW limit \in Nat
    PROVE  /\ Cut(items, limit) \in Seq(S) /\ Len(Cut(items, limit)) <= limit
           /\ IsPrefix(Cut(items, limit), items)
<1> DEFINE n == IF Len(items) < limit THEN Len(items) ELSE limit
           cut == SubSeq(items, 1, n)
<1>1. n \in Nat /\ n <= Len(items) /\ n <= limit
  OBVIOUS
<1>2. Cut(items, limit) = cut
  BY DEF Cut
<1> HIDE DEF n
<1>3. cut \in Seq(S) /\ Len(cut) = n /\ \A i \in 1 .. n : cut[i] = items[i]
  BY <1>1
<1>4. SubSeq(cut, 1, Len(cut)) = cut
  BY <1>3
<1>5. IsPrefix(cut, items)
  BY <1>1, <1>3, <1>4 DEF IsPrefix
<1> HIDE DEF cut
<1> QED
  BY <1>1, <1>2, <1>3, <1>5

LEMMA CountedOneMore ==
    ASSUME NEW answers \in Seq(Answers), NEW answer \in Answers
    PROVE  Counted(Append(answers, answer)) = Counted(answers) + Size(answer) /\ Counted(answers) \in Nat
                /\ Size(answer) \in Nat
<1> DEFINE ss == [n \in DOMAIN answers |-> answers[n].items]
           more == [n \in DOMAIN Append(answers, answer) |-> Append(answers, answer)[n].items]
           s == answer.items
           L == Len(answers)
<1>1. s \in Seq(Items) /\ \A n \in 1 .. L : answers[n].items \in Seq(Items)
  <2>1. \A n \in 1 .. L : answers[n] \in Answers
    OBVIOUS
  <2> QED
    BY <2>1, QueryAssumption
<1>2. L \in Nat /\ DOMAIN answers = 1 .. L
  OBVIOUS
<1>3. ss \in Seq(Seq(Items)) /\ Len(ss) = L
  <2>1. ss \in [1 .. L -> Seq(Items)]
    BY <1>1, <1>2
  <2> HIDE DEF ss, L
  <2> QED
    BY <1>2, <2>1, IsASeq, LenProperties
<1>4. more = Append(ss, s)
  <2>1. /\ DOMAIN Append(answers, answer) = 1 .. L + 1 /\ Append(answers, answer)[L + 1] = answer
        /\ \A n \in 1 .. L : Append(answers, answer)[n] = answers[n]
    OBVIOUS
  <2>2. DOMAIN more = 1 .. L + 1 /\ more[L + 1] = s /\ \A n \in 1 .. L : more[n] = ss[n]
    BY <1>2, <2>1
  <2>3. \A n \in 1 .. L + 1 : more[n] \in Seq(Items)
    BY <1>1, <1>2, <2>2
  <2>4. more \in [1 .. L + 1 -> Seq(Items)]
    BY <2>2, <2>3
  <2>5. more \in Seq(Seq(Items)) /\ Len(more) = L + 1
    <3> HIDE DEF more, L
    <3> QED
      BY <1>2, <2>4, IsASeq, LenProperties
  <2> HIDE DEF ss, more, s, L
  <2>6. Append(ss, s) \in Seq(Seq(Items)) /\ Len(Append(ss, s)) = L + 1 /\ Append(ss, s)[L + 1] = s
        /\ \A n \in 1 .. L : Append(ss, s)[n] = ss[n]
    BY <1>1, <1>3
  <2> QED
    BY <1>2, <2>2, <2>5, <2>6, SeqEqual
<1>5. FlattenSeq(more) = FlattenSeq(ss) \o s /\ FlattenSeq(ss) \in Seq(Items)
  <2> HIDE DEF ss, more, s
  <2> QED
    BY <1>1, <1>3, <1>4, FlattenAppend, FlattenType
<1>6. Len(FlattenSeq(more)) = Len(FlattenSeq(ss)) + Len(s) /\ Len(FlattenSeq(ss)) \in Nat /\ Len(s) \in Nat
  <2> HIDE DEF ss, more, s
  <2> QED
    BY <1>1, <1>5, ConcatProperties, LenProperties
<1>7. Counted(answers) = L + Len(FlattenSeq(ss)) /\ Counted(Append(answers, answer)) = (L + 1) + Len(FlattenSeq(more))
  <2>1. Len(Append(answers, answer)) = L + 1
    OBVIOUS
  <2> QED
    BY <2>1 DEF Counted
<1>8. Size(answer) = 1 + Len(s)
  BY DEF Size
<1> HIDE DEF ss, more, s, L
<1> QED
  BY <1>2, <1>6, <1>7, <1>8

\* The second before a time, in which its text is.
LEMMA TextIsNear ==
    ASSUME NEW connector, NEW time \in Int
    PROVE  TextOf(connector, time) \in time - Second + 1 .. time
<1>1. Second \in Nat \ {0}
  BY QueryAssumption
<1>2. (time \div Second) * Second \in time - Second + 1 .. time
  BY <1>1
<1> QED
  BY <1>1, <1>2 DEF TextOf

\* What a plan that passed _validate_generated_plan asks.
LEMMA GeneratedPlan ==
    ASSUME PlanShaped, Generated(plan)
    PROVE  /\ OriginAccepted(plan.origin)
           /\ {plan.path.dataset.workspace, plan.body.dataset.workspace} \ {""} = {plan.dataset.workspace} \ {""}
           /\ {plan.path.dataset.table, plan.body.dataset.table} \ {""} = {plan.dataset.table} \ {""}
           /\ plan.body.target = plan.target /\ plan.body.field = plan.field /\ plan.body.limit = plan.limit
           /\ plan.limit \in 1 .. MaxRecords /\ plan.until - plan.since <= MaxWindow
           /\ plan.body.since \in plan.since - Second + 1 .. plan.since
           /\ plan.body.until \in plan.until - Second + 1 .. plan.until
<1> DEFINE s == SpecificationOf(plan)
<1>1. plan = Built(s) /\ Buildable(s) /\ plan.path = PathOf(plan.connector, plan.dataset)
  BY DEF Generated
<1>2. /\ s.connector = plan.connector /\ s.origin = plan.origin /\ s.dataset = plan.dataset
      /\ s.target = plan.target /\ s.since = plan.since /\ s.until = plan.until /\ s.limit = plan.limit
      /\ s.field = plan.field
  BY DEF SpecificationOf
<1>3. plan.since \in Int /\ plan.until \in Int
      /\ plan.dataset \in [workspace : STRING, table : STRING, exact : BOOLEAN]
  <2>1. \E r \in Specifications : plan.since = Built(r).since
    BY DEF PlanShaped, PlanFields
  <2>2. \E r \in Specifications : plan.until = Built(r).until
    BY DEF PlanShaped, PlanFields
  <2>3. \E r \in Specifications : plan.dataset = Built(r).dataset
    BY DEF PlanShaped, PlanFields
  <2>4. \A r : Built(r).since = r.since /\ Built(r).until = r.until /\ Built(r).dataset = r.dataset
    BY DEF Built
  <2> QED
    BY <2>1, <2>2, <2>3, <2>4, QueryAssumption
<1>4. plan.body = BodyOf(s) /\ plan.field = FieldOf(s)
  <2>1. Built(s).body = BodyOf(s) /\ Built(s).field = FieldOf(s)
    BY DEF Built
  <2> QED
    BY <1>1, <2>1, Zenon
<1>5. /\ OriginAccepted(plan.origin) /\ plan.limit \in 1 .. MaxRecords /\ plan.until - plan.since <= MaxWindow
  BY <1>1, <1>2 DEF Buildable, SpecificationAccepted
<1> HIDE DEF s
<1>6. /\ plan.body.target = plan.target /\ plan.body.field = plan.field /\ plan.body.limit = plan.limit
      /\ plan.body.since = TextOf(plan.connector, plan.since) /\ plan.body.until = TextOf(plan.connector, plan.until)
  <2>1. /\ BodyOf(s).target = s.target /\ BodyOf(s).field = FieldOf(s) /\ BodyOf(s).limit = s.limit
        /\ BodyOf(s).since = TextOf(s.connector, s.since) /\ BodyOf(s).until = TextOf(s.connector, s.until)
    BY DEF BodyOf
  <2> QED
    BY <1>2, <1>4, <2>1
<1>7. /\ plan.body.since \in plan.since - Second + 1 .. plan.since
      /\ plan.body.until \in plan.until - Second + 1 .. plan.until
  BY <1>3, <1>6, TextIsNear
<1> DEFINE d == plan.dataset
<1>8. /\ [d EXCEPT !.workspace = "", !.table = ""].workspace = "" /\ [d EXCEPT !.workspace = "", !.table = ""].table = ""
      /\ [d EXCEPT !.workspace = ""].workspace = "" /\ [d EXCEPT !.workspace = ""].table = d.table
      /\ [d EXCEPT !.table = ""].workspace = d.workspace /\ [d EXCEPT !.table = ""].table = ""
  BY <1>3
<1>a. plan.path.dataset = CASE plan.connector \in {"elastic", "crowdstrike"} -> d
                            [] plan.connector = "sentinel" -> [d EXCEPT !.table = ""]
                            [] OTHER -> [d EXCEPT !.workspace = "", !.table = ""]
  <2> DEFINE c == plan.connector
  <2>1. plan.path = PathOf(c, d)
    BY <1>1
  <2> HIDE DEF c, d
  <2>2. PathOf(c, d).dataset = CASE c \in {"elastic", "crowdstrike"} -> d
                                 [] c = "sentinel" -> [d EXCEPT !.table = ""]
                                 [] OTHER -> [d EXCEPT !.workspace = "", !.table = ""]
    BY DEF PathOf
  <2> QED
    BY <2>1, <2>2 DEF c
<1>b. plan.body.dataset = CASE plan.connector \in {"elastic", "crowdstrike"} -> [d EXCEPT !.workspace = "", !.table = ""]
                            [] plan.connector = "sentinel" -> [d EXCEPT !.workspace = ""]
                            [] OTHER -> d
  <2>1. BodyOf(s).dataset =
           CASE s.connector \in {"elastic", "crowdstrike"} -> [s.dataset EXCEPT !.workspace = "", !.table = ""]
             [] s.connector = "sentinel" -> [s.dataset EXCEPT !.workspace = ""]
             [] OTHER -> s.dataset
    BY DEF BodyOf
  <2> QED
    BY <1>2, <1>4, <2>1
<1>9. CASE plan.connector \in {"elastic", "crowdstrike"}
  <2>1. plan.path.dataset = d /\ plan.body.dataset = [d EXCEPT !.workspace = "", !.table = ""]
    BY <1>9, <1>a, <1>b
  <2> HIDE DEF d
  <2>2. /\ {plan.path.dataset.workspace, plan.body.dataset.workspace} \ {""} = {d.workspace} \ {""}
        /\ {plan.path.dataset.table, plan.body.dataset.table} \ {""} = {d.table} \ {""}
    BY <1>8, <2>1
  <2> QED
    BY <1>5, <1>6, <1>7, <2>2 DEF d
<1>10. CASE plan.connector = "sentinel"
  <2>1. plan.path.dataset = [d EXCEPT !.table = ""] /\ plan.body.dataset = [d EXCEPT !.workspace = ""]
    BY <1>10, <1>a, <1>b
  <2> HIDE DEF d
  <2>2. /\ {plan.path.dataset.workspace, plan.body.dataset.workspace} \ {""} = {d.workspace} \ {""}
        /\ {plan.path.dataset.table, plan.body.dataset.table} \ {""} = {d.table} \ {""}
    BY <1>8, <2>1
  <2> QED
    BY <1>5, <1>6, <1>7, <2>2 DEF d
<1>11. CASE plan.connector \notin {"elastic", "crowdstrike", "sentinel"}
  <2>1. plan.path.dataset = [d EXCEPT !.workspace = "", !.table = ""] /\ plan.body.dataset = d
    BY <1>11, <1>a, <1>b
  <2> HIDE DEF d
  <2>2. /\ {plan.path.dataset.workspace, plan.body.dataset.workspace} \ {""} = {d.workspace} \ {""}
        /\ {plan.path.dataset.table, plan.body.dataset.table} \ {""} = {d.table} \ {""}
    BY <1>8, <2>1
  <2> QED
    BY <1>5, <1>6, <1>7, <2>2 DEF d
<1> QED
  BY <1>9, <1>10, <1>11

LEMMA Exchanging ==
    ASSUME ExchangeInv, NEW question \in {Asked, Polled}, NEW answer \in Answers, NEW pc
    PROVE  LET e == Exchanged(question, answer, pc)
           IN  /\ e = [pc |-> pc, sent |-> e.sent, answers |-> e.answers, bytes |-> e.bytes, events |-> exchange.events]
               /\ e.sent \in Seq({Asked, Polled}) /\ e.answers \in Seq(Answers) /\ e.bytes \in Nat
               /\ e.bytes = Counted(e.answers) /\ Len(e.answers) = Len(e.sent)
               /\ Len(e.sent) = Len(exchange.sent) + 1 /\ e.sent # <<>> /\ e.answers # <<>>
               /\ e.sent[1] = IF exchange.sent = <<>> THEN question ELSE exchange.sent[1]
               /\ e.answers[1] = IF exchange.sent = <<>> THEN answer ELSE exchange.answers[1]
               /\ Last(e.answers) = answer
<1> DEFINE e == Exchanged(question, answer, pc)
           x == exchange
           sent == x.sent
           answers == x.answers
<1>1. /\ x \in [pc : {"planned", "refused", "issue", "request", "poll", "failed", "completed"},
                sent : Seq({Asked, Polled}), answers : Seq(Answers), bytes : Nat, events : Seq(Items)]
      /\ x.bytes = Counted(answers) /\ Len(answers) = Len(sent)
  BY DEF ExchangeInv
<1>2. e = [x EXCEPT !.sent = Append(sent, question), !.answers = Append(answers, answer),
                    !.bytes = x.bytes + Size(answer), !.pc = pc]
  BY DEF Exchanged
<1> HIDE DEF e, x
<1>3. e = [pc |-> pc, sent |-> Append(sent, question), answers |-> Append(answers, answer),
           bytes |-> x.bytes + Size(answer), events |-> x.events]
  BY <1>1, <1>2
<1>4. /\ e.sent = Append(sent, question) /\ e.answers = Append(answers, answer) /\ e.bytes = x.bytes + Size(answer)
      /\ e = [pc |-> pc, sent |-> e.sent, answers |-> e.answers, bytes |-> e.bytes, events |-> x.events]
  BY <1>3
<1>5. sent \in Seq({Asked, Polled}) /\ answers \in Seq(Answers) /\ x.bytes \in Nat
  BY <1>1
<1> HIDE DEF sent, answers
<1>6. e.sent \in Seq({Asked, Polled}) /\ Len(e.sent) = Len(sent) + 1 /\ Len(sent) \in Nat
      /\ e.sent[Len(sent) + 1] = question /\ \A n \in 1 .. Len(sent) : e.sent[n] = sent[n]
  BY <1>4, <1>5, AppendProperties, LenProperties
<1>7. e.answers \in Seq(Answers) /\ Len(e.answers) = Len(answers) + 1 /\ Len(answers) \in Nat
      /\ e.answers[Len(answers) + 1] = answer /\ \A n \in 1 .. Len(answers) : e.answers[n] = answers[n]
  BY <1>4, <1>5, AppendProperties, LenProperties
<1>8. e.bytes \in Nat /\ e.bytes = Counted(e.answers)
  BY <1>1, <1>4, <1>5, CountedOneMore DEF answers
<1>9. Len(answers) = Len(sent) /\ (sent = <<>> <=> Len(sent) = 0)
  BY <1>1, <1>5, EmptySeq DEF sent, answers
<1>10. Last(e.answers) = answer
  BY <1>7 DEF Last
<1>11. e.sent # <<>> /\ e.answers # <<>>
  BY <1>6, <1>7
<1>12. sent # <<>> => 1 \in 1 .. Len(sent) /\ 1 \in 1 .. Len(answers)
  BY <1>6, <1>9
<1>13. /\ e.sent[1] = IF sent = <<>> THEN question ELSE sent[1]
       /\ e.answers[1] = IF sent = <<>> THEN answer ELSE answers[1]
  BY <1>6, <1>7, <1>9, <1>12
<1> QED
  BY <1>4, <1>6, <1>7, <1>8, <1>9, <1>10, <1>11, <1>13 DEF e, x, sent, answers

\* An exchange that goes on or fails keeps the invariant, and so does one that completes with
\* the records of its last answer.
LEMMA Concluding ==
    ASSUME ExchangeInv, PlanShaped, plan' = plan, Generated(plan),
           NEW question \in {Asked, Polled}, NEW answer \in Answers, NEW pc \in {"poll", "failed"},
           exchange.sent = <<>> => question = Asked, Len(exchange.sent) <= MaxPolls,
           pc = "poll" => /\ plan.connector = "panther" /\ Len(exchange.sent) < MaxPolls
                          /\ IF exchange.sent = <<>> THEN answer.id ELSE exchange.answers[1].id,
           \/ exchange' = Exchanged(question, answer, pc)
           \/ /\ exchange' = Resulting(Exchanged(question, answer, "completed"), Extracted(answer, plan.connector))
              /\ answer.transport = "ok"
              /\ plan.connector = "panther" =>
                    exchange.sent # <<>> /\ answer.status = "succeeded" /\ exchange.answers[1].id
    PROVE  ExchangeInv'
<1>1. Asked' = Asked /\ Polled' = Polled /\ (Generated(plan))' = Generated(plan)
  BY DEF Asked, Polled, Generated
<1>2. Len(exchange.sent) \in Nat /\ MaxPolls \in Nat /\ exchange.events \in Seq(Items)
      /\ (exchange.sent # <<>> => exchange.sent[1] = Asked)
  <2>1. exchange.sent \in Seq({Asked, Polled}) /\ exchange.events \in Seq(Items)
    BY DEF ExchangeInv
  <2>2. exchange.sent # <<>> => exchange.sent[1] = Asked
    BY DEF ExchangeInv
  <2> QED
    BY <2>1, <2>2, LenProperties, QueryAssumption
<1>3. CASE exchange' = Exchanged(question, answer, pc)
  <2> DEFINE e == Exchanged(question, answer, pc)
  <2>1. /\ e = [pc |-> pc, sent |-> e.sent, answers |-> e.answers, bytes |-> e.bytes, events |-> exchange.events]
        /\ e.sent \in Seq({Asked, Polled}) /\ e.answers \in Seq(Answers) /\ e.bytes \in Nat
        /\ e.bytes = Counted(e.answers) /\ Len(e.answers) = Len(e.sent)
        /\ Len(e.sent) = Len(exchange.sent) + 1 /\ e.sent # <<>> /\ e.answers # <<>>
        /\ e.sent[1] = IF exchange.sent = <<>> THEN question ELSE exchange.sent[1]
        /\ e.answers[1] = IF exchange.sent = <<>> THEN answer ELSE exchange.answers[1]
    BY Exchanging
  <2>2. exchange' = e
    BY <1>3
  <2> HIDE DEF e
  <2>3. e.pc = pc /\ e \in [pc : {"planned", "refused", "issue", "request", "poll", "failed", "completed"},
                             sent : Seq({Asked, Polled}), answers : Seq(Answers), bytes : Nat, events : Seq(Items)]
    BY <1>2, <2>1
  <2>4. e.sent[1] = Asked
    BY <1>2, <2>1
  <2>5. pc = "poll" => plan.connector = "panther" /\ Len(e.sent) \in 1 .. MaxPolls /\ e.answers[1].id
    BY <1>2, <2>1
  <2>6. Len(e.sent) <= MaxPolls + 1
    BY <1>2, <2>1
  <2> QED
    BY <1>1, <2>1, <2>2, <2>3, <2>4, <2>5, <2>6 DEF ExchangeInv
<1>4. CASE /\ exchange' = Resulting(Exchanged(question, answer, "completed"), Extracted(answer, plan.connector))
           /\ answer.transport = "ok"
           /\ plan.connector = "panther" =>
                 exchange.sent # <<>> /\ answer.status = "succeeded" /\ exchange.answers[1].id
  <2> DEFINE e == Exchanged(question, answer, "completed")
             cut == Cut(Extracted(answer, plan.connector), plan.limit)
             r == Resulting(e, Extracted(answer, plan.connector))
  <2>1. /\ e = [pc |-> "completed", sent |-> e.sent, answers |-> e.answers, bytes |-> e.bytes, events |-> exchange.events]
        /\ e.sent \in Seq({Asked, Polled}) /\ e.answers \in Seq(Answers) /\ e.bytes \in Nat
        /\ e.bytes = Counted(e.answers) /\ Len(e.answers) = Len(e.sent)
        /\ Len(e.sent) = Len(exchange.sent) + 1 /\ e.sent # <<>> /\ e.answers # <<>>
        /\ e.sent[1] = IF exchange.sent = <<>> THEN question ELSE exchange.sent[1]
        /\ e.answers[1] = IF exchange.sent = <<>> THEN answer ELSE exchange.answers[1]
        /\ Last(e.answers) = answer
    BY Exchanging
  <2>2. exchange' = r /\ r = [e EXCEPT !.pc = "completed", !.events = cut]
    BY <1>4 DEF Resulting
  <2>3. cut \in Seq(Items)
    <3>1. Extracted(answer, plan.connector) \in Seq(Items)
      BY ExtractedType
    <3>2. plan.limit \in 1 .. MaxRecords
      BY GeneratedPlan
    <3>3. plan.limit \in Nat
      BY <3>2, QueryAssumption
    <3> QED
      BY <3>1, <3>3, CutIsPrefix
  <2> HIDE DEF e, r, cut
  <2>4. /\ r.pc = "completed" /\ r.sent = e.sent /\ r.answers = e.answers /\ r.bytes = e.bytes /\ r.events = cut
        /\ r \in [pc : {"planned", "refused", "issue", "request", "poll", "failed", "completed"},
                  sent : Seq({Asked, Polled}), answers : Seq(Answers), bytes : Nat, events : Seq(Items)]
    <3>1. r = [pc |-> "completed", sent |-> e.sent, answers |-> e.answers, bytes |-> e.bytes, events |-> cut]
      BY <2>1, <2>2
    <3> QED
      BY <2>1, <2>3, <3>1
  <2>5. r.sent[1] = Asked
    BY <1>2, <2>1, <2>4
  <2>6. /\ r.answers # <<>> /\ Last(r.answers).transport = "ok"
        /\ plan.connector = "panther" => Last(r.answers).status = "succeeded" /\ r.answers[1].id
        /\ r.events = Cut(Extracted(Last(r.answers), plan.connector), plan.limit)
    BY <1>4, <2>1, <2>4 DEF cut
  <2>7. Len(r.sent) <= MaxPolls + 1
    BY <1>2, <2>1, <2>4
  <2>8. /\ (Last(exchange.answers))' = Last(r.answers) /\ (Extracted(Last(exchange.answers), plan.connector))' = Extracted(Last(r.answers), plan.connector)
        /\ exchange' = r
    BY <2>2 DEF Extracted
  <2> QED
    BY <1>1, <2>1, <2>4, <2>5, <2>6, <2>7, <2>8 DEF ExchangeInv
<1> QED
  BY <1>3, <1>4

LEMMA QueryStep == QueryInv /\ [Next]_vars => QueryInv'
<1> SUFFICES ASSUME QueryInv, [Next]_vars PROVE QueryInv'
  OBVIOUS
<1>1. CASE UNCHANGED queryVars
  <2>1. Asked' = Asked /\ Polled' = Polled /\ (Generated(plan))' = Generated(plan) /\ PlanShaped' = PlanShaped
    BY <1>1 DEF Asked, Polled, Generated, queryVars, PlanShaped
  <2>2. ExchangeInv' = ExchangeInv
    BY <1>1, <2>1 DEF ExchangeInv, queryVars, Extracted
  <2> QED
    BY <1>1, <2>1, <2>2 DEF QueryInv, queryVars
<1>2. ASSUME NEW s \in Specifications, NEW f \in DOMAIN plan, Forge(s, f) PROVE QueryInv'
  <2>1. exchange.pc = "planned" /\ plan' = [plan EXCEPT ![f] = Built(s)[f]] /\ exchange' = exchange
    BY <1>2 DEF Forge
  <2>2. PlanShaped /\ ExchangeInv
    BY <2>1 DEF QueryInv
  <2>3. PlanShaped'
    <3>1. DOMAIN plan' = PlanFields /\ f \in PlanFields /\ plan'[f] = Built(s)[f]
          /\ \A g \in PlanFields : g # f => plan'[g] = plan[g]
      BY <1>2, <2>1, <2>2 DEF PlanShaped
    <3> QED
      BY <2>2, <3>1 DEF PlanShaped
  <2>4. exchange.sent = <<>> /\ <<>> \in Seq({Asked', Polled'})
    BY <2>1, <2>2 DEF ExchangeInv
  <2>5. exchange \in [pc : {"planned", "refused", "issue", "request", "poll", "failed", "completed"},
                      sent : Seq({Asked', Polled'}), answers : Seq(Answers), bytes : Nat, events : Seq(Items)]
    <3> DEFINE A == Seq({Asked', Polled'})
               B == Seq({Asked, Polled})
    <3>1. exchange \in [pc : {"planned", "refused", "issue", "request", "poll", "failed", "completed"},
                        sent : B, answers : Seq(Answers), bytes : Nat, events : Seq(Items)]
      BY <2>2 DEF ExchangeInv
    <3>2. exchange.sent \in A
      BY <2>4
    <3> HIDE DEF A, B
    <3>3. exchange \in [pc : {"planned", "refused", "issue", "request", "poll", "failed", "completed"},
                        sent : A, answers : Seq(Answers), bytes : Nat, events : Seq(Items)]
      BY <3>1, <3>2
    <3> QED
      BY <3>3 DEF A
  <2>6. ExchangeInv'
    BY <2>1, <2>2, <2>4, <2>5 DEF ExchangeInv
  <2> QED
    BY <2>3, <2>6 DEF QueryInv
<1>3. ASSUME exchange.pc # "none", UNCHANGED <<plan, planEdits>>
      PROVE  PlanShaped /\ ExchangeInv /\ PlanShaped' /\ plan' = plan
  <2>1. PlanShaped /\ ExchangeInv /\ plan' = plan
    BY <1>3 DEF QueryInv
  <2> QED
    BY <2>1 DEF PlanShaped
<1>4. ASSUME NEW allowed, NEW environment, Execute(allowed, environment) PROVE QueryInv'
  <2>1. /\ exchange.pc = "planned"
        /\ exchange' = IF allowed /\ Generated(plan) /\ plan.credential \in environment
                       THEN [exchange EXCEPT !.pc = IF plan.connector = "panther" THEN "issue" ELSE "request"]
                       ELSE [exchange EXCEPT !.pc = "refused"]
        /\ PlanShaped /\ ExchangeInv /\ PlanShaped' /\ plan' = plan
    BY <1>3, <1>4 DEF Execute
  <2>2. PICK pc \in {"refused", "issue", "request"} :
           /\ exchange' = [exchange EXCEPT !.pc = pc]
           /\ pc # "refused" => Generated(plan)
           /\ pc = "issue" => plan.connector = "panther"
           /\ pc = "request" => plan.connector # "panther"
    <3>1. CASE allowed /\ Generated(plan) /\ plan.credential \in environment
      BY <2>1, <3>1
    <3>2. CASE ~(allowed /\ Generated(plan) /\ plan.credential \in environment)
      BY <2>1, <3>2
    <3> QED
      BY <3>1, <3>2
  <2>3. Asked' = Asked /\ Polled' = Polled /\ (Generated(plan))' = Generated(plan)
    BY <2>1 DEF Asked, Polled, Generated
  <2>4. /\ exchange \in [pc : {"planned", "refused", "issue", "request", "poll", "failed", "completed"},
                         sent : Seq({Asked, Polled}), answers : Seq(Answers), bytes : Nat, events : Seq(Items)]
        /\ exchange.sent = <<>> /\ exchange.bytes = Counted(exchange.answers)
        /\ Len(exchange.answers) = Len(exchange.sent) /\ Len(exchange.sent) <= MaxPolls + 1
    BY <2>1 DEF ExchangeInv
  <2>5. /\ exchange'.pc = pc /\ exchange'.sent = exchange.sent /\ exchange'.answers = exchange.answers
        /\ exchange'.bytes = exchange.bytes
        /\ exchange' \in [pc : {"planned", "refused", "issue", "request", "poll", "failed", "completed"},
                          sent : Seq({Asked, Polled}), answers : Seq(Answers), bytes : Nat, events : Seq(Items)]
    <3> DEFINE A == Seq({Asked, Polled})
    <3>1. exchange \in [pc : {"planned", "refused", "issue", "request", "poll", "failed", "completed"},
                        sent : A, answers : Seq(Answers), bytes : Nat, events : Seq(Items)]
      BY <2>4
    <3> HIDE DEF A
    <3>2. /\ exchange'.pc = pc /\ exchange'.sent = exchange.sent /\ exchange'.answers = exchange.answers
          /\ exchange'.bytes = exchange.bytes
          /\ exchange' \in [pc : {"planned", "refused", "issue", "request", "poll", "failed", "completed"},
                            sent : A, answers : Seq(Answers), bytes : Nat, events : Seq(Items)]
      BY <2>2, <3>1
    <3> QED
      BY <3>2 DEF A
  <2>6. ExchangeInv'
    BY <2>1, <2>2, <2>3, <2>4, <2>5 DEF ExchangeInv
  <2> QED
    BY <2>1, <2>6 DEF QueryInv
<1>5. ASSUME NEW answer \in Answers, SingleRequest(answer) PROVE QueryInv'
  <2>1. /\ exchange.pc = "request" /\ PlanShaped /\ ExchangeInv /\ PlanShaped' /\ plan' = plan
        /\ exchange' = IF answer.transport # "ok" THEN Exchanged(Asked, answer, "failed")
                       ELSE Resulting(Exchanged(Asked, answer, "completed"), Extracted(answer, plan.connector))
    BY <1>3, <1>5 DEF SingleRequest
  <2>2. Generated(plan) /\ plan.connector # "panther" /\ exchange.sent = <<>> /\ Len(exchange.sent) <= MaxPolls
    <3>1. Generated(plan) /\ plan.connector # "panther" /\ exchange.sent = <<>>
      BY <2>1 DEF ExchangeInv
    <3> QED
      BY <3>1, QueryAssumption, EmptySeq
  <2>3. ExchangeInv'
    BY <2>1, <2>2, Concluding
  <2> QED
    BY <2>1, <2>3 DEF QueryInv
<1>6. ASSUME NEW answer \in Answers, IssueQuery(answer) PROVE QueryInv'
  <2> DEFINE pc == IF answer.transport = "ok" /\ answer.id THEN "poll" ELSE "failed"
  <2>1. /\ exchange.pc = "issue" /\ PlanShaped /\ ExchangeInv /\ PlanShaped' /\ plan' = plan
        /\ exchange' = Exchanged(Asked, answer, pc)
    BY <1>3, <1>6 DEF IssueQuery
  <2>2. Generated(plan) /\ plan.connector = "panther" /\ exchange.sent = <<>> /\ Len(exchange.sent) < MaxPolls
        /\ Len(exchange.sent) <= MaxPolls
    <3>1. Generated(plan) /\ plan.connector = "panther" /\ exchange.sent = <<>>
      BY <2>1 DEF ExchangeInv
    <3>2. MaxPolls \in Nat \ {0} /\ Len(<<>>) = 0
      BY QueryAssumption
    <3> QED
      BY <3>1, <3>2
  <2>3. pc \in {"poll", "failed"} /\ (pc = "poll" => answer.id)
    OBVIOUS
  <2> HIDE DEF pc
  <2>4. ExchangeInv'
    BY <2>1, <2>2, <2>3, Concluding
  <2> QED
    BY <2>1, <2>4 DEF QueryInv
<1>7. ASSUME NEW answer \in Answers, Poll(answer) PROVE QueryInv'
  <2>1. /\ exchange.pc = "poll" /\ PlanShaped /\ ExchangeInv /\ PlanShaped' /\ plan' = plan
        /\ \/ /\ answer.transport = "ok" /\ answer.status = "succeeded"
              /\ exchange' = Resulting(Exchanged(Polled, answer, "completed"), Extracted(answer, plan.connector))
           \/ Len(exchange.sent) < MaxPolls /\ exchange' = Exchanged(Polled, answer, "poll")
           \/ exchange' = Exchanged(Polled, answer, "failed")
    BY <1>3, <1>7 DEF Poll
  <2>2. /\ Generated(plan) /\ plan.connector = "panther" /\ exchange.sent # <<>> /\ Len(exchange.sent) <= MaxPolls
        /\ exchange.answers[1].id
    <3>1. /\ Generated(plan) /\ plan.connector = "panther" /\ Len(exchange.sent) \in 1 .. MaxPolls
          /\ exchange.answers[1].id
      BY <2>1 DEF ExchangeInv
    <3>2. exchange.sent # <<>>
      BY <3>1, EmptySeq
    <3> QED
      BY <3>1, <3>2, QueryAssumption
  <2>3. CASE /\ answer.transport = "ok" /\ answer.status = "succeeded"
             /\ exchange' = Resulting(Exchanged(Polled, answer, "completed"), Extracted(answer, plan.connector))
    BY <2>1, <2>2, <2>3, Concluding DEF QueryInv
  <2>4. CASE Len(exchange.sent) < MaxPolls /\ exchange' = Exchanged(Polled, answer, "poll")
    BY <2>1, <2>2, <2>4, Concluding DEF QueryInv
  <2>5. CASE exchange' = Exchanged(Polled, answer, "failed")
    BY <2>1, <2>2, <2>5, Concluding DEF QueryInv
  <2> QED
    BY <2>1, <2>3, <2>4, <2>5
<1>8. CASE QueryNext
  BY <1>2, <1>4, <1>5, <1>6, <1>7, <1>8 DEF QueryNext
<1>9. QueryNext \/ UNCHANGED queryVars
  BY DEF Next, Deliver, Convert, Observe, Tune, LoseAlert, Slow, Ask, vars
<1> QED
  BY <1>1, <1>8, <1>9

\* For any specifications, changes of the plan and answers: what is asked and what comes of it
\* is what the plan says.
LEMMA QueryAnswered == QueryInv => QueryAnswersItsPlan
<1> SUFFICES ASSUME QueryInv, exchange.pc # "none" PROVE QueryAnswersItsPlan
  BY DEF QueryAnswersItsPlan
<1>1. PlanShaped /\ ExchangeInv
  BY DEF QueryInv
<1>2. /\ exchange.sent \in Seq({Asked, Polled}) /\ exchange.answers \in Seq(Answers)
      /\ exchange.bytes = Counted(exchange.answers) /\ Len(exchange.sent) <= MaxPolls + 1
      /\ exchange.pc \in {"planned", "refused"} => exchange.sent = <<>>
      /\ exchange.pc \notin {"planned", "refused"} => Generated(plan)
      /\ exchange.sent # <<>> => exchange.sent[1] = Asked
  BY <1>1 DEF ExchangeInv
<1>3. ASSUME exchange.sent # <<>>
      PROVE  LET asked == exchange.sent[1] IN
             /\ OriginAccepted(asked.origin) /\ asked.origin = plan.origin
             /\ \A n \in DOMAIN exchange.sent : exchange.sent[n].credential = plan.credential
             /\ {asked.path.dataset.workspace, asked.body.dataset.workspace} \ {""} = {plan.dataset.workspace} \ {""}
             /\ {asked.path.dataset.table, asked.body.dataset.table} \ {""} = {plan.dataset.table} \ {""}
             /\ asked.body.target = plan.target /\ asked.body.field = plan.field /\ asked.body.limit = plan.limit
             /\ plan.limit <= MaxRecords /\ plan.until - plan.since <= MaxWindow
             /\ asked.body.since \in plan.since - Second + 1 .. plan.since
             /\ asked.body.until \in plan.until - Second + 1 .. plan.until
  <2>1. Asked.origin = plan.origin /\ Asked.path = plan.path /\ Asked.body = plan.body
    BY DEF Asked
  <2>2. Asked.credential = plan.credential /\ Polled.credential = plan.credential
    BY DEF Asked, Polled
  <2>3. \A n \in DOMAIN exchange.sent : exchange.sent[n] \in {Asked, Polled}
    BY <1>2
  <2>4. \A n \in DOMAIN exchange.sent : exchange.sent[n].credential = plan.credential
    BY <2>2, <2>3
  <2>5. plan.limit \in 1 .. MaxRecords
    BY <1>1, <1>2, <1>3, GeneratedPlan
  <2>6. plan.limit <= MaxRecords
    BY <2>5
  <2> QED
    BY <1>1, <1>2, <1>3, <2>1, <2>4, <2>6, GeneratedPlan
<1>4. ASSUME exchange.pc = "completed"
      PROVE  LET answer == Last(exchange.answers) IN
             /\ answer.transport = "ok"
             /\ plan.connector = "panther" => answer.status = "succeeded" /\ exchange.answers[1].id
             /\ Len(exchange.events) <= plan.limit
             /\ IsPrefix(exchange.events, Extracted(answer, plan.connector))
             /\ exchange.bytes = Counted(exchange.answers)
  <2> DEFINE answer == Last(exchange.answers)
  <2>1. /\ exchange.answers # <<>> /\ answer.transport = "ok"
        /\ plan.connector = "panther" => answer.status = "succeeded" /\ exchange.answers[1].id
        /\ exchange.events = Cut(Extracted(answer, plan.connector), plan.limit)
    BY <1>1, <1>4 DEF ExchangeInv
  <2>2. answer \in Answers
    BY <1>2, <2>1, EmptySeq DEF Last
  <2>3. plan.limit \in 1 .. MaxRecords
    BY <1>1, <1>2, <1>4, GeneratedPlan
  <2>4. plan.limit \in Nat
    BY <2>3, QueryAssumption
  <2> HIDE DEF answer
  <2>5. Extracted(answer, plan.connector) \in Seq(Items)
    BY <2>2, ExtractedType
  <2>6. Len(exchange.events) <= plan.limit /\ IsPrefix(exchange.events, Extracted(answer, plan.connector))
    BY <2>1, <2>4, <2>5, CutIsPrefix
  <2> QED
    BY <1>2, <2>1, <2>6 DEF answer
<1> QED
  BY <1>2, <1>3, <1>4 DEF QueryAnswersItsPlan

LEMMA QueryStart == Init => QueryInv
<1> SUFFICES ASSUME Init, exchange.pc # "none" PROVE PlanShaped /\ ExchangeInv
  BY DEF QueryInv
<1>1. QueryInit
  BY DEF Init, Unsent
<1>2. PICK s \in Specifications : plan = Built(s)
  BY <1>1 DEF QueryInit
<1>3. PlanShaped
  <2>1. DOMAIN plan = PlanFields
    BY <1>2 DEF Built, PlanFields
  <2> QED
    BY <1>2, <2>1 DEF PlanShaped
<1>4. exchange = [pc |-> "planned", sent |-> <<>>, answers |-> <<>>, bytes |-> 0, events |-> <<>>]
  BY <1>1 DEF QueryInit, Unsent
<1>5. Counted(<<>>) = 0
  <2>1. [n \in DOMAIN <<>> |-> <<>>[n].items] = <<>>
    OBVIOUS
  <2>2. FlattenSeq(<<>>) = <<>>
    BY DEF FlattenSeq
  <2> QED
    BY <2>1, <2>2 DEF Counted
<1>6. /\ exchange.pc = "planned" /\ exchange.sent = <<>> /\ exchange.answers = <<>> /\ exchange.bytes = 0
      /\ exchange \in [pc : {"planned", "refused", "issue", "request", "poll", "failed", "completed"},
                       sent : Seq({Asked, Polled}), answers : Seq(Answers), bytes : Nat, events : Seq(Items)]
  <2> DEFINE A == Seq({Asked, Polled})
  <2>1. <<>> \in A
    OBVIOUS
  <2> HIDE DEF A
  <2>2. /\ exchange.pc = "planned" /\ exchange.sent = <<>> /\ exchange.answers = <<>> /\ exchange.bytes = 0
        /\ exchange \in [pc : {"planned", "refused", "issue", "request", "poll", "failed", "completed"},
                         sent : A, answers : Seq(Answers), bytes : Nat, events : Seq(Items)]
    BY <1>4, <2>1
  <2> QED
    BY <2>2 DEF A
<1>7. Len(<<>>) = 0 /\ 0 <= MaxPolls + 1
  BY QueryAssumption
<1> QED
  BY <1>3, <1>5, <1>6, <1>7 DEF ExchangeInv

\* The evidence of a run is its own, for any lifecycle and telemetry, and any query.
THEOREM EvidenceIsRuns == Spec => []EvidenceIsCorrelated
<1>1. Init => CorrelationInv
  <2> SUFFICES ASSUME Init, study = "correlation" PROVE CorrelationInv
    BY DEF CorrelationInv
  <2>1. recorded \in Lifecycles /\ telemetry \in Evidence /\ lifecycle = <<>>
    BY DEF Init
  <2> QED
    BY <2>1 DEF CorrelationInv
<1>2. CorrelationInv /\ QueryInv => EvidenceIsCorrelated
  BY CorrelationComplete, QueryAnswered DEF EvidenceIsCorrelated
<1> QED
  BY <1>1, <1>2, CorrelationStep, QueryStart, QueryStep, PTL DEF Spec

-----------------------------------------------------------------------------
(* Feedback.                                                                   *)

BundleInv ==
    /\ study = "window" => corpus \in Corpora /\ bundle \in corpus.bundles
    /\ \E S : window \in Seq(S)

LEMMA BundleStep == BundleInv /\ [Next]_vars => BundleInv'
<1> SUFFICES ASSUME BundleInv, [Next]_vars PROVE BundleInv'
  OBVIOUS
<1>1. study' = study /\ corpus' = corpus /\ bundle' = bundle
  BY DEF Next, Deliver, Convert, Observe, Tune, LoseAlert, Slow, Ask, vars, windowVars
<1>2. PICK S : window \in Seq(S)
  BY DEF BundleInv
<1>3. ASSUME NEW e, window' = Append(window, e) PROVE \E U : window' \in Seq(U)
  <2>1. Append(window, e) \in Seq(S \union {e})
    BY <1>2
  <2> QED
    BY <1>3, <2>1
<1>4. ASSUME NEW profile, window' = Converted(window, profile) PROVE \E U : window' \in Seq(U)
  <2> DEFINE U == {Import(Export(window[i], profile)) : i \in DOMAIN window}
             w == [i \in DOMAIN window |-> Import(Export(window[i], profile))]
  <2>1. DOMAIN window = 1 .. Len(window) /\ Len(window) \in Nat
    BY <1>2
  <2>2. w \in [1 .. Len(window) -> U]
    BY <2>1
  <2>3. window' = w
    BY <1>4 DEF Converted
  <2> HIDE DEF w, U
  <2>4. w \in Seq(U)
    BY <2>1, <2>2, IsASeq
  <2> QED
    BY <2>3, <2>4
<1>5. window' = window \/ (\E e : window' = Append(window, e)) \/ (\E profile : window' = Converted(window, profile))
  BY DEF Next, Deliver, Convert, Observe, Tune, LoseAlert, Slow, Ask, vars, windowVars
<1>6. \E U : window' \in Seq(U)
  BY <1>2, <1>3, <1>4, <1>5
<1> QED
  BY <1>1, <1>6 DEF BundleInv

\* A clean report has neither a conflict nor an alert that did not match.
LEMMA CleanStatus ==
    ASSUME NEW w, NEW findings, NEW feedback, FeedbackStatus(w, findings, feedback) = "clean"
    PROVE  /\ Conflicts(w, findings, feedback) = {}
           /\ \A a \in feedback.alerts : Reconcile(w, a).status = "matched"
<1> DEFINE conflicts == Conflicts(w, findings, feedback)
           statuses == Statuses(w, feedback)
           medium == {"annotation_target_unresolved", "annotation_evidence_unresolved"}
<1>1. "clean" = CASE "annotation_evidence_digest_mismatch" \in conflicts -> "critical"
                  [] "annotation_evidence_digest_mismatch" \notin conflicts
                        /\ (conflicts \ medium # {} \/ "ambiguous" \in statuses) -> "elevated"
                  [] conflicts # {} /\ conflicts \subseteq medium -> "review"
                  [] conflicts = {} /\ "unmatched" \in statuses -> "review"
                  [] OTHER -> "clean"
  BY DEF FeedbackStatus
<1>2. "ambiguous" \in statuses => "alert_trace_evidence_conflict" \in conflicts
  BY DEF Conflicts
<1> HIDE DEF conflicts, statuses
<1>3. conflicts = {} /\ "unmatched" \notin statuses
  BY <1>1
<1>4. \A a \in feedback.alerts : Reconcile(w, a).status \in statuses
  BY DEF Statuses, statuses
<1>5. \A a \in feedback.alerts : Reconcile(w, a).status \in {"matched", "ambiguous", "unmatched"}
  BY DEF Reconcile
<1> QED
  BY <1>2, <1>3, <1>4, <1>5 DEF conflicts

LEMMA EvidenceIsThere ==
    ASSUME NEW S, NEW w \in Seq(S), NEW id \in Ids(w)
    PROVE  EvidenceAt(w, id) \in DOMAIN w /\ w[EvidenceAt(w, id)].id = id
<1> DEFINE P == {i \in DOMAIN w : w[i].id = id}
           self == [i \in P |-> i]
<1>1. P \in SUBSET (1 .. Len(w)) /\ P # {} /\ Len(w) \in Nat
  BY DEF Ids
<1>2. \A i \in P : i \in Int /\ self[i] = i /\ self[i] \in Int
  BY <1>1
<1>3. PICK i \in P : \A j \in P : self[j] <= self[i]
  <2> HIDE DEF P, self
  <2> QED
    BY <1>1, <1>2, Greatest
<1>4. \A j \in P : i >= j
  BY <1>2, <1>3
<1>5. EvidenceAt(w, id) = CHOOSE x \in P : \A y \in P : x >= y
  BY DEF EvidenceAt, Max
<1>6. EvidenceAt(w, id) \in P
  <2> HIDE DEF P
  <2> QED
    BY <1>4, <1>5
<1> QED
  BY <1>6

\* What a matched alert says of its trace.
LEMMA MatchedAlert ==
    ASSUME NEW S, NEW w \in Seq(S), NEW alert, None \notin alert.evidence, Reconcile(w, alert).status = "matched"
    PROVE  \E t \in Traces(w) :
              /\ Reconcile(w, alert).trace = t /\ alert.trace_id \in {None, t}
              /\ \A i \in DOMAIN w : w[i].id \in alert.evidence /\ w[i].trace_id # None
                    => w[i].trace_id = t \/ i # EvidenceAt(w, w[i].id)
<1> DEFINE evidence == EvidenceTraces(w, alert)
<1>1. ASSUME NEW i \in DOMAIN w, w[i].id \in alert.evidence, w[i].trace_id # None, i = EvidenceAt(w, w[i].id)
      PROVE  w[i].trace_id \in evidence
  <2>1. w[i].id \in alert.evidence \intersect Ids(w)
    BY <1>1 DEF Ids
  <2> QED
    BY <1>1, <2>1 DEF EvidenceTraces
<1>2. ASSUME NEW t \in Traces(w), Reconcile(w, alert).trace = t, alert.trace_id \in {None, t}, evidence \subseteq {t}
      PROVE  \E u \in Traces(w) :
                /\ Reconcile(w, alert).trace = u /\ alert.trace_id \in {None, u}
                /\ \A i \in DOMAIN w : w[i].id \in alert.evidence /\ w[i].trace_id # None
                      => w[i].trace_id = u \/ i # EvidenceAt(w, w[i].id)
  <2> HIDE DEF evidence
  <2> QED
    BY <1>1, <1>2
<1>3. CASE alert.trace_id \in Traces(w) /\ evidence \subseteq {alert.trace_id}
  <2>1. Reconcile(w, alert).trace = alert.trace_id
    BY <1>3 DEF Reconcile
  <2> HIDE DEF evidence
  <2> QED
    BY <1>2, <1>3, <2>1
<1>4. CASE /\ ~(alert.trace_id \in Traces(w) /\ evidence \subseteq {alert.trace_id})
           /\ alert.trace_id = None /\ \E t \in evidence : evidence = {t}
  <2>1. Reconcile(w, alert).trace = CHOOSE t \in evidence : TRUE
    BY <1>4 DEF Reconcile
  <2>2. PICK t \in evidence : evidence = {t}
    BY <1>4
  <2>3. (CHOOSE u \in evidence : TRUE) = t
    BY <2>2
  <2>4. PICK id \in alert.evidence \intersect Ids(w) : t = w[EvidenceAt(w, id)].trace_id
    BY DEF EvidenceTraces
  <2>5. EvidenceAt(w, id) \in DOMAIN w /\ t # None
    <3>1. id \in Ids(w) /\ t # None
      BY DEF EvidenceTraces
    <3> QED
      BY <3>1, EvidenceIsThere
  <2>6. t \in Traces(w)
    BY <2>4, <2>5 DEF Traces
  <2>7. Reconcile(w, alert).trace = t
    BY <2>1, <2>3
  <2> HIDE DEF evidence
  <2> QED
    BY <1>2, <1>4, <2>2, <2>6, <2>7
<1>5. Reconcile(w, alert).status = "matched" =>
         \/ alert.trace_id \in Traces(w) /\ evidence \subseteq {alert.trace_id}
         \/ alert.trace_id = None /\ \E t \in evidence : evidence = {t}
  BY DEF Reconcile
<1> QED
  BY <1>3, <1>4, <1>5

\* A trace with a finding has the severity of a high-risk one.
LEMMA FindingsAreSevere ==
    ASSUME NEW w, NEW findings, NEW f \in findings, NEW trace, TraceOf(w[Last(f.nodes)]) = trace
    PROVE  TraceSeverity(w, findings, trace) \in {"high", "critical"}
<1> DEFINE here == {g \in findings : TraceOf(w[Last(g.nodes)]) = trace}
<1>1. f.code \in Codes(here)
  BY DEF Codes
<1>2. Severity(f.code) \in {"high", "critical"}
  BY DEF Severity
<1>3. TraceSeverity(w, findings, trace) = Highest(Codes(here))
  BY DEF TraceSeverity
<1> HIDE DEF here
<1> QED
  BY <1>1, <1>2, <1>3 DEF Highest

\* What no conflict says of a verdict.
LEMMA UndisputedVerdict ==
    ASSUME NEW w, NEW findings, NEW feedback, NEW v \in feedback.annotations, Conflicts(w, findings, feedback) = {}
    PROVE  /\ v.digest_match # FALSE /\ v.evidence \subseteq Ids(w)
           /\ v.author_type = "agent" => v.disposition = "needs_review"
           /\ v.disposition \in Negative =>
                 \A f \in findings : TraceOf(w[Last(f.nodes)]) # TargetTrace(w, feedback, v.target)
           /\ \A u \in feedback.annotations :
                 u.target = v.target => ~(u.disposition \in Positive /\ v.disposition \in Negative)
<1>1. AnnotationConflicts(w, feedback, v) = {}
  BY DEF Conflicts
<1>2. TargetConflicts(w, findings, feedback, v.target) = {}
  <2>1. v.target \in Targets(feedback)
    BY DEF Targets
  <2> DEFINE all == {TargetConflicts(w, findings, feedback, t) : t \in Targets(feedback)}
  <2>2. TargetConflicts(w, findings, feedback, v.target) \in all
    BY <2>1
  <2> DEFINE unclear == IF "ambiguous" \in Statuses(w, feedback) THEN {"alert_trace_evidence_conflict"} ELSE {}
             verdicts == UNION {AnnotationConflicts(w, feedback, a) : a \in feedback.annotations}
  <2>a. Conflicts(w, findings, feedback) = unclear \union verdicts \union (UNION all)
    BY DEF Conflicts
  <2>3. (UNION all) \subseteq Conflicts(w, findings, feedback)
    <3> HIDE DEF all, unclear, verdicts
    <3> QED
      BY <2>a
  <2> HIDE DEF all
  <2> QED
    BY <2>2, <2>3
<1>3. /\ v.digest_match # FALSE /\ v.evidence \subseteq Ids(w)
      /\ v.author_type = "agent" => v.disposition = "needs_review"
  BY <1>1 DEF AnnotationConflicts
<1>4. \A u \in feedback.annotations : u.target = v.target => u.disposition \in Dispositions(feedback, v.target)
  BY DEF Dispositions
<1>5. /\ ~(Dispositions(feedback, v.target) \intersect Negative # {} /\ Dispositions(feedback, v.target) \intersect Positive # {})
      /\ ~(/\ TargetTrace(w, feedback, v.target) # None /\ Dispositions(feedback, v.target) \intersect Negative # {}
           /\ TraceSeverity(w, findings, TargetTrace(w, feedback, v.target)) \in {"high", "critical"})
  BY <1>2 DEF TargetConflicts
<1>6. ASSUME v.disposition \in Negative, NEW f \in findings,
             TraceOf(w[Last(f.nodes)]) = TargetTrace(w, feedback, v.target)
      PROVE  FALSE
  <2>1. TargetTrace(w, feedback, v.target) # None
    BY <1>6, AnalysisAssumption DEF TraceOf, Or
  <2>2. TraceSeverity(w, findings, TargetTrace(w, feedback, v.target)) \in {"high", "critical"}
    BY <1>6, FindingsAreSevere
  <2> QED
    BY <1>4, <1>5, <1>6, <2>1, <2>2
<1>7. \A u \in feedback.annotations :
         u.target = v.target => ~(u.disposition \in Positive /\ v.disposition \in Negative)
  BY <1>4, <1>5
<1> QED
  BY <1>3, <1>6, <1>7

\* Whatever came of the evidence and whatever feedback there is on it, a report is clean only
\* if it has been earned.
THEOREM CleanIsEarned == Spec => []CleanFeedbackIsEarned
<1>1. Init => BundleInv
  <2>1. ASSUME Init PROVE window \in Seq({})
    BY <2>1 DEF Init
  <2>2. ASSUME Init, study = "window" PROVE corpus \in Corpora /\ bundle \in corpus.bundles
    BY <2>2 DEF Init
  <2> QED
    BY <2>1, <2>2 DEF BundleInv
<1>2. BundleInv => CleanFeedbackIsEarned
  <2> SUFFICES ASSUME BundleInv, study = "window", FeedbackStatus(window, Findings(window), bundle) = "clean"
               PROVE  CleanFeedbackIsEarned
    BY DEF CleanFeedbackIsEarned
  <2>1. PICK S : window \in Seq(S)
    BY DEF BundleInv
  <2>2. \A a \in bundle.alerts : None \notin a.evidence
    BY AnalysisAssumption DEF BundleInv
  <2> DEFINE findings == Findings(window)
  <2>3. Conflicts(window, findings, bundle) = {} /\ \A a \in bundle.alerts : Reconcile(window, a).status = "matched"
    BY CleanStatus
  <2> HIDE DEF findings
  <2>4. \A a \in bundle.alerts :
           \E t \in Traces(window) :
              /\ Reconcile(window, a).trace = t /\ a.trace_id \in {None, t}
              /\ \A i \in DOMAIN window : window[i].id \in a.evidence /\ window[i].trace_id # None
                    => window[i].trace_id = t \/ i # EvidenceAt(window, window[i].id)
    BY <2>1, <2>2, <2>3, MatchedAlert
  <2>5. \A v \in bundle.annotations :
           /\ v.digest_match # FALSE /\ v.evidence \subseteq Ids(window)
           /\ v.author_type = "agent" => v.disposition = "needs_review"
           /\ v.disposition \in Negative =>
                 \A f \in findings : TraceOf(window[Last(f.nodes)]) # TargetTrace(window, bundle, v.target)
           /\ \A u \in bundle.annotations :
                 u.target = v.target => ~(u.disposition \in Positive /\ v.disposition \in Negative)
    BY <2>3, UndisputedVerdict
  <2> QED
    BY <2>4, <2>5 DEF CleanFeedbackIsEarned, findings
<1> QED
  BY <1>1, <1>2, BundleStep, PTL DEF Spec

-----------------------------------------------------------------------------
(* The graph of a window.                                                      *)

\* An event has a time, and a list of causes.
Shaped(e) == e.time \in Int /\ \E S : e.caused_by_event_ids \in Seq(S)

WindowInv == BundleInv /\ \A i \in DOMAIN window : Shaped(window[i])

\* Whatever a standard has no field for, an event that comes back has its time and its causes.
LEMMA ImportShaped ==
    ASSUME NEW e, Shaped(e), NEW profile \in Profiles
    PROVE  Shaped(Import(Export(e, profile)))
<1> DEFINE record == Export(e, profile)
           event  == [f \in EventFields |-> Selected(record, f)]
<1>1. /\ record.native = [f \in NativeFields(profile) |-> NativeValue(e, f, profile)]
      /\ record.extension = [f \in ExtensionFields(e, profile) |-> e[f]]
  BY DEF Export
<1>2. "time" \in NativeFields(profile) /\ "caused_by_event_ids" \notin NativeFields(profile)
  BY DEF NativeFields, Profiles
<1>3. "time" \notin EventFields /\ "caused_by_event_ids" \in EventFields
  BY DEF EventFields
<1>4. NativeValue(e, "time", profile) \in Int
  <2>1. e.time \in Int /\ (e.time \div Millisecond) * Millisecond \in Int
    BY MillisecondAssumption DEF Shaped
  <2> QED
    BY <2>1 DEF NativeValue
<1>5. record.native["time"] \in Int /\ "time" \in DOMAIN record.native
  BY <1>1, <1>2, <1>4
<1>6. Selected(record, "time") \in Int
  <2> HIDE DEF record
  <2> QED
    BY <1>5, AnalysisAssumption DEF Selected
<1>7. \E S : Selected(record, "caused_by_event_ids") \in Seq(S)
  <2>1. "caused_by_event_ids" \notin DOMAIN record.native
    BY <1>1, <1>2
  <2>2. "caused_by_event_ids" \in DOMAIN record.extension =>
           record.extension["caused_by_event_ids"] = e["caused_by_event_ids"]
    BY <1>1
  <2>3. PICK S : e["caused_by_event_ids"] \in Seq(S)
    BY DEF Shaped
  <2>4. <<>> \in Seq(S)
    OBVIOUS
  <2> HIDE DEF record
  <2> QED
    BY <2>1, <2>2, <2>3, <2>4 DEF Selected
<1>8. Import(record) = Normalized(event, Selected(record, "time"))
  BY DEF Import
<1> HIDE DEF record
<1>9. /\ Import(record).time = Selected(record, "time")
      /\ Import(record).caused_by_event_ids = Selected(record, "caused_by_event_ids")
  BY <1>3, <1>8 DEF Normalized
<1> QED
  BY <1>6, <1>7, <1>9 DEF Shaped, record

LEMMA WindowStep == WindowInv /\ [Next]_vars => WindowInv'
<1> SUFFICES ASSUME WindowInv, [Next]_vars PROVE WindowInv'
  OBVIOUS
<1>1. BundleInv'
  BY BundleStep DEF WindowInv
<1>2. PICK S : window \in Seq(S)
  BY DEF WindowInv, BundleInv
<1>3. ASSUME NEW i, Deliver(i) PROVE \A n \in DOMAIN window' : Shaped(window'[n])
  <2>1. corpus \in Corpora /\ i \in DOMAIN corpus.events
    BY <1>3 DEF Deliver, WindowInv, BundleInv
  <2>2. Shaped(corpus.events[i])
    BY <2>1, AnalysisAssumption DEF Shaped
  <2> DEFINE e == corpus.events[i]
  <2>3. window' = Append(window, e)
    BY <1>3 DEF Deliver
  <2> HIDE DEF e
  <2>4. ASSUME NEW n \in DOMAIN Append(window, e) PROVE Append(window, e)[n] = e \/ (n \in DOMAIN window /\ Append(window, e)[n] = window[n])
    BY <1>2
  <2> QED
    BY <2>2, <2>3, <2>4 DEF WindowInv, e
<1>4. ASSUME NEW profile \in Profiles, Convert(profile) PROVE \A n \in DOMAIN window' : Shaped(window'[n])
  <2>1. window' = [n \in DOMAIN window |-> Import(Export(window[n], profile))]
    BY <1>4 DEF Convert, Converted
  <2> QED
    BY <2>1, ImportShaped DEF WindowInv
<1>5. window' = window \/ (\E i : Deliver(i)) \/ \E profile \in Profiles : Convert(profile)
  BY DEF Next, Observe, Tune, LoseAlert, Slow, Ask, vars, windowVars
<1> QED
  BY <1>1, <1>3, <1>4, <1>5 DEF WindowInv

LEMMA WindowStart == Init => WindowInv
<1> SUFFICES ASSUME Init PROVE WindowInv
  OBVIOUS
<1>1. window = <<>> /\ window \in Seq({})
  BY DEF Init
<1>2. study = "window" => corpus \in Corpora /\ bundle \in corpus.bundles
  BY DEF Init
<1> QED
  BY <1>1, <1>2 DEF WindowInv, BundleInv

LEMMA JoinedMembers ==
    ASSUME NEW S, NEW s \in Seq(S), NEW t \in Seq(S)
    PROVE  ToSet(s \o t) = ToSet(s) \union ToSet(t)
<1> DEFINE both == s \o t
<1>1. /\ both \in Seq(S) /\ Len(both) = Len(s) + Len(t)
      /\ \A i \in 1 .. Len(s) : both[i] = s[i]
      /\ \A i \in 1 .. Len(t) : both[Len(s) + i] = t[i]
  BY ConcatProperties
<1> HIDE DEF both
<1>2. DOMAIN both = 1 .. Len(both) /\ DOMAIN s = 1 .. Len(s) /\ DOMAIN t = 1 .. Len(t) /\ Len(s) \in Nat /\ Len(t) \in Nat
  BY <1>1
<1>3. ASSUME NEW i \in DOMAIN both PROVE both[i] \in ToSet(s) \union ToSet(t)
  <2>1. CASE i <= Len(s)
    BY <1>1, <1>2, <2>1 DEF ToSet
  <2>2. CASE ~(i <= Len(s))
    <3>1. i - Len(s) \in 1 .. Len(t) /\ Len(s) + (i - Len(s)) = i
      BY <1>1, <1>2, <2>2
    <3>2. both[i] = t[i - Len(s)]
      BY <1>1, <3>1
    <3> QED
      BY <1>2, <3>1, <3>2 DEF ToSet
  <2> QED
    BY <2>1, <2>2
<1>4. ASSUME NEW i \in 1 .. Len(t) PROVE t[i] \in ToSet(both)
  <2>1. Len(s) + i \in DOMAIN both
    BY <1>1, <1>2
  <2> QED
    BY <1>1, <2>1 DEF ToSet
<1>5. ASSUME NEW i \in 1 .. Len(s) PROVE s[i] \in ToSet(both)
  <2>1. i \in DOMAIN both
    BY <1>1, <1>2
  <2> QED
    BY <1>1, <2>1 DEF ToSet
<1>6. ToSet(both) \subseteq ToSet(s) \union ToSet(t)
  BY <1>3 DEF ToSet
<1>7. ToSet(s) \union ToSet(t) \subseteq ToSet(both)
  BY <1>2, <1>4, <1>5 DEF ToSet
<1> QED
  BY <1>6, <1>7 DEF both

\* Those of a list that are in a set are the members of both.
LEMMA WithinIs ==
    ASSUME NEW T, NEW list \in Seq(T), NEW S
    PROVE  Within(list, S) \in Seq(T \intersect S) /\ ToSet(Within(list, S)) = ToSet(list) \intersect S
<1> DEFINE U  == T \intersect S
           L  == Len(list)
           ss == [n \in DOMAIN list |-> IF list[n] \in S THEN <<list[n]>> ELSE <<>>]
<1>1. L \in Nat /\ DOMAIN list = 1 .. L /\ \A n \in 1 .. L : list[n] \in T
  OBVIOUS
<1>2. ASSUME NEW n \in 1 .. L PROVE ss[n] \in Seq(U)
  <2>1. list[n] \in S => <<list[n]>> \in Seq(U)
    BY <1>1
  <2>2. <<>> \in Seq(U) /\ n \in DOMAIN list
    BY <1>1
  <2> QED
    BY <2>1, <2>2
<1>3. ss \in Seq(Seq(U)) /\ Len(ss) = L
  <2>1. ss \in [1 .. L -> Seq(U)]
    BY <1>1, <1>2
  <2> HIDE DEF ss, U, L
  <2> QED
    BY <1>1, <2>1, IsASeq, LenProperties
<1>4. \A n \in 1 .. L : ss[n] = IF list[n] \in S THEN <<list[n]>> ELSE <<>>
  BY <1>1
<1>5. Within(list, S) = FlattenSeq(ss)
  BY DEF Within
<1> HIDE DEF ss
<1>6. PICK f : Joins(U, ss, f) /\ FlattenSeq(ss) = f[L]
  BY <1>3, Flattened
<1> DEFINE Some(n) == {list[i] : i \in 1 .. n} \intersect S
           N == {n \in Nat : n <= L => ToSet(f[n]) = Some(n)}
<1>7. f \in [0 .. L -> Seq(U)] /\ f[0] = <<>> /\ \A n \in 1 .. L : f[n] = f[n - 1] \o ss[n]
  BY <1>3, <1>6 DEF Joins
<1>8. 0 \in N
  BY <1>7 DEF ToSet
<1>9. ASSUME NEW n \in Nat, n \in N PROVE n + 1 \in N
  <2> SUFFICES ASSUME n + 1 <= L PROVE ToSet(f[n + 1]) = Some(n + 1)
    OBVIOUS
  <2>1. n + 1 \in 1 .. L /\ (n + 1) - 1 = n /\ n \in 0 .. L
    BY <1>1
  <2>2. f[n + 1] = f[n] \o ss[n + 1] /\ f[n] \in Seq(U) /\ ss[n + 1] \in Seq(U)
    BY <1>2, <1>7, <2>1
  <2>3. ToSet(f[n + 1]) = ToSet(f[n]) \union ToSet(ss[n + 1])
    BY <2>2, JoinedMembers
  <2>4. ToSet(ss[n + 1]) = {list[n + 1]} \intersect S
    <3>1. list[n + 1] \in S => ss[n + 1] = <<list[n + 1]>>
      BY <1>4, <2>1
    <3>2. list[n + 1] \notin S => ss[n + 1] = <<>>
      BY <1>4, <2>1
    <3> QED
      BY <3>1, <3>2 DEF ToSet
  <2>5. 1 .. n + 1 = (1 .. n) \union {n + 1}
    OBVIOUS
  <2>6. Some(n + 1) = Some(n) \union ({list[n + 1]} \intersect S)
    BY <2>5
  <2>7. ToSet(f[n]) = Some(n)
    BY <1>9, <2>1
  <2> HIDE DEF Some
  <2> QED
    BY <2>3, <2>4, <2>6, <2>7
<1>10. L \in N
  <2> HIDE DEF N, L
  <2> QED
    BY <1>1, <1>8, <1>9, SetInduction
<1>11. ToSet(f[L]) = Some(L) /\ f[L] \in Seq(U)
  BY <1>1, <1>7, <1>10
<1>12. Some(L) = ToSet(list) \intersect S
  BY <1>1 DEF ToSet
<1> QED
  BY <1>5, <1>6, <1>11, <1>12

\* The least of some positions, and the greatest of some numbers.
LEMMA FirstOf ==
    ASSUME NEW n \in Nat, NEW P \in SUBSET (1 .. n), P # {}
    PROVE  Min(P) \in P /\ \A i \in P : Min(P) <= i
<1> DEFINE f == [i \in 1 .. n |-> i]
<1>1. \A i \in P : f[i] = i /\ f[i] \in Int
  OBVIOUS
<1> HIDE DEF f
<1>2. \E i \in P : \A j \in P : f[i] <= f[j]
  BY <1>1, Least
<1>3. \E i \in P : \A j \in P : i <= j
  BY <1>1, <1>2
<1> QED
  BY <1>3 DEF Min

LEMMA GreatestIs ==
    ASSUME NEW S, NEW m \in S, \A x \in S : x \in Int /\ x <= m
    PROVE  Max(S) = m
<1>1. \A y \in S : m >= y
  OBVIOUS
<1>2. Max(S) \in S /\ \A y \in S : Max(S) >= y
  BY <1>1 DEF Max
<1> QED
  BY <1>2

\* References go to the first event with their id.
LEMMA NodeIs ==
    ASSUME NEW S, NEW w \in Seq(S), NEW id \in Ids(w)
    PROVE  NodeOf(w, id) \in DOMAIN w /\ w[NodeOf(w, id)].id = id /\ \A i \in DOMAIN w : w[i].id = id => NodeOf(w, id) <= i
<1> DEFINE P == {i \in DOMAIN w : w[i].id = id}
<1>1. P \in SUBSET (1 .. Len(w)) /\ Len(w) \in Nat
  OBVIOUS
<1>2. P # {}
  BY DEF Ids
<1>3. NodeOf(w, id) = Min(P)
  BY DEF NodeOf
<1>4. Min(P) \in P /\ \A i \in P : Min(P) <= i
  <2> HIDE DEF P
  <2> QED
    BY <1>1, <1>2, FirstOf
<1> QED
  BY <1>3, <1>4

\* The sources of a node are those that its event refers to, in its trace.
LEMMA SourcesAre ==
    ASSUME NEW S, NEW w \in Seq(S), NEW j \in DOMAIN w, Shaped(w[j])
    PROVE  /\ Sources(w, j) \in Seq(DOMAIN w)
           /\ ToSet(Sources(w, j)) = {i \in DOMAIN w : /\ MayLink(w, i, j)
                                                       /\ \E id \in Referenced(w[j]) \intersect Ids(w) : i = NodeOf(w, id)}
<1> DEFINE e     == w[j]
           cause == e.caused_by_event_ids
           found == Within(References(e), Ids(w))
           nodes == [n \in DOMAIN found |-> NodeOf(w, found[n])]
           there == {i \in ToSet(nodes) : MayLink(w, i, j)}
<1>1. PICK U : cause \in Seq(U)
  BY DEF Shaped
<1> DEFINE V == U \union {e.parent_event_id}
<1>2. References(e) \in Seq(V) /\ ToSet(References(e)) \ {None} = Referenced(e)
  <2> DEFINE own == IF e.parent_event_id = None THEN <<>> ELSE <<e.parent_event_id>>
  <2>1. own \in Seq(V) /\ ToSet(own) \ {None} = {e.parent_event_id} \ {None}
    <3>1. CASE e.parent_event_id = None
      BY <3>1 DEF ToSet
    <3>2. CASE e.parent_event_id # None
      <4>1. own = <<e.parent_event_id>>
        BY <3>2
      <4> HIDE DEF own
      <4>2. <<e.parent_event_id>> \in Seq(V) /\ ToSet(<<e.parent_event_id>>) = {e.parent_event_id}
        BY DEF ToSet
      <4> QED
        BY <4>1, <4>2
    <3> QED
      BY <3>1, <3>2
  <2>2. cause \in Seq(V)
    BY <1>1
  <2>3. References(e) = own \o cause
    BY DEF References
  <2>4. Referenced(e) = ({e.parent_event_id} \union ToSet(cause)) \ {None}
    BY DEF Referenced, ToSet
  <2> HIDE DEF own, cause, V, e
  <2>5. own \o cause \in Seq(V)
    BY <2>1, <2>2, ConcatProperties
  <2>6. ToSet(own \o cause) = ToSet(own) \union ToSet(cause)
    BY <2>1, <2>2, JoinedMembers
  <2> QED
    BY <2>1, <2>3, <2>4, <2>5, <2>6
<1>3. found \in Seq(V \intersect Ids(w)) /\ ToSet(found) = ToSet(References(e)) \intersect Ids(w)
  <2> HIDE DEF V, e
  <2> QED
    BY <1>2, WithinIs
<1>4. ToSet(found) = Referenced(e) \intersect Ids(w)
  BY <1>2, <1>3 DEF Ids
<1> HIDE DEF found, V, cause
<1>5. \A id \in Ids(w) : NodeOf(w, id) \in DOMAIN w
  BY NodeIs
<1>6. nodes \in Seq(DOMAIN w)
  <2>1. DOMAIN found = 1 .. Len(found) /\ Len(found) \in Nat /\ \A n \in DOMAIN found : found[n] \in Ids(w)
    BY <1>3
  <2>2. nodes \in [1 .. Len(found) -> DOMAIN w]
    BY <1>5, <2>1
  <2> HIDE DEF nodes
  <2> QED
    BY <2>1, <2>2, IsASeq
<1>7. ToSet(nodes) = {NodeOf(w, id) : id \in ToSet(found)}
  BY DEF ToSet
<1> HIDE DEF nodes
<1>8. Within(nodes, there) \in Seq((DOMAIN w) \intersect there) /\ ToSet(Within(nodes, there)) = ToSet(nodes) \intersect there
  <2> HIDE DEF there
  <2> QED
    BY <1>6, WithinIs
<1>9. Sources(w, j) = Within(nodes, there)
  BY DEF Sources, nodes, found
<1>10. Within(nodes, there) \in Seq(DOMAIN w)
  BY <1>8
<1>11. ToSet(Sources(w, j)) = there
  BY <1>8, <1>9
<1>12. there = {i \in DOMAIN w : MayLink(w, i, j) /\ \E id \in Referenced(e) \intersect Ids(w) : i = NodeOf(w, id)}
  BY <1>4, <1>5, <1>7
<1> QED
  BY <1>9, <1>10, <1>11, <1>12

\* A graph of n nodes.
IsGraph(graph, n) == n \in Nat /\ graph \in [1 .. n -> Seq(1 .. n)]

LEMMA GraphIs ==
    ASSUME NEW S, NEW w \in Seq(S), \A i \in DOMAIN w : Shaped(w[i])
    PROVE  /\ IsGraph(CausalGraph(w), Len(w))
           /\ \A j \in DOMAIN w :
                 Parents(CausalGraph(w), j) =
                     {i \in DOMAIN w : /\ MayLink(w, i, j)
                                       /\ \E id \in Referenced(w[j]) \intersect Ids(w) : i = NodeOf(w, id)}
<1>1. DOMAIN w = 1 .. Len(w) /\ Len(w) \in Nat
  OBVIOUS
<1>2. CausalGraph(w) = [j \in DOMAIN w |-> Sources(w, j)]
  BY DEF CausalGraph
<1>3. \A j \in DOMAIN w : Sources(w, j) \in Seq(DOMAIN w)
  BY SourcesAre
<1> QED
  BY <1>1, <1>2, <1>3, SourcesAre DEF IsGraph, Parents

-----------------------------------------------------------------------------
(* Depths.                                                                     *)

States(n) == [popped : SUBSET (1 .. n), depth : [1 .. n -> Nat]]

Unpopped(graph) == [popped |-> {}, depth |-> [j \in DOMAIN graph |-> 0]]

Ready(graph, x) == {j \in DOMAIN graph \ x.popped : Parents(graph, j) \subseteq x.popped}

\* What the depth of a node is, at least, once those that are ready are popped.
Bounds(graph, x, j) == {x.depth[j]} \union {x.depth[i] + 1 : i \in Parents(graph, j) \intersect Ready(graph, x)}

\* A generation.
Pop(graph, x) ==
    [popped |-> x.popped \union Ready(graph, x),
     depth  |-> [j \in DOMAIN graph |-> Max(Bounds(graph, x, j))]]

LEMMA GraphTypes ==
    ASSUME NEW n, NEW graph, IsGraph(graph, n)
    PROVE  /\ n \in Nat /\ DOMAIN graph = 1 .. n /\ Len(graph) = n
           /\ \A j \in 1 .. n : graph[j] \in Seq(1 .. n) /\ Parents(graph, j) \subseteq 1 .. n
<1>1. n \in Nat /\ graph \in [1 .. n -> Seq(1 .. n)]
  BY DEF IsGraph
<1>2. graph \in Seq(Seq(1 .. n)) /\ Len(graph) = n
  <2> DEFINE T == Seq(1 .. n)
  <2>1. graph \in [1 .. n -> T]
    BY <1>1
  <2> HIDE DEF T
  <2>2. graph \in Seq(T)
    BY <1>1, <2>1, IsASeq
  <2>3. Len(graph) = n
    BY <1>1, <2>1, <2>2, LenProperties
  <2> QED
    BY <2>2, <2>3 DEF T
<1>3. ASSUME NEW j \in 1 .. n PROVE graph[j] \in Seq(1 .. n) /\ Parents(graph, j) \subseteq 1 .. n
  <2>1. graph[j] \in Seq(1 .. n)
    BY <1>1
  <2> DEFINE D == 1 .. n
             s == graph[j]
  <2>2. \A i \in DOMAIN s : s[i] \in D
    <3>1. s \in Seq(D)
      BY <2>1
    <3> HIDE DEF D, s
    <3> QED
      BY <3>1
  <2> QED
    BY <2>1, <2>2 DEF Parents, ToSet
<1> QED
  BY <1>1, <1>2, <1>3

\* Of the bounds of a depth one is the greatest.
LEMMA GreatestBound ==
    ASSUME NEW n, NEW graph, IsGraph(graph, n), NEW x \in States(n), NEW j \in 1 .. n
    PROVE  /\ \A b \in Bounds(graph, x, j) : b \in Nat
           /\ Max(Bounds(graph, x, j)) \in Bounds(graph, x, j)
           /\ \A b \in Bounds(graph, x, j) : b <= Max(Bounds(graph, x, j))
<1> DEFINE B == Bounds(graph, x, j)
           Q == Parents(graph, j) \intersect Ready(graph, x)
           d == x.depth[j]
<1>1. n \in Nat /\ Q \in SUBSET (1 .. n)
  BY GraphTypes
<1>2. x.depth \in [1 .. n -> Nat] /\ d \in Nat
  BY DEF States
<1> DEFINE f == [i \in 1 .. n |-> x.depth[i] + 1]
<1>3. \A i \in Q : f[i] = x.depth[i] + 1 /\ f[i] \in Nat
  BY <1>1, <1>2
<1>4. B = {d} \union {f[i] : i \in Q}
  BY <1>3 DEF Bounds
<1> HIDE DEF f, Q, B, d
<1>5. \A b \in B : b \in Nat
  BY <1>2, <1>3, <1>4
<1>6. \E m \in B : \A b \in B : b <= m
  <2>1. CASE Q = {}
    <3>1. B = {d}
      BY <1>4, <2>1
    <3> QED
      BY <1>2, <3>1
  <2>2. CASE Q # {}
    <3>1. PICK i \in Q : \A k \in Q : f[k] <= f[i]
      <4>1. \A i \in Q : f[i] \in Int
        BY <1>3
      <4> QED
        BY <1>1, <2>2, <4>1, Greatest
    <3>2. CASE d <= f[i]
      BY <1>4, <3>1, <3>2
    <3>3. CASE ~(d <= f[i])
      <4>1. \A k \in Q : f[k] <= d
        BY <1>2, <1>3, <3>1, <3>3
      <4> QED
        BY <1>2, <1>4, <4>1
    <3> QED
      BY <3>2, <3>3
  <2> QED
    BY <2>1, <2>2
<1>7. PICK m \in B : \A b \in B : b <= m
  BY <1>6
<1>8. Max(B) = m
  BY <1>5, <1>7, GreatestIs
<1> QED
  BY <1>5, <1>7, <1>8 DEF B

LEMMA PopType ==
    ASSUME NEW n, NEW graph, IsGraph(graph, n), NEW x \in States(n)
    PROVE  Pop(graph, x) \in States(n)
<1>1. DOMAIN graph = 1 .. n
  BY GraphTypes
<1>2. x.popped \union Ready(graph, x) \in SUBSET (1 .. n)
  BY <1>1 DEF Ready, States
<1>3. \A j \in 1 .. n : Max(Bounds(graph, x, j)) \in Nat
  BY GreatestBound
<1> QED
  BY <1>1, <1>2, <1>3 DEF Pop, States

\* The rounds of Generations.
Rounds(graph, r) ==
    /\ r \in [0 .. Len(graph) -> States(Len(graph))] /\ r[0] = Unpopped(graph)
    /\ \A n \in 1 .. Len(graph) : r[n] = Pop(graph, r[n - 1])

LEMMA GenerationsAre ==
    ASSUME NEW n, NEW graph, IsGraph(graph, n)
    PROVE  \E r : Rounds(graph, r) /\ Generations(graph) = r[n]
<1> DEFINE X == States(n)
           g == [p \in X \X Nat |-> Pop(graph, p[1])]
           start == Unpopped(graph)
<1>1. n \in Nat /\ DOMAIN graph = 1 .. n /\ Len(graph) = n
  BY GraphTypes
<1>2. start \in X
  BY <1>1 DEF States, Unpopped
<1>3. g \in [X \X Nat -> X]
  BY PopType
<1>4. \A x \in X, k \in Nat : g[<<x, k>>] = Pop(graph, x)
  OBVIOUS
<1>5. PICK r : Iterates(X, start, g, n, r)
  <2> HIDE DEF X, g, start
  <2> QED
    BY <1>1, <1>2, <1>3, Recursion
<1>6. r \in [0 .. n -> X] /\ r[0] = start /\ \A k \in 1 .. n : r[k] = Pop(graph, r[k - 1])
  <2> HIDE DEF X, g, start
  <2>1. r \in [0 .. n -> X] /\ r[0] = start /\ \A k \in 1 .. n : r[k] = g[<<r[k - 1], k>>]
    BY <1>5 DEF Iterates
  <2>2. \A k \in 1 .. n : k - 1 \in 0 .. n /\ k \in Nat
    BY <1>1
  <2> QED
    BY <1>4, <2>1, <2>2
<1>7. Rounds(graph, r)
  BY <1>1, <1>6 DEF Rounds
<1> DEFINE N == Len(graph)
           Again(h, k) == LET last  == h[k - 1]
                              ready == {j \in DOMAIN graph \ last.popped : Parents(graph, j) \subseteq last.popped}
                          IN  [popped |-> last.popped \union ready,
                               depth  |-> [j \in DOMAIN graph |->
                                             Max({last.depth[j]} \union
                                                 {last.depth[i] + 1 : i \in Parents(graph, j) \intersect ready})]]
           Body(h) == [k \in 0 .. N |->
                          IF k = 0 THEN [popped |-> {}, depth |-> [j \in DOMAIN graph |-> 0]] ELSE Again(h, k)]
           round == CHOOSE h : h = Body(h)
<1>8. Generations(graph) = round[N]
  BY DEF Generations
<1>9. \A h, k : Again(h, k) = Pop(graph, h[k - 1])
  BY DEF Pop, Ready, Bounds
<1> HIDE DEF Again
<1>10. \A h : Body(h) = [k \in 0 .. n |-> IF k = 0 THEN start ELSE Pop(graph, h[k - 1])]
  BY <1>1, <1>9 DEF Unpopped
<1> HIDE DEF Body, start
<1>11. r = Body(r)
  <2> DEFINE h == [k \in 0 .. n |-> IF k = 0 THEN start ELSE Pop(graph, r[k - 1])]
  <2>1. \A k \in 0 .. n : r[k] = h[k]
    BY <1>1, <1>6
  <2>2. r = h
    BY <1>6, <2>1
  <2> QED
    BY <1>10, <2>2
<1>12. round = Body(round)
  BY <1>11
<1> HIDE DEF round
<1>13. \A k \in 0 .. n : round[k] = IF k = 0 THEN start ELSE Pop(graph, round[k - 1])
  BY <1>10, <1>12
<1> DEFINE T == {k \in Nat : k <= n => round[k] = r[k]}
<1>14. 0 \in T
  BY <1>1, <1>6, <1>13
<1>15. ASSUME NEW k \in Nat, k \in T PROVE k + 1 \in T
  <2> SUFFICES ASSUME k + 1 <= n PROVE round[k + 1] = r[k + 1]
    OBVIOUS
  <2>1. k + 1 \in 0 .. n /\ k + 1 \in 1 .. n /\ k + 1 # 0 /\ (k + 1) - 1 = k /\ k <= n
    BY <1>1
  <2>2. round[k] = r[k]
    BY <1>15, <2>1
  <2>3. round[k + 1] = Pop(graph, round[k])
    BY <1>13, <2>1
  <2> QED
    BY <1>6, <2>1, <2>2, <2>3
<1>16. n \in T
  <2> HIDE DEF T
  <2> QED
    BY <1>1, <1>14, <1>15, SetInduction
<1>17. round[n] = r[n]
  BY <1>1, <1>16
<1> QED
  BY <1>1, <1>7, <1>8, <1>17

\* Whatever goes on happening once it has begun, from the first round to the last.
LEMMA RoundsKeep ==
    ASSUME NEW n, NEW graph, IsGraph(graph, n), NEW r, Rounds(graph, r), NEW G, Unpopped(graph) \in G,
           \A x \in States(n) : x \in G => Pop(graph, x) \in G
    PROVE  \A k \in 0 .. n : r[k] \in G /\ r[k] \in States(n)
<1>1. n \in Nat /\ Len(graph) = n
  BY GraphTypes
<1>2. r \in [0 .. n -> States(n)] /\ r[0] = Unpopped(graph) /\ \A k \in 1 .. n : r[k] = Pop(graph, r[k - 1])
  BY <1>1 DEF Rounds
<1> DEFINE T == {k \in Nat : k <= n => r[k] \in G}
<1>3. 0 \in T
  BY <1>2
<1>4. ASSUME NEW k \in Nat, k \in T PROVE k + 1 \in T
  <2> SUFFICES ASSUME k + 1 <= n PROVE r[k + 1] \in G
    OBVIOUS
  <2>1. k + 1 \in 1 .. n /\ (k + 1) - 1 = k /\ k \in 0 .. n
    BY <1>1
  <2>2. r[k] \in G /\ r[k] \in States(n)
    BY <1>2, <1>4, <2>1
  <2> QED
    BY <1>2, <2>1, <2>2
<1>5. Nat \subseteq T
  <2> HIDE DEF T
  <2> QED
    BY <1>3, <1>4, SetInduction
<1> QED
  BY <1>1, <1>2, <1>5

\* No node of a set is popped if each has a parent in it: a cycle, and what is below one.
LEMMA CycleStays ==
    ASSUME NEW n, NEW graph, IsGraph(graph, n), NEW C \in SUBSET (1 .. n),
           \A j \in C : \E i \in C : i \in Parents(graph, j)
    PROVE  Generations(graph).popped \intersect C = {}
<1> DEFINE G == {x \in States(n) : x.popped \intersect C = {}}
<1>1. PICK r : Rounds(graph, r) /\ Generations(graph) = r[n]
  BY GenerationsAre
<1>2. DOMAIN graph = 1 .. n /\ n \in Nat
  BY GraphTypes
<1>3. Unpopped(graph) \in G
  BY <1>2 DEF Unpopped, States
<1>4. ASSUME NEW x \in States(n), x \in G PROVE Pop(graph, x) \in G
  <2>1. Pop(graph, x).popped = x.popped \union Ready(graph, x)
    BY DEF Pop
  <2>2. Ready(graph, x) \intersect C = {}
    BY <1>4 DEF Ready
  <2>3. Pop(graph, x) \in States(n)
    BY PopType
  <2> QED
    BY <1>4, <2>1, <2>2, <2>3
<1> HIDE DEF G
<1>5. r[n] \in G
  BY <1>1, <1>2, <1>3, <1>4, RoundsKeep
<1> QED
  BY <1>1, <1>5 DEF G

\* What is popped has popped parents, and a depth is the greatest that they give it.
DepthIs(graph, x, j) ==
    /\ x.depth[j] \in {0} \union {x.depth[i] + 1 : i \in Parents(graph, j) \intersect x.popped}
    /\ \A i \in Parents(graph, j) \intersect x.popped : x.depth[i] + 1 <= x.depth[j]

DepthsAre(graph, x) ==
    /\ \A j \in x.popped : Parents(graph, j) \subseteq x.popped
    /\ \A j \in DOMAIN graph : DepthIs(graph, x, j)

LEMMA PopKeepsDepths ==
    ASSUME NEW n, NEW graph, IsGraph(graph, n), NEW x \in States(n), DepthsAre(graph, x)
    PROVE  DepthsAre(graph, Pop(graph, x))
<1> DEFINE y == Pop(graph, x)
           ready == Ready(graph, x)
<1>1. /\ DOMAIN graph = 1 .. n /\ y.popped = x.popped \union ready
      /\ \A j \in 1 .. n : y.depth[j] = Max(Bounds(graph, x, j))
  BY GraphTypes DEF Pop
<1>2. y \in States(n)
  BY PopType
<1>3. \A j \in 1 .. n : x.depth[j] \in Nat /\ y.depth[j] \in Nat
  BY <1>2 DEF States
<1>4. x.popped \subseteq 1 .. n /\ ready \subseteq 1 .. n /\ ready \intersect x.popped = {}
  BY <1>1 DEF States, Ready
<1>5. \A j \in y.popped : Parents(graph, j) \subseteq x.popped
  BY <1>1 DEF DepthsAre, Ready
<1>6. \A j \in 1 .. n : Bounds(graph, x, j) = {x.depth[j]} \union {x.depth[i] + 1 : i \in Parents(graph, j) \intersect ready}
  BY DEF Bounds
<1>7. \A j \in 1 .. n : /\ y.depth[j] \in Bounds(graph, x, j)
                        /\ \A b \in Bounds(graph, x, j) : b <= y.depth[j]
  BY <1>1, GreatestBound
<1> HIDE DEF y, ready
<1>8. \A i \in y.popped : y.depth[i] = x.depth[i]
  <2> SUFFICES ASSUME NEW i \in y.popped PROVE y.depth[i] = x.depth[i]
    OBVIOUS
  <2>1. i \in 1 .. n /\ Parents(graph, i) \intersect ready = {}
    BY <1>1, <1>4, <1>5
  <2>2. Bounds(graph, x, i) = {x.depth[i]}
    BY <1>6, <2>1
  <2> QED
    BY <1>7, <2>1, <2>2
<1>9. ASSUME NEW j \in 1 .. n PROVE DepthIs(graph, y, j)
  <2>1. DepthIs(graph, x, j)
    BY <1>1 DEF DepthsAre
  <2>2. x.depth[j] <= y.depth[j]
    BY <1>6, <1>7
  <2>3. ASSUME NEW i \in Parents(graph, j) \intersect y.popped PROVE y.depth[i] + 1 <= y.depth[j]
    <3>1. y.depth[i] = x.depth[i] /\ i \in 1 .. n
      BY <1>1, <1>4, <1>8
    <3>2. CASE i \in x.popped
      <4>1. x.depth[i] + 1 <= x.depth[j]
        BY <2>1, <3>2 DEF DepthIs
      <4> QED
        BY <1>3, <2>2, <3>1, <4>1
    <3>3. CASE i \in ready
      <4>1. x.depth[i] + 1 \in Bounds(graph, x, j)
        BY <1>6, <3>3
      <4> QED
        BY <1>7, <3>1, <4>1
    <3> QED
      BY <1>1, <3>2, <3>3
  <2>4. y.depth[j] \in {0} \union {y.depth[i] + 1 : i \in Parents(graph, j) \intersect y.popped}
    <3>1. CASE y.depth[j] = x.depth[j]
      <4>1. CASE x.depth[j] = 0
        BY <3>1, <4>1
      <4>2. CASE x.depth[j] # 0
        <5>1. PICK i \in Parents(graph, j) \intersect x.popped : x.depth[j] = x.depth[i] + 1
          BY <2>1, <4>2 DEF DepthIs
        <5>2. i \in y.popped
          BY <1>1
        <5> QED
          BY <1>8, <3>1, <5>1, <5>2
      <4> QED
        BY <4>1, <4>2
    <3>2. CASE y.depth[j] # x.depth[j]
      <4>1. PICK i \in Parents(graph, j) \intersect ready : y.depth[j] = x.depth[i] + 1
        BY <1>6, <1>7, <3>2
      <4>2. i \in y.popped
        BY <1>1
      <4> QED
        BY <1>8, <4>1, <4>2
    <3> QED
      BY <3>1, <3>2
  <2> QED
    BY <2>3, <2>4 DEF DepthIs
<1> QED
  BY <1>1, <1>5, <1>9 DEF DepthsAre, y

\* Of any graph, the nodes that are popped have the depth of the longest way to them.
LEMMA GenerationDepths ==
    ASSUME NEW n, NEW graph, IsGraph(graph, n)
    PROVE  Generations(graph) \in States(n) /\ DepthsAre(graph, Generations(graph))
<1> DEFINE G == {x \in States(n) : DepthsAre(graph, x)}
<1>1. PICK r : Rounds(graph, r) /\ Generations(graph) = r[n]
  BY GenerationsAre
<1>2. DOMAIN graph = 1 .. n /\ n \in Nat
  BY GraphTypes
<1>3. Unpopped(graph) \in G
  <2>1. Unpopped(graph) \in States(n)
    BY <1>2 DEF Unpopped, States
  <2>2. DepthsAre(graph, Unpopped(graph))
    BY <1>2 DEF Unpopped, DepthsAre, DepthIs
  <2> QED
    BY <2>1, <2>2
<1>4. ASSUME NEW x \in States(n), x \in G PROVE Pop(graph, x) \in G
  BY <1>4, PopType, PopKeepsDepths
<1> HIDE DEF G
<1>5. r[n] \in G
  BY <1>1, <1>2, <1>3, <1>4, RoundsKeep
<1> QED
  BY <1>1, <1>5 DEF G

\* Where every edge goes from an earlier node to a later one, all are popped.
LEMMA AllPopped ==
    ASSUME NEW n, NEW graph, IsGraph(graph, n), NEW t, \A j \in 1 .. n : t[j] \in Int,
           \A j \in 1 .. n : \A i \in Parents(graph, j) : t[i] < t[j]
    PROVE  Generations(graph).popped = 1 .. n
<1>1. PICK r : Rounds(graph, r) /\ Generations(graph) = r[n]
  BY GenerationsAre
<1>2. n \in Nat /\ DOMAIN graph = 1 .. n /\ Len(graph) = n
  BY GraphTypes
<1>3. r \in [0 .. n -> States(n)] /\ r[0] = Unpopped(graph) /\ \A k \in 1 .. n : r[k] = Pop(graph, r[k - 1])
  BY <1>1, <1>2 DEF Rounds
<1>4. IsFiniteSet(1 .. n) /\ Cardinality(1 .. n) = n
  BY <1>2, FS_Interval
<1>5. \A k \in 0 .. n : r[k].popped \subseteq 1 .. n
  BY <1>3 DEF States
<1> DEFINE Enough(x, k) == x.popped = 1 .. n \/ k <= Cardinality(x.popped)
           T == {k \in Nat : k <= n => Enough(r[k], k)}
<1>6. 0 \in T
  <2>1. r[0].popped = {}
    BY <1>3 DEF Unpopped
  <2> QED
    BY <2>1, FS_EmptySet
<1>7. ASSUME NEW k \in Nat, k \in T PROVE k + 1 \in T
  <2> SUFFICES ASSUME k + 1 <= n PROVE Enough(r[k + 1], k + 1)
    OBVIOUS
  <2> DEFINE x == r[k]
             P == x.popped
             ready == Ready(graph, x)
  <2>1. k \in 0 .. n /\ k + 1 \in 1 .. n /\ k + 1 \in 0 .. n /\ (k + 1) - 1 = k
    BY <1>2
  <2>2. r[k + 1] = Pop(graph, x)
    BY <1>3, <2>1
  <2>3. r[k + 1].popped = P \union ready /\ P \subseteq 1 .. n /\ P \union ready \subseteq 1 .. n
    BY <1>5, <2>1, <2>2 DEF Pop
  <2>4. CASE P = 1 .. n
    BY <2>3, <2>4
  <2>5. CASE P # 1 .. n
    <3>1. (1 .. n) \ P \in SUBSET (1 .. n) /\ (1 .. n) \ P # {}
      BY <2>3, <2>5
    <3>2. PICK j \in (1 .. n) \ P : \A i \in (1 .. n) \ P : t[j] <= t[i]
      <4>1. \A i \in (1 .. n) \ P : t[i] \in Int
        OBVIOUS
      <4> HIDE DEF P
      <4> QED
        BY <1>2, <3>1, <4>1, Least
    <3>3. Parents(graph, j) \subseteq P
      <4> SUFFICES ASSUME NEW i \in Parents(graph, j), i \notin P PROVE FALSE
        OBVIOUS
      <4>1. i \in 1 .. n
        BY GraphTypes
      <4>2. t[i] < t[j] /\ t[j] <= t[i] /\ t[i] \in Int /\ t[j] \in Int
        BY <3>2, <4>1
      <4> QED
        BY <4>2
    <3>4. j \in ready
      BY <1>2, <3>2, <3>3 DEF Ready
    <3> HIDE DEF ready, P
    <3>5. IsFiniteSet(P) /\ Cardinality(P \union {j}) = Cardinality(P) + 1 /\ Cardinality(P) \in Nat
      <4>1. IsFiniteSet(P)
        BY <1>4, <2>3, FS_Subset
      <4> QED
        BY <3>2, <4>1, FS_AddElement, FS_CardinalityType
    <3>6. IsFiniteSet(P \union ready)
      BY <1>4, <2>3, FS_Subset
    <3>7. Cardinality(P \union {j}) <= Cardinality(P \union ready) /\ Cardinality(P \union ready) \in Nat
      <4>1. P \union {j} \in SUBSET (P \union ready)
        BY <3>4
      <4> QED
        BY <3>6, <4>1, FS_Subset, FS_CardinalityType
    <3>8. k <= Cardinality(P)
      <4>1. Enough(r[k], k)
        BY <1>7, <2>1
      <4> QED
        BY <2>5, <4>1 DEF P
    <3> QED
      BY <2>3, <3>5, <3>7, <3>8
  <2> QED
    BY <2>4, <2>5
<1>8. n \in T
  <2> HIDE DEF T
  <2> QED
    BY <1>2, <1>6, <1>7, SetInduction
<1>9. CASE r[n].popped = 1 .. n
  BY <1>1, <1>9
<1>10. CASE n <= Cardinality(r[n].popped)
  <2> DEFINE P == r[n].popped
  <2>1. P \in SUBSET (1 .. n)
    BY <1>2, <1>5
  <2> HIDE DEF P
  <2>2. Cardinality(P) <= n /\ (n = Cardinality(P) => 1 .. n = P) /\ IsFiniteSet(P)
    <3> DEFINE D == 1 .. n
    <3>1. IsFiniteSet(D) /\ P \in SUBSET D
      BY <1>4, <2>1
    <3> HIDE DEF D
    <3>2. Cardinality(P) <= Cardinality(D) /\ (Cardinality(D) = Cardinality(P) => D = P) /\ IsFiniteSet(P)
      BY <3>1, FS_Subset
    <3> QED
      BY <1>4, <3>2 DEF D
  <2>3. Cardinality(P) \in Nat
    BY <2>2, FS_CardinalityType
  <2> QED
    BY <1>1, <1>2, <1>10, <2>2, <2>3 DEF P
<1> QED
  BY <1>2, <1>8, <1>9, <1>10

-----------------------------------------------------------------------------
(* The doctor and the graph.                                                   *)

\* In a healthy window events have ids of their own, and references lead back in time, within
\* a trace where both say theirs.
LEMMA HealthyWindow ==
    ASSUME NEW S, NEW w \in Seq(S), \A i \in DOMAIN w : Shaped(w[i]),
           AssuranceStatus(AssuranceCodes(w)) = "healthy", NEW i \in DOMAIN w
    PROVE  /\ w[i].id \in Ids(w) /\ NodeOf(w, w[i].id) = i
           /\ w[i].agent => w[i].trace_id # None
           /\ \A id \in Referenced(w[i]) :
                 /\ id \in Ids(w) /\ w[NodeOf(w, id)].time <= w[i].time
                 /\ None \notin {w[i].trace_id, w[NodeOf(w, id)].trace_id} =>
                       w[i].trace_id = w[NodeOf(w, id)].trace_id
<1>1. AssuranceCodes(w) = {}
  <2> DEFINE codes == AssuranceCodes(w)
  <2> HIDE DEF codes
  <2>1. AssuranceStatus(codes) = "healthy" => codes = {}
    BY DEF AssuranceStatus
  <2> QED
    BY <2>1 DEF codes
<1>2. EventCodes(w, i) = {} /\ LinkCodes(w, i) = {}
  <2> DEFINE all == {EventCodes(w, k) \union LinkCodes(w, k) : k \in DOMAIN w}
             empty == IF w = <<>> THEN {"empty_export"} ELSE {}
  <2>1. AssuranceCodes(w) = empty \union UNION all
    BY DEF AssuranceCodes
  <2>2. EventCodes(w, i) \union LinkCodes(w, i) \in all
    OBVIOUS
  <2> HIDE DEF all, empty
  <2>3. UNION all = {}
    BY <1>1, <2>1
  <2>4. EventCodes(w, i) \union LinkCodes(w, i) = {}
    BY <2>2, <2>3
  <2> QED
    BY <2>4
<1>3. \A id : IdentityOf(w, id) = NodeOf(w, id)
  BY DEF IdentityOf, NodeOf
<1>4. /\ ~(w[i].id = None) /\ ~(IdentityOf(w, w[i].id) < i)
      /\ ~(w[i].agent /\ None \in {w[i].trace_id, w[i].session_id, w[i].agent_id})
  <2> DEFINE name   == IF w[i].id = None THEN {"missing_event_id"}
                       ELSE IF IdentityOf(w, w[i].id) < i THEN {"duplicate_event_id"} ELSE {}
             person == IF w[i].agent /\ None \in {w[i].trace_id, w[i].session_id, w[i].agent_id}
                       THEN {"missing_agent_correlation_identity"} ELSE {}
  <2>1. name \subseteq EventCodes(w, i) /\ person \subseteq EventCodes(w, i)
    <3> HIDE DEF name, person
    <3> QED
      BY DEF EventCodes, name, person
  <2>2. name = {} /\ person = {}
    <3> HIDE DEF name, person
    <3> QED
      BY <1>2, <2>1
  <2> QED
    BY <2>2
<1>5. w[i].id \in Ids(w)
  BY <1>4 DEF Ids
<1>6. NodeOf(w, w[i].id) = i
  <2>1. NodeOf(w, w[i].id) <= i /\ NodeOf(w, w[i].id) \in DOMAIN w
    BY <1>5, NodeIs
  <2>2. i \in Int /\ NodeOf(w, w[i].id) \in Int
    BY <2>1
  <2> QED
    BY <1>3, <1>4, <2>1, <2>2
<1>7. ASSUME NEW id \in Referenced(w[i])
      PROVE  /\ id \in Ids(w) /\ w[NodeOf(w, id)].time <= w[i].time
             /\ None \notin {w[i].trace_id, w[NodeOf(w, id)].trace_id} =>
                   w[i].trace_id = w[NodeOf(w, id)].trace_id
  <2> DEFINE p == w[NodeOf(w, id)]
             Codes2(x) == IF \A j \in DOMAIN w : w[j].id # x THEN {"broken_causal_link"}
                          ELSE LET parent == w[IdentityOf(w, x)]
                               IN  (IF None \notin {w[i].trace_id, parent.trace_id} /\ w[i].trace_id # parent.trace_id
                                    THEN {"cross_trace_causal_link"} ELSE {})
                                   \union (IF w[i].time < parent.time THEN {"causal_time_inversion"} ELSE {})
             all == {Codes2(x) : x \in Referenced(w[i])}
  <2>1. LinkCodes(w, i) = UNION all
    BY DEF LinkCodes
  <2>2. Codes2(id) \in all
    OBVIOUS
  <2>3. Codes2(id) = {}
    <3> HIDE DEF Codes2, all
    <3> QED
      BY <1>2, <2>1, <2>2
  <2>4. ~ \A j \in DOMAIN w : w[j].id # id
    BY <2>3
  <2>5. id \in Ids(w)
    BY <2>4 DEF Ids, Referenced
  <2>6. /\ ~(None \notin {w[i].trace_id, p.trace_id} /\ w[i].trace_id # p.trace_id)
        /\ ~(w[i].time < p.time)
    BY <1>3, <2>3, <2>4
  <2>7. w[i].time \in Int /\ p.time \in Int
    BY <2>5, NodeIs DEF Shaped
  <2> QED
    BY <2>5, <2>6, <2>7
<1> QED
  BY <1>4, <1>5, <1>6, <1>7

\* Where the doctor calls a window healthy, its graph is whole.
LEMMA HealthyGraph ==
    ASSUME NEW S, NEW w \in Seq(S), \A i \in DOMAIN w : Shaped(w[i]),
           AssuranceStatus(AssuranceCodes(w)) = "healthy"
    PROVE  LET graph == CausalGraph(w)
               depth == Generations(graph)
           IN  /\ \A j \in DOMAIN w : w[j].agent =>
                     Parents(graph, j) =
                         {i \in DOMAIN w : i # j /\ w[i].agent /\ w[i].id \in Referenced(w[j])}
                         \union {i \in Parents(graph, j) : ~w[i].agent}
               /\ IsInjective([i \in DOMAIN w |-> w[i].time]) =>
                     /\ depth.popped = DOMAIN w
                     /\ \A j \in DOMAIN w :
                           depth.depth[j] = Max({0} \union {depth.depth[i] + 1 : i \in Parents(graph, j)})
<1> DEFINE graph == CausalGraph(w)
           depth == Generations(graph)
           n     == Len(w)
<1>1. DOMAIN w = 1 .. n /\ n \in Nat
  OBVIOUS
<1>2. /\ IsGraph(graph, n)
      /\ \A j \in DOMAIN w :
            Parents(graph, j) = {i \in DOMAIN w : /\ MayLink(w, i, j)
                                                  /\ \E id \in Referenced(w[j]) \intersect Ids(w) : i = NodeOf(w, id)}
  BY GraphIs
<1> HIDE DEF graph, n
<1>3. ASSUME NEW j \in DOMAIN w, w[j].agent
      PROVE  Parents(graph, j) =
                 {i \in DOMAIN w : i # j /\ w[i].agent /\ w[i].id \in Referenced(w[j])}
                 \union {i \in Parents(graph, j) : ~w[i].agent}
  <2>1. ASSUME NEW i \in Parents(graph, j) PROVE i \in DOMAIN w /\ i # j /\ w[i].id \in Referenced(w[j])
    <3>1. i \in DOMAIN w /\ MayLink(w, i, j) /\ \E id \in Referenced(w[j]) \intersect Ids(w) : i = NodeOf(w, id)
      BY <1>2
    <3>2. PICK id \in Referenced(w[j]) \intersect Ids(w) : i = NodeOf(w, id)
      BY <3>1
    <3>3. w[i].id = id
      BY <3>2, NodeIs
    <3> QED
      BY <3>1, <3>2, <3>3 DEF MayLink
  <2>2. ASSUME NEW i \in DOMAIN w, i # j, w[i].agent, w[i].id \in Referenced(w[j]) PROVE i \in Parents(graph, j)
    <3>1. /\ w[i].id \in Ids(w) /\ NodeOf(w, w[i].id) = i /\ w[i].trace_id # None
      BY <2>2, HealthyWindow
    <3>2. w[j].trace_id # None
      BY <1>3, HealthyWindow
    <3>3. None \notin {w[j].trace_id, w[NodeOf(w, w[i].id)].trace_id} =>
             w[j].trace_id = w[NodeOf(w, w[i].id)].trace_id
      BY <2>2, HealthyWindow
    <3>4. w[j].trace_id = w[i].trace_id
      BY <3>1, <3>2, <3>3
    <3>5. MayLink(w, i, j)
      BY <2>2, <3>4 DEF MayLink, TraceOf
    <3> QED
      BY <1>2, <2>2, <3>1, <3>5
  <2> QED
    BY <2>1, <2>2
<1>4. ASSUME IsInjective([i \in DOMAIN w |-> w[i].time])
      PROVE  /\ depth.popped = DOMAIN w
             /\ \A j \in DOMAIN w :
                   depth.depth[j] = Max({0} \union {depth.depth[i] + 1 : i \in Parents(graph, j)})
  <2> DEFINE t == [i \in DOMAIN w |-> w[i].time]
  <2>1. \A i \in DOMAIN w : t[i] = w[i].time /\ t[i] \in Int
    BY DEF Shaped
  <2>2. \A i, j \in DOMAIN w : t[i] = t[j] => i = j
    <3>1. DOMAIN t = DOMAIN w
      OBVIOUS
    <3> HIDE DEF t
    <3> QED
      BY <1>4, <3>1 DEF IsInjective, t
  <2> HIDE DEF t
  <2>3. ASSUME NEW j \in DOMAIN w, NEW i \in Parents(graph, j) PROVE t[i] < t[j]
    <3>1. i \in DOMAIN w /\ MayLink(w, i, j) /\ \E id \in Referenced(w[j]) \intersect Ids(w) : i = NodeOf(w, id)
      BY <1>2
    <3>2. w[i].time <= w[j].time
      BY <3>1, HealthyWindow
    <3>3. i # j
      BY <3>1 DEF MayLink
    <3> QED
      BY <2>1, <2>2, <3>1, <3>2, <3>3
  <2>4. depth.popped = DOMAIN w
    BY <1>1, <1>2, <2>1, <2>3, AllPopped
  <2>5. depth \in States(n) /\ DepthsAre(graph, depth) /\ DOMAIN graph = DOMAIN w
    BY <1>1, <1>2, GenerationDepths, GraphTypes
  <2> HIDE DEF depth
  <2>6. ASSUME NEW j \in DOMAIN w
        PROVE  depth.depth[j] = Max({0} \union {depth.depth[i] + 1 : i \in Parents(graph, j)})
    <3> DEFINE B == {0} \union {depth.depth[i] + 1 : i \in Parents(graph, j)}
               d == depth.depth[j]
    <3>1. Parents(graph, j) \subseteq DOMAIN w /\ Parents(graph, j) \intersect depth.popped = Parents(graph, j)
      BY <1>2, <2>4
    <3>2. DepthIs(graph, depth, j)
      BY <2>5 DEF DepthsAre
    <3>3. \A i \in DOMAIN w : depth.depth[i] \in Nat
      BY <1>1, <2>5 DEF States
    <3>4. d \in B /\ \A x \in B : x \in Int /\ x <= d
      BY <3>1, <3>2, <3>3 DEF DepthIs
    <3> HIDE DEF B, d
    <3>5. Max(B) = d
      BY <3>4, GreatestIs
    <3> QED
      BY <3>5 DEF B, d
  <2> QED
    BY <2>4, <2>6
<1> QED
  BY <1>3, <1>4 DEF graph

-----------------------------------------------------------------------------
(* The path of a finding.                                                      *)

Chains(n) == Seq(1 .. n) \ {<<>>}

\* One step back.
Back(graph, chain, k) ==
    LET first == graph[Last(chain)]
    IN  IF Len(chain) < k \/ first = <<>> \/ first[1] \in ToSet(chain) THEN chain ELSE Append(chain, first[1])

\* A chain goes back along first edges, through no node twice; one that is shorter than it
\* might be has come to a root or to a node that was there before.
Stuck(graph, chain) == graph[Last(chain)] = <<>> \/ graph[Last(chain)][1] \in ToSet(chain)

ChainIs(graph, node, chain, k) ==
    /\ Len(chain) <= k /\ chain[1] = node
    /\ \A a, b \in DOMAIN chain : chain[a] = chain[b] => a = b
    /\ \A m \in 1 .. Len(chain) - 1 : graph[chain[m]] # <<>> /\ chain[m + 1] = graph[chain[m]][1]
    /\ Len(chain) < k => Stuck(graph, chain)

LEMMA BackType ==
    ASSUME NEW n, NEW graph, IsGraph(graph, n), NEW chain \in Chains(n), NEW k
    PROVE  Back(graph, chain, k) \in Chains(n)
<1> DEFINE D == 1 .. n
           first == graph[Last(chain)]
<1>1. chain \in Seq(D) /\ Len(chain) \in Nat \ {0} /\ Last(chain) \in D
  <2> HIDE DEF D
  <2>1. chain \in Seq(D) /\ chain # <<>>
    BY DEF Chains, D
  <2>2. Len(chain) \in Nat \ {0}
    BY <2>1, EmptySeq
  <2> QED
    BY <2>1, <2>2 DEF Last
<1>2. first \in Seq(D)
  BY <1>1, GraphTypes
<1> HIDE DEF D, first
<1>3. first # <<>> => first[1] \in D
  BY <1>2, EmptySeq
<1>4. ASSUME NEW x \in D PROVE Append(chain, x) \in Seq(D) /\ Append(chain, x) # <<>>
  <2>1. Append(chain, x) \in Seq(D) /\ Len(Append(chain, x)) = Len(chain) + 1
    BY <1>1, AppendProperties
  <2> QED
    BY <1>1, <2>1, EmptySeq
<1>5. Back(graph, chain, k) = IF Len(chain) < k \/ first = <<>> \/ first[1] \in ToSet(chain) THEN chain ELSE Append(chain, first[1])
  BY DEF Back, first
<1> QED
  BY <1>3, <1>4, <1>5 DEF Chains, D

LEMMA BackKeeps ==
    ASSUME NEW n, NEW graph, IsGraph(graph, n), NEW chain \in Chains(n), NEW node, NEW k \in Nat,
           ChainIs(graph, node, chain, k)
    PROVE  ChainIs(graph, node, Back(graph, chain, k), k + 1)
<1> DEFINE D == 1 .. n
           L == Len(chain)
           first == graph[Last(chain)]
           more == Append(chain, first[1])
<1>1. chain \in Seq(D) /\ L \in Nat \ {0} /\ Last(chain) = chain[L] /\ chain[L] \in D
  <2> HIDE DEF D
  <2>1. chain \in Seq(D) /\ chain # <<>>
    BY DEF Chains, D
  <2>2. Len(chain) \in Nat \ {0}
    BY <2>1, EmptySeq
  <2> QED
    BY <2>1, <2>2 DEF Last
<1>2. L <= k /\ (L < k => Stuck(graph, chain))
  BY DEF ChainIs
<1>3. CASE Stuck(graph, chain)
  <2>1. Back(graph, chain, k) = chain
    BY <1>3 DEF Back, Stuck
  <2> QED
    BY <1>1, <1>2, <1>3, <2>1 DEF ChainIs
<1>4. CASE ~Stuck(graph, chain)
  <2>1. L = k /\ first # <<>> /\ first[1] \notin ToSet(chain)
    BY <1>1, <1>2, <1>4 DEF Stuck
  <2>2. Back(graph, chain, k) = more
    BY <1>1, <2>1 DEF Back
  <2>3. first[1] \in D
    <3>1. first \in Seq(D)
      BY <1>1, GraphTypes
    <3> HIDE DEF first, D
    <3> QED
      BY <2>1, <3>1, EmptySeq
  <2> DEFINE x == first[1]
  <2>4. \A a \in 1 .. L : chain[a] # x
    BY <1>1, <2>1 DEF ToSet
  <2>5. Len(more) = L + 1 /\ DOMAIN more = 1 .. L + 1 /\ more[L + 1] = x /\ \A a \in 1 .. L : more[a] = chain[a]
    <3> HIDE DEF D, first
    <3> QED
      BY <1>1, <2>3, AppendProperties
  <2>6. DOMAIN chain = 1 .. L
    BY <1>1
  <2>7. graph[chain[L]] # <<>> /\ x = graph[chain[L]][1]
    BY <1>1, <2>1
  <2> HIDE DEF more, x, first, D, L
  <2>8. more[1] = node
    BY <1>1, <2>5 DEF ChainIs
  <2>9. ASSUME NEW a \in DOMAIN more, NEW b \in DOMAIN more, more[a] = more[b] PROVE a = b
    <3>1. (a \in 1 .. L \/ a = L + 1) /\ (b \in 1 .. L \/ b = L + 1)
      BY <1>1, <2>5
    <3>2. \A c, d \in 1 .. L : chain[c] = chain[d] => c = d
      BY <2>6 DEF ChainIs
    <3> QED
      BY <2>4, <2>5, <2>9, <3>1, <3>2
  <2>10. ASSUME NEW m \in 1 .. L PROVE graph[more[m]] # <<>> /\ more[m + 1] = graph[more[m]][1]
    <3>1. CASE m = L
      BY <2>5, <2>7, <3>1
    <3>2. CASE m # L
      <4>1. m \in 1 .. L - 1 /\ m + 1 \in 1 .. L
        BY <1>1, <3>2
      <4>2. graph[chain[m]] # <<>> /\ chain[m + 1] = graph[chain[m]][1]
        BY <4>1 DEF ChainIs, L
      <4> QED
        BY <2>5, <4>1, <4>2
    <3> QED
      BY <3>1, <3>2
  <2>11. Len(more) <= k + 1 /\ ~(Len(more) < k + 1) /\ Len(more) - 1 = L
    BY <1>1, <2>1, <2>5
  <2> QED
    BY <2>2, <2>8, <2>9, <2>10, <2>11 DEF ChainIs
<1> QED
  BY <1>3, <1>4

LEMMA PathIs ==
    ASSUME NEW n, NEW graph, IsGraph(graph, n), NEW node \in 1 .. n
    PROVE  \E chain \in Chains(n) : ChainIs(graph, node, chain, MaxPath) /\ PathTo(graph, node) = Reverse(chain)
<1> DEFINE X == Chains(n)
           M == MaxPath - 1
           g == [p \in X \X Nat |-> Back(graph, p[1], p[2])]
           start == <<node>>
<1>1. n \in Nat /\ M \in Nat /\ MaxPath \in Nat \ {0}
  BY GraphTypes, InvestigationAssumption
<1>2. start \in X
  BY DEF Chains
<1>3. g \in [X \X Nat -> X]
  BY BackType
<1>4. \A x \in X, k \in Nat : g[<<x, k>>] = Back(graph, x, k)
  OBVIOUS
<1>5. PICK f : Iterates(X, start, g, M, f)
  <2> HIDE DEF X, g, start, M
  <2> QED
    BY <1>1, <1>2, <1>3, Recursion
<1>6. f \in [0 .. M -> X] /\ f[0] = start /\ \A k \in 1 .. M : f[k] = Back(graph, f[k - 1], k)
  <2> HIDE DEF X, g, start, M
  <2>1. f \in [0 .. M -> X] /\ f[0] = start /\ \A k \in 1 .. M : f[k] = g[<<f[k - 1], k>>]
    BY <1>5 DEF Iterates
  <2>2. \A k \in 1 .. M : k - 1 \in 0 .. M /\ k \in Nat
    BY <1>1
  <2> QED
    BY <1>4, <2>1, <2>2
<1> HIDE DEF X, g
<1> DEFINE T == {k \in Nat : k <= M => ChainIs(graph, node, f[k], k + 1)}
<1>7. 0 \in T
  <2>1. ChainIs(graph, node, start, 1)
    BY DEF ChainIs
  <2> QED
    BY <1>6, <2>1
<1>8. ASSUME NEW k \in Nat, k \in T PROVE k + 1 \in T
  <2> SUFFICES ASSUME k + 1 <= M PROVE ChainIs(graph, node, f[k + 1], (k + 1) + 1)
    OBVIOUS
  <2>1. k + 1 \in 1 .. M /\ (k + 1) - 1 = k /\ k \in 0 .. M /\ k + 1 \in Nat
    BY <1>1
  <2>2. f[k] \in Chains(n) /\ ChainIs(graph, node, f[k], k + 1)
    BY <1>6, <1>8, <2>1 DEF X
  <2>3. f[k + 1] = Back(graph, f[k], k + 1)
    BY <1>6, <2>1
  <2> HIDE DEF T
  <2>4. ChainIs(graph, node, Back(graph, f[k], k + 1), (k + 1) + 1)
    BY <2>1, <2>2, BackKeeps
  <2> QED
    BY <2>3, <2>4
<1>9. M \in T
  <2> HIDE DEF T, M
  <2> QED
    BY <1>1, <1>7, <1>8, SetInduction
<1>10. f[M] \in Chains(n) /\ ChainIs(graph, node, f[M], MaxPath)
  BY <1>1, <1>6, <1>9 DEF X
<1> DEFINE Again(h, k) == LET chain == h[k - 1]
                              first == graph[Last(chain)]
                          IN  IF Len(chain) < k - 1 \/ first = <<>> \/ first[1] \in ToSet(chain) THEN chain
                              ELSE Append(chain, first[1])
           Body(h) == [k \in 1 .. MaxPath |-> IF k = 1 THEN <<node>> ELSE Again(h, k)]
           back == CHOOSE h : h = Body(h)
<1>11. PathTo(graph, node) = Reverse(back[MaxPath])
  BY DEF PathTo
<1>12. \A h, k : Again(h, k) = Back(graph, h[k - 1], k - 1)
  BY DEF Back
<1> HIDE DEF Again
<1>13. \A h : Body(h) = [k \in 1 .. MaxPath |-> IF k = 1 THEN <<node>> ELSE Back(graph, h[k - 1], k - 1)]
  BY <1>12
<1> HIDE DEF Body
<1>14. \E h : h = Body(h)
  <2> DEFINE h == [k \in 1 .. MaxPath |-> f[k - 1]]
             b == [k \in 1 .. MaxPath |-> IF k = 1 THEN <<node>> ELSE Back(graph, h[k - 1], k - 1)]
  <2>1. ASSUME NEW k \in 1 .. MaxPath PROVE h[k] = b[k]
    <3>1. CASE k = 1
      BY <1>6, <3>1
    <3>2. CASE k # 1
      <4>1. k - 1 \in 1 .. M /\ k - 1 \in 1 .. MaxPath
        BY <1>1, <3>2
      <4>2. f[k - 1] = Back(graph, f[(k - 1) - 1], k - 1) /\ h[k - 1] = f[(k - 1) - 1]
        BY <1>6, <4>1
      <4> QED
        BY <3>2, <4>2
    <3> QED
      BY <3>1, <3>2
  <2>2. h = b
    BY <2>1
  <2>3. Body(h) = b
    BY <1>13
  <2> QED
    BY <2>2, <2>3
<1>15. back = Body(back)
  BY <1>14
<1> HIDE DEF back
<1>16. \A k \in 1 .. MaxPath : back[k] = IF k = 1 THEN <<node>> ELSE Back(graph, back[k - 1], k - 1)
  BY <1>13, <1>15
<1> DEFINE U == {k \in Nat : k <= M => back[k + 1] = f[k]}
<1>17. 0 \in U
  BY <1>1, <1>6, <1>16
<1>18. ASSUME NEW k \in Nat, k \in U PROVE k + 1 \in U
  <2> SUFFICES ASSUME k + 1 <= M PROVE back[(k + 1) + 1] = f[k + 1]
    OBVIOUS
  <2>1. /\ (k + 1) + 1 \in 1 .. MaxPath /\ (k + 1) + 1 # 1 /\ ((k + 1) + 1) - 1 = k + 1
        /\ k + 1 \in 1 .. M /\ (k + 1) - 1 = k /\ k <= M
    BY <1>1
  <2>2. back[k + 1] = f[k]
    BY <1>18, <2>1
  <2>3. back[(k + 1) + 1] = Back(graph, back[k + 1], k + 1)
    BY <1>16, <2>1
  <2>4. f[k + 1] = Back(graph, f[k], k + 1)
    BY <1>6, <2>1
  <2> QED
    BY <2>2, <2>3, <2>4
<1>19. M \in U
  <2> HIDE DEF U, M
  <2> QED
    BY <1>1, <1>17, <1>18, SetInduction
<1>20. back[MaxPath] = f[M]
  BY <1>1, <1>19
<1> QED
  BY <1>10, <1>11, <1>20

\* A path leads along the graph to its node, and starts where nothing leads any further back:
\* at the bound, at a root, or on a cycle.
LEMMA PathFollows ==
    ASSUME NEW n, NEW graph, IsGraph(graph, n), NEW node \in 1 .. n
    PROVE  LET path == PathTo(graph, node)
           IN  /\ Last(path) = node /\ IsInjective(path) /\ Len(path) <= MaxPath
               /\ \A m \in 1 .. Len(path) - 1 : path[m] \in Parents(graph, path[m + 1])
               /\ Len(path) = MaxPath \/ graph[path[1]] = <<>> \/ Generations(graph).popped # 1 .. n
<1> DEFINE D == 1 .. n
           path == PathTo(graph, node)
<1>1. PICK chain \in Chains(n) : ChainIs(graph, node, chain, MaxPath) /\ path = Reverse(chain)
  BY PathIs
<1> DEFINE L == Len(chain)
<1>2. chain \in Seq(D) /\ L \in Nat \ {0} /\ Last(chain) = chain[L] /\ DOMAIN chain = 1 .. L
  <2> HIDE DEF D
  <2>1. chain \in Seq(D) /\ chain # <<>>
    BY DEF Chains, D
  <2>2. Len(chain) \in Nat \ {0}
    BY <2>1, EmptySeq
  <2> QED
    BY <2>1, <2>2 DEF Last
<1> HIDE DEF path
<1>3. path = [i \in 1 .. L |-> chain[(L - i) + 1]]
  BY <1>1 DEF Reverse
<1> HIDE DEF L
<1>4. path \in Seq(D) /\ Len(path) = L
  <2>1. \A i \in 1 .. L : (L - i) + 1 \in 1 .. L
    BY <1>2
  <2>2. \A i \in 1 .. L : chain[i] \in D
    <3> HIDE DEF D
    <3> QED
      BY <1>2
  <2>3. path \in [1 .. L -> D]
    <3> HIDE DEF D
    <3> QED
      BY <1>3, <2>1, <2>2
  <2> HIDE DEF D
  <2>4. path \in Seq(D)
    BY <1>2, <2>3, IsASeq
  <2> QED
    BY <1>2, <2>3, <2>4, LenProperties
<1>5. DOMAIN path = 1 .. L
  BY <1>3
<1>6. \A m \in 1 .. L : path[m] = chain[(L - m) + 1]
  BY <1>3
<1>7. Last(path) = node
  <2>1. L \in 1 .. L /\ (L - L) + 1 = 1
    BY <1>2
  <2>2. path[L] = chain[1]
    BY <1>6, <2>1
  <2> QED
    BY <1>1, <1>4, <2>2 DEF Last, ChainIs
<1>8. IsInjective(path)
  <2>1. ASSUME NEW a \in 1 .. L, NEW b \in 1 .. L, path[a] = path[b] PROVE a = b
    <3>1. (L - a) + 1 \in 1 .. L /\ (L - b) + 1 \in 1 .. L
      BY <1>2
    <3>2. chain[(L - a) + 1] = chain[(L - b) + 1]
      BY <1>6, <2>1
    <3>3. (L - a) + 1 = (L - b) + 1
      BY <1>1, <1>2, <3>1, <3>2 DEF ChainIs
    <3> QED
      BY <1>2, <3>3
  <2> QED
    BY <1>5, <2>1 DEF IsInjective
<1>9. L <= MaxPath /\ (L < MaxPath => Stuck(graph, chain))
  BY <1>1 DEF ChainIs, L
<1>10. ASSUME NEW m \in 1 .. L - 1 PROVE chain[m + 1] \in Parents(graph, chain[m])
  <2>1. m \in 1 .. Len(chain) - 1
    BY DEF L
  <2>2. graph[chain[m]] # <<>> /\ chain[m + 1] = graph[chain[m]][1]
    BY <1>1, <2>1 DEF ChainIs
  <2>3. chain[m] \in D
    <3>1. m \in 1 .. L
      BY <1>2
    <3> HIDE DEF D
    <3> QED
      BY <1>2, <3>1
  <2>4. graph[chain[m]] \in Seq(D)
    BY <2>3, GraphTypes
  <2>5. 1 \in DOMAIN graph[chain[m]]
    <3> HIDE DEF D
    <3> QED
      BY <2>2, <2>4, EmptySeq
  <2> QED
    BY <2>2, <2>5 DEF Parents, ToSet
<1>11. ASSUME NEW m \in 1 .. L - 1 PROVE path[m] \in Parents(graph, path[m + 1])
  <2>1. L - m \in 1 .. L - 1 /\ m \in 1 .. L /\ m + 1 \in 1 .. L /\ (L - (m + 1)) + 1 = L - m
    BY <1>2
  <2>2. chain[(L - m) + 1] \in Parents(graph, chain[L - m])
    BY <1>10, <2>1
  <2> QED
    BY <1>6, <2>1, <2>2
<1>12. path[1] = chain[L]
  BY <1>2, <1>6
<1>13. ASSUME L # MaxPath, graph[path[1]] # <<>> PROVE Generations(graph).popped # 1 .. n
  <2> DEFINE C == ToSet(chain)
             first == graph[chain[L]]
  <2>1. first # <<>> /\ first[1] \in C
    <3>1. L < MaxPath
      BY <1>2, <1>9, <1>13, InvestigationAssumption
    <3> QED
      BY <1>2, <1>9, <1>12, <1>13, <3>1 DEF Stuck
  <2>2. chain[L] \in D /\ chain[L] \in C /\ C \subseteq D
    <3> HIDE DEF D
    <3> QED
      BY <1>2 DEF ToSet
  <2>3. first[1] \in Parents(graph, chain[L])
    <3>1. first \in Seq(D)
      BY <2>2, GraphTypes
    <3>2. 1 \in DOMAIN first
      <4> HIDE DEF D, first
      <4> QED
        BY <2>1, <3>1, EmptySeq
    <3> QED
      BY <3>2 DEF Parents, ToSet
  <2>4. ASSUME NEW j \in C PROVE \E i \in C : i \in Parents(graph, j)
    <3>1. PICK m \in 1 .. L : j = chain[m]
      BY <1>2 DEF ToSet
    <3>2. CASE m = L
      BY <2>1, <2>3, <3>1, <3>2
    <3>3. CASE m # L
      <4>1. m \in 1 .. L - 1 /\ m + 1 \in 1 .. L
        BY <1>2, <3>3
      <4>2. chain[m + 1] \in C
        BY <1>2, <4>1 DEF ToSet
      <4> QED
        BY <1>10, <3>1, <4>1, <4>2
    <3> QED
      BY <3>2, <3>3
  <2> HIDE DEF C
  <2>5. Generations(graph).popped \intersect C = {}
    BY <2>2, <2>4, CycleStays
  <2> QED
    BY <2>2, <2>5
<1> QED
  BY <1>4, <1>7, <1>8, <1>9, <1>11, <1>13 DEF path

\* A finding is about a node of the window.
LEMMA FindingNodes ==
    ASSUME NEW S, NEW w \in Seq(S), \A i \in DOMAIN w : Shaped(w[i]), NEW f \in Findings(w)
    PROVE  Last(f.nodes) \in DOMAIN w
<1>1. \A j : Last(<<j>>) = j
  BY DEF Last
<1>2. \A i, j : Last(<<i, j>>) = j
  BY DEF Last
<1>3. CASE f \in HandoffFindings(w, CausalGraph(w))
  <2>1. PICK e \in (DOMAIN w) \X (DOMAIN w) : f.nodes = e
    BY <1>3 DEF HandoffFindings, Found
  <2>2. PICK i \in DOMAIN w, j \in DOMAIN w : e = <<i, j>>
    OBVIOUS
  <2> QED
    BY <1>2, <2>1, <2>2
<1>4. CASE f \in DelegationFindings(w)
  <2>1. f.nodes \in DelegationGroups(w)
    <3> DEFINE A == {g \in DelegationGroups(w) :
                        /\ Cardinality(Values(w, g, "principal_id")) > 1
                        /\ \E i \in ToSet(g) : w[i].principal_transition_approved # TRUE}
               B == {g \in DelegationGroups(w) :
                        \/ Cardinality(Values(w, g, "delegated_from_agent_id")) > 1
                        \/ Cardinality(Values(w, g, "delegated_to_agent_id")) > 1}
    <3>1. A \subseteq DelegationGroups(w) /\ B \subseteq DelegationGroups(w)
      OBVIOUS
    <3>2. DelegationFindings(w) = {Found("delegation_principal_drift", g) : g \in A}
                                  \union {Found("delegation_endpoint_drift", g) : g \in B}
      BY DEF DelegationFindings
    <3> HIDE DEF A, B
    <3> QED
      BY <1>4, <3>1, <3>2 DEF Found
  <2> DEFINE Group(j) == {i \in DOMAIN w : w[i].delegation_id = w[j].delegation_id /\ TraceOf(w[i]) = TraceOf(w[j])}
             all == [i \in DOMAIN w |-> i]
  <2>2. PICK j \in DOMAIN w : f.nodes = Within(all, Group(j))
    BY <2>1 DEF DelegationGroups
  <2>3. all \in Seq(DOMAIN w) /\ ToSet(all) = DOMAIN w
    <3>1. DOMAIN w = 1 .. Len(w) /\ Len(w) \in Nat
      OBVIOUS
    <3>2. all \in [1 .. Len(w) -> DOMAIN w]
      BY <3>1
    <3>3. ToSet(all) = DOMAIN w
      BY DEF ToSet
    <3> HIDE DEF all
    <3> QED
      BY <3>1, <3>2, <3>3, IsASeq
  <2>4. j \in Group(j) /\ Group(j) \subseteq DOMAIN w
    OBVIOUS
  <2> HIDE DEF all, Group
  <2> DEFINE g == Within(all, Group(j))
  <2>5. g \in Seq((DOMAIN w) \intersect Group(j)) /\ ToSet(g) = (DOMAIN w) \intersect Group(j)
    BY <2>3, WithinIs
  <2> HIDE DEF g
  <2>6. g # <<>>
    BY <2>4, <2>5 DEF ToSet
  <2>7. Len(g) \in DOMAIN g
    BY <2>5, <2>6, EmptySeq
  <2> QED
    BY <2>2, <2>5, <2>7 DEF Last, g
<1>5. CASE f \in GoalFindings(w)
  <2>1. \E j \in DOMAIN w : f.nodes = <<j>> \/ \E i : f.nodes = <<i, j>>
    <3> DEFINE A == {j \in DOMAIN w : w[j].type = "agent.goal.integrity" /\ w[j].goal_integrity_valid = FALSE}
               B == {j \in DOMAIN w : /\ None \notin {w[j].goal_id, w[j].goal_fingerprint}
                                      /\ PriorGoal(w, j) # 0
                                      /\ w[PriorGoal(w, j)].goal_fingerprint # w[j].goal_fingerprint
                                      /\ w[j].goal_change_approved # TRUE}
    <3>1. A \subseteq DOMAIN w /\ B \subseteq DOMAIN w
      OBVIOUS
    <3>2. GoalFindings(w) = {Found("goal_integrity_failed", <<j>>) : j \in A}
                            \union {Found("unapproved_goal_fingerprint_change", <<PriorGoal(w, j), j>>) : j \in B}
      BY DEF GoalFindings
    <3> HIDE DEF A, B
    <3>3. CASE \E j \in A : f = Found("goal_integrity_failed", <<j>>)
      BY <3>1, <3>3 DEF Found
    <3>4. CASE \E j \in B : f = Found("unapproved_goal_fingerprint_change", <<PriorGoal(w, j), j>>)
      <4>1. PICK j \in B : f = Found("unapproved_goal_fingerprint_change", <<PriorGoal(w, j), j>>)
        BY <3>4
      <4>2. f.nodes = <<PriorGoal(w, j), j>>
        BY <4>1 DEF Found
      <4> QED
        BY <3>1, <4>2
    <3> QED
      BY <1>5, <3>2, <3>3, <3>4
  <2> QED
    BY <1>1, <1>2, <2>1
<1>6. CASE f \in MemoryFindings(w)
  <2>1. \E j \in DOMAIN w : f.nodes = <<j>>
    BY <1>6 DEF MemoryFindings, Found
  <2> QED
    BY <1>1, <2>1
<1> QED
  BY <1>3, <1>4, <1>5, <1>6 DEF Findings

\* Of whatever came, in whatever order, and after any conversions: where the doctor calls it
\* healthy the graph is whole, and the path of a finding leads along the graph to it.
THEOREM GraphSound == Spec => []GraphIsSound
<1>1. WindowInv => GraphIsSound
  <2> SUFFICES ASSUME WindowInv PROVE GraphIsSound
    OBVIOUS
  <2>1. PICK S : window \in Seq(S)
    BY DEF WindowInv, BundleInv
  <2>2. \A i \in DOMAIN window : Shaped(window[i])
    BY DEF WindowInv
  <2>3. AssuredGraphIsWhole
    BY <2>1, <2>2, HealthyGraph DEF AssuredGraphIsWhole
  <2>4. PathsFollowGraph
    <3> SUFFICES ASSUME NEW f \in Findings(window)
                 PROVE  LET graph == CausalGraph(window)
                            path  == PathTo(graph, Last(f.nodes))
                        IN  /\ Last(path) = Last(f.nodes) /\ IsInjective(path) /\ Len(path) <= MaxPath
                            /\ \A n \in 1 .. Len(path) - 1 : path[n] \in Parents(graph, path[n + 1])
                            /\ \/ Len(path) = MaxPath
                               \/ graph[path[1]] = <<>>
                               \/ Generations(graph).popped # DOMAIN window
      BY DEF PathsFollowGraph
    <3>1. IsGraph(CausalGraph(window), Len(window)) /\ DOMAIN window = 1 .. Len(window)
      BY <2>1, <2>2, GraphIs
    <3>2. Last(f.nodes) \in 1 .. Len(window)
      BY <2>1, <2>2, <3>1, FindingNodes
    <3> QED
      BY <3>1, <3>2, PathFollows
  <2> QED
    BY <2>3, <2>4 DEF GraphIsSound
<1> QED
  BY <1>1, WindowStart, WindowStep, PTL DEF Spec

-----------------------------------------------------------------------------
(* What a conversion keeps.                                                    *)

Floor(t) == (t \div Millisecond) * Millisecond

\* What an event e comes to be after conversions, one of which may have cut its time.
Carried(e, k, cut) ==
    /\ \A f \in EventFields \ {"conversation_id", "outcome"} : k[f] = e[f]
    /\ \A f \in {"conversation_id", "outcome"} : e[f] # None => k[f] = e[f]
    /\ k.principal_transition_approved = None
    /\ k.time = IF cut THEN Floor(e.time) ELSE e.time

\* A multiple of a millisecond is cut to itself, and times keep their order.
LEMMA FloorBounds ==
    ASSUME NEW t \in Int
    PROVE  t \div Millisecond \in Int /\ Floor(t) \in Int /\ Floor(t) <= t /\ t < Floor(t) + Millisecond
<1>1. Millisecond \in Int /\ Millisecond > 0
  BY MillisecondAssumption
<1> QED
  BY <1>1 DEF Floor

LEMMA Multiples ==
    ASSUME NEW p \in Int, NEW q \in Int, p < q
    PROVE  p * Millisecond + Millisecond <= q * Millisecond
<1> DEFINE M == Millisecond
<1>1. M \in Int /\ M > 0 /\ q - p - 1 \in Int /\ q - p - 1 >= 0
  BY MillisecondAssumption
<1>2. (q - p - 1) * M >= 0
  <2> HIDE DEF M
  <2> QED
    BY <1>1
<1>3. (q - p - 1) * M = q * M - p * M - M
  BY <1>1
<1>4. q * M \in Int /\ p * M \in Int
  BY <1>1
<1> QED
  BY <1>1, <1>2, <1>3, <1>4

LEMMA FloorOrder ==
    ASSUME NEW s \in Int, NEW t \in Int
    PROVE  /\ Floor(s) < Floor(t) => s < t
           /\ Floor(Floor(t)) = Floor(t)
           /\ t % Millisecond = 0 => Floor(t) = t
<1> DEFINE p == s \div Millisecond
           q == t \div Millisecond
<1>1. /\ p \in Int /\ Floor(s) \in Int /\ Floor(s) <= s /\ s < Floor(s) + Millisecond
      /\ q \in Int /\ Floor(t) \in Int /\ Floor(t) <= t /\ t < Floor(t) + Millisecond
  BY FloorBounds
<1>2. Millisecond \in Int /\ Millisecond > 0
  BY MillisecondAssumption
<1>3. ASSUME Floor(s) < Floor(t) PROVE s < t
  <2>1. Floor(s) = p * Millisecond /\ Floor(t) = q * Millisecond
    BY DEF Floor
  <2> HIDE DEF p, q
  <2>2. CASE p < q
    <3>1. p * Millisecond + Millisecond <= q * Millisecond
      BY <1>1, <2>2, Multiples
    <3> QED
      BY <1>1, <1>2, <2>1, <3>1
  <2>3. CASE q < p
    <3>1. q * Millisecond + Millisecond <= p * Millisecond
      BY <1>1, <2>3, Multiples
    <3> QED
      BY <1>1, <1>2, <1>3, <2>1, <3>1
  <2>4. CASE p = q
    BY <1>1, <1>3, <2>1, <2>4
  <2> QED
    BY <1>1, <2>2, <2>3, <2>4
<1>4. Floor(Floor(t)) = Floor(t)
  <2> DEFINE r == Floor(t) \div Millisecond
  <2>1. r \in Int /\ Floor(Floor(t)) <= Floor(t) /\ Floor(t) < Floor(Floor(t)) + Millisecond /\ Floor(Floor(t)) \in Int
    BY <1>1, FloorBounds
  <2>2. Floor(Floor(t)) = r * Millisecond /\ Floor(t) = q * Millisecond
    BY DEF Floor
  <2> HIDE DEF q, r
  <2>3. CASE r < q
    <3>1. r * Millisecond + Millisecond <= q * Millisecond
      BY <1>1, <2>1, <2>3, Multiples
    <3> QED
      BY <1>1, <1>2, <2>1, <2>2, <3>1
  <2>4. CASE q < r
    <3>1. q * Millisecond + Millisecond <= r * Millisecond
      BY <1>1, <2>1, <2>4, Multiples
    <3> QED
      BY <1>1, <1>2, <2>1, <2>2, <3>1
  <2> QED
    BY <1>1, <2>1, <2>2, <2>3, <2>4
<1>5. t % Millisecond = 0 => Floor(t) = t
  BY <1>2 DEF Floor
<1> QED
  BY <1>3, <1>4, <1>5

\* Whatever a standard has no field for, an event comes back with it.
LEMMA ImportKeeps ==
    ASSUME NEW e, Shaped(e), NEW profile \in Profiles
    PROVE  Carried(e, Import(Export(e, profile)), profile = "ocsf")
<1> DEFINE record == Export(e, profile)
           event  == [f \in EventFields |-> Selected(record, f)]
           k      == Import(record)
           native == NativeFields(profile)
           more   == ExtensionFields(e, profile)
<1>1. /\ record.native = [f \in native |-> NativeValue(e, f, profile)]
      /\ record.extension = [f \in more |-> e[f]]
  BY DEF Export
<1>2. more = {f \in EventFields \ (native \ {"outcome"}) : IsSet(e, f)}
  BY DEF ExtensionFields
<1>3. /\ "time" \in native /\ "outcome" \in native /\ "caused_by_event_ids" \notin native
      /\ "time" \notin EventFields /\ "principal_transition_approved" \notin EventFields
      /\ {"outcome", "conversation_id", "caused_by_event_ids"} \subseteq EventFields
  BY DEF NativeFields, Profiles, EventFields
<1> HIDE DEF native, more
<1>4. k = Normalized(event, Selected(record, "time"))
  BY DEF Import
<1> HIDE DEF record
<1>5. /\ \A f \in EventFields : k[f] = Selected(record, f)
      /\ k.time = Selected(record, "time") /\ k.principal_transition_approved = None
  <2> HIDE DEF k
  <2>1. DOMAIN event = EventFields /\ \A f \in EventFields : event[f] = Selected(record, f)
    OBVIOUS
  <2> HIDE DEF event
  <2> QED
    BY <1>3, <1>4, <2>1 DEF Normalized
<1>6. \A f \in native : f \in DOMAIN record.native /\ record.native[f] = NativeValue(e, f, profile)
  BY <1>1
<1>7. \A f \in more : f \in DOMAIN record.extension /\ record.extension[f] = e[f]
  BY <1>1
<1>8. DOMAIN record.native = native /\ DOMAIN record.extension = more
  BY <1>1
<1>9. ASSUME NEW f \in EventFields \ {"conversation_id", "outcome"} PROVE Selected(record, f) = e[f]
  <2>1. CASE f \in native
    <3>1. record.native[f] = e[f] /\ f \notin more /\ f \in DOMAIN record.native /\ f # "caused_by_event_ids"
      BY <1>2, <1>3, <1>6, <2>1 DEF NativeValue
    <3> QED
      BY <1>8, <3>1 DEF Selected
  <2>2. CASE f \notin native
    <3>1. CASE f \in more
      BY <1>7, <1>8, <2>2, <3>1 DEF Selected
    <3>2. CASE f \notin more
      <4>1. e[f] = IF f = "caused_by_event_ids" THEN <<>> ELSE None
        BY <1>2, <2>2, <3>2 DEF IsSet
      <4> QED
        BY <1>8, <2>2, <3>2, <4>1 DEF Selected
    <3> QED
      BY <3>1, <3>2
  <2> QED
    BY <2>1, <2>2
<1>10. ASSUME e["outcome"] # None PROVE Selected(record, "outcome") = e["outcome"]
  <2>1. "outcome" \in more
    BY <1>2, <1>3, <1>10 DEF IsSet
  <2> QED
    BY <1>7, <2>1 DEF Selected
<1>11. ASSUME e["conversation_id"] # None PROVE Selected(record, "conversation_id") = e["conversation_id"]
  <2>1. CASE "conversation_id" \in native
    <3>1. record.native["conversation_id"] = e["conversation_id"]
      BY <1>6, <1>11, <2>1 DEF NativeValue, Or
    <3> QED
      BY <1>6, <1>11, <2>1, <3>1 DEF Selected
  <2>2. CASE "conversation_id" \notin native
    <3>1. "conversation_id" \in more
      BY <1>2, <1>3, <1>11, <2>2 DEF IsSet
    <3> QED
      BY <1>7, <1>8, <2>2, <3>1 DEF Selected
  <2> QED
    BY <2>1, <2>2
<1>12. Selected(record, "time") = IF profile = "ocsf" THEN Floor(e.time) ELSE e.time
  <2>1. NativeValue(e, "time", profile) = IF profile = "ocsf" THEN Floor(e.time) ELSE e.time
    BY DEF NativeValue, Floor
  <2>2. NativeValue(e, "time", profile) \in Int
    BY <2>1, FloorBounds DEF Shaped
  <2> QED
    BY <1>3, <1>6, <2>1, <2>2, AnalysisAssumption DEF Selected
<1> HIDE DEF k
<1>13. \A f \in {"conversation_id", "outcome"} : e[f] # None => k[f] = e[f]
  BY <1>3, <1>5, <1>10, <1>11
<1>14. \A f \in EventFields \ {"conversation_id", "outcome"} : k[f] = e[f]
  BY <1>5, <1>9
<1>15. Carried(e, k, profile = "ocsf")
  BY <1>5, <1>12, <1>13, <1>14 DEF Carried
<1> QED
  BY <1>15 DEF k, record

LEMMA CarriedTwice ==
    ASSUME NEW e, NEW k, NEW l, e.time \in Int, NEW c \in BOOLEAN, NEW d \in BOOLEAN, Carried(e, k, c), Carried(k, l, d)
    PROVE  Carried(e, l, c \/ d)
<1>1. l.time = IF c \/ d THEN Floor(e.time) ELSE e.time
  <2>1. Floor(Floor(e.time)) = Floor(e.time)
    BY FloorOrder
  <2> QED
    BY <2>1 DEF Carried
<1> QED
  BY <1>1 DEF Carried

-----------------------------------------------------------------------------
(* What is said of a window rests on those fields.                             *)

Alike(w, v) ==
    /\ DOMAIN v = DOMAIN w
    /\ \A i \in DOMAIN w : \A f \in EventFields \ {"conversation_id", "outcome"} : v[i][f] = w[i][f]

LEMMA AlikeFields ==
    ASSUME NEW w, NEW v, Alike(w, v), NEW i \in DOMAIN w
    PROVE  /\ v[i].id = w[i].id /\ v[i].type = w[i].type /\ v[i].trace_id = w[i].trace_id
           /\ v[i].agent_id = w[i].agent_id /\ v[i].principal_id = w[i].principal_id
           /\ v[i].parent_event_id = w[i].parent_event_id /\ v[i].caused_by_event_ids = w[i].caused_by_event_ids
           /\ v[i].delegation_id = w[i].delegation_id
           /\ v[i].delegated_from_agent_id = w[i].delegated_from_agent_id
           /\ v[i].delegated_to_agent_id = w[i].delegated_to_agent_id
           /\ v[i].identity_binding_valid = w[i].identity_binding_valid
           /\ v[i].data_lineage_id = w[i].data_lineage_id /\ v[i].memory_scope = w[i].memory_scope
           /\ v[i].memory_provenance_valid = w[i].memory_provenance_valid
           /\ v[i].memory_retention_valid = w[i].memory_retention_valid
           /\ v[i].goal_id = w[i].goal_id /\ v[i].goal_fingerprint = w[i].goal_fingerprint
           /\ v[i].goal_integrity_valid = w[i].goal_integrity_valid
           /\ v[i].goal_change_approved = w[i].goal_change_approved
BY DEF Alike, EventFields

\* The graph.
LEMMA AlikeGraph ==
    ASSUME NEW S, NEW w \in Seq(S), NEW v, Alike(w, v), \A i \in DOMAIN w : Shaped(w[i])
    PROVE  CausalGraph(v) = CausalGraph(w)
<1>1. DOMAIN v = DOMAIN w
  BY DEF Alike
<1>2. Ids(v) = Ids(w)
  BY <1>1, AlikeFields DEF Ids
<1>3. ASSUME NEW id PROVE NodeOf(v, id) = NodeOf(w, id)
  <2>1. {i \in DOMAIN v : v[i].id = id} = {i \in DOMAIN w : w[i].id = id}
    BY <1>1, AlikeFields
  <2> QED
    BY <2>1 DEF NodeOf
<1>4. ASSUME NEW j \in DOMAIN w PROVE Sources(v, j) = Sources(w, j)
  <2> DEFINE found == Within(References(w[j]), Ids(w))
             nodes == [n \in DOMAIN found |-> NodeOf(w, found[n])]
  <2>1. References(v[j]) = References(w[j])
    <3>1. v[j].parent_event_id = w[j].parent_event_id /\ v[j].caused_by_event_ids = w[j].caused_by_event_ids
      BY AlikeFields
    <3> QED
      BY <3>1 DEF References
  <2>2. \A i \in ToSet(nodes) : i \in DOMAIN w
    <3>1. PICK U : References(w[j]) \in Seq(U)
      <4> DEFINE e == w[j]
                 own == IF e.parent_event_id = None THEN <<>> ELSE <<e.parent_event_id>>
      <4>1. PICK U : e.caused_by_event_ids \in Seq(U)
        BY DEF Shaped
      <4> DEFINE V == U \union {e.parent_event_id}
      <4>2. e.caused_by_event_ids \in Seq(V)
        <5>1. U \subseteq V
          OBVIOUS
        <5> HIDE DEF V
        <5> QED
          BY <4>1, <5>1
      <4>3. own \in Seq(V)
        <5>1. <<>> \in Seq(V) /\ <<e.parent_event_id>> \in Seq(V)
          OBVIOUS
        <5> QED
          BY <5>1
      <4>4. References(e) = own \o e.caused_by_event_ids
        BY DEF References
      <4> HIDE DEF own, V
      <4>5. own \o e.caused_by_event_ids \in Seq(V)
        BY <4>2, <4>3, ConcatProperties
      <4> QED
        BY <4>4, <4>5
    <3>2. found \in Seq(U \intersect Ids(w))
      BY <3>1, WithinIs
    <3> HIDE DEF found
    <3>3. \A n \in DOMAIN found : found[n] \in Ids(w)
      BY <3>2
    <3> QED
      BY <3>3, NodeIs DEF ToSet
  <2>3. Within(References(v[j]), Ids(v)) = found
    BY <1>2, <2>1
  <2> HIDE DEF found
  <2>4. [n \in DOMAIN found |-> NodeOf(v, found[n])] = nodes
    BY <1>3
  <2> HIDE DEF nodes
  <2>5. {i \in ToSet(nodes) : MayLink(v, i, j)} = {i \in ToSet(nodes) : MayLink(w, i, j)}
    BY <1>4, <2>2, AlikeFields DEF MayLink, TraceOf
  <2>6. Sources(w, j) = Within(nodes, {i \in ToSet(nodes) : MayLink(w, i, j)})
    BY DEF Sources, nodes, found
  <2>7. Sources(v, j) = Within(nodes, {i \in ToSet(nodes) : MayLink(v, i, j)})
    BY <2>3, <2>4 DEF Sources
  <2> QED
    BY <2>5, <2>6, <2>7
<1> QED
  BY <1>1, <1>4 DEF CausalGraph

LEMMA AlikeHandoffs ==
    ASSUME NEW w, NEW v, Alike(w, v), NEW graph
    PROVE  HandoffFindings(v, graph) = HandoffFindings(w, graph)
<1> DEFINE handoffs(u) == {e \in (DOMAIN u) \X (DOMAIN u) :
                              e[1] \in Parents(graph, e[2]) /\ None \notin {u[e[1]].agent_id, u[e[2]].agent_id}
                                  /\ u[e[1]].agent_id # u[e[2]].agent_id}
           undelegated(u) == {e \in handoffs(u) : u[e[2]].delegation_id = None}
           unbound(u) == {e \in handoffs(u) : /\ u[e[2]].delegation_id # None
                                              /\ u[e[2]].type = "agent.delegation.accepted"
                                              /\ u[e[2]].identity_binding_valid = FALSE}
<1>1. DOMAIN v = DOMAIN w
  BY DEF Alike
<1>2. \A e \in (DOMAIN w) \X (DOMAIN w) : e[1] \in DOMAIN w /\ e[2] \in DOMAIN w
  OBVIOUS
<1>3. handoffs(v) = handoffs(w)
  BY <1>1, <1>2, AlikeFields
<1>4. undelegated(v) = undelegated(w) /\ unbound(v) = unbound(w)
  BY <1>1, <1>2, <1>3, AlikeFields
<1>5. \A u : HandoffFindings(u, graph) = {Found("agent_handoff_without_delegation", e) : e \in undelegated(u)}
                                         \union {Found("delegation_identity_binding_failed", e) : e \in unbound(u)}
  BY DEF HandoffFindings
<1> HIDE DEF undelegated, unbound
<1> QED
  BY <1>4, <1>5

\* The goals.
LEMMA PriorGoalIs ==
    ASSUME NEW S, NEW w \in Seq(S), NEW j \in DOMAIN w
    PROVE  PriorGoal(w, j) # 0 => PriorGoal(w, j) \in DOMAIN w
<1> DEFINE P == {i \in 1 .. j - 1 : /\ w[i].goal_id = w[j].goal_id /\ w[i].goal_fingerprint # None
                                    /\ TraceOf(w[i]) = TraceOf(w[j])}
<1>1. DOMAIN w = 1 .. Len(w) /\ Len(w) \in Nat
  OBVIOUS
<1>2. P \in SUBSET (1 .. Len(w))
  BY <1>1
<1>3. PriorGoal(w, j) = Max({0} \union P)
  BY DEF PriorGoal
<1> HIDE DEF P
<1>4. CASE P = {}
  <2> DEFINE T == {0} \union P
  <2>1. 0 \in T /\ \A x \in T : x \in Int /\ x <= 0
    BY <1>4
  <2> HIDE DEF T
  <2>2. Max(T) = 0
    BY <2>1, GreatestIs
  <2> QED
    BY <1>3, <2>2 DEF T
<1>5. CASE P # {}
  <2> DEFINE f == [i \in 1 .. Len(w) |-> i]
  <2>1. \A i \in P : f[i] = i /\ f[i] \in Int
    BY <1>1, <1>2
  <2> HIDE DEF f
  <2>2. PICK i \in P : \A k \in P : f[k] <= f[i]
    BY <1>1, <1>2, <1>5, <2>1, Greatest
  <2>3. \A x \in {0} \union P : x \in Int /\ x <= i
    BY <1>2, <2>1, <2>2
  <2>4. Max({0} \union P) = i
    BY <2>3, GreatestIs
  <2> QED
    BY <1>1, <1>2, <1>3, <2>4
<1> QED
  BY <1>4, <1>5

LEMMA AlikeGoals ==
    ASSUME NEW S, NEW w \in Seq(S), NEW v, Alike(w, v)
    PROVE  GoalFindings(v) = GoalFindings(w)
<1> DEFINE failed(u) == {j \in DOMAIN u : u[j].type = "agent.goal.integrity" /\ u[j].goal_integrity_valid = FALSE}
           changed(u) == {j \in DOMAIN u : /\ None \notin {u[j].goal_id, u[j].goal_fingerprint}
                                           /\ PriorGoal(u, j) # 0
                                           /\ u[PriorGoal(u, j)].goal_fingerprint # u[j].goal_fingerprint
                                           /\ u[j].goal_change_approved # TRUE}
<1>1. DOMAIN v = DOMAIN w /\ DOMAIN w = 1 .. Len(w) /\ Len(w) \in Nat
  BY DEF Alike
<1>2. ASSUME NEW j \in DOMAIN w PROVE PriorGoal(v, j) = PriorGoal(w, j)
  <2> DEFINE before(u) == {i \in 1 .. j - 1 : /\ u[i].goal_id = u[j].goal_id /\ u[i].goal_fingerprint # None
                                              /\ TraceOf(u[i]) = TraceOf(u[j])}
  <2>1. \A i \in 1 .. j - 1 : i \in DOMAIN w
    BY <1>1
  <2>2. before(v) = before(w)
    BY <2>1, AlikeFields DEF TraceOf
  <2> QED
    BY <2>2 DEF PriorGoal
<1>3. failed(v) = failed(w)
  BY <1>1, AlikeFields
<1>4. changed(v) = changed(w)
  <2>1. ASSUME NEW j \in DOMAIN w PROVE j \in changed(v) <=> j \in changed(w)
    <3>1. PriorGoal(w, j) # 0 => v[PriorGoal(w, j)].goal_fingerprint = w[PriorGoal(w, j)].goal_fingerprint
      BY PriorGoalIs, AlikeFields
    <3>2. /\ v[j].goal_id = w[j].goal_id /\ v[j].goal_fingerprint = w[j].goal_fingerprint
          /\ v[j].goal_change_approved = w[j].goal_change_approved
      BY AlikeFields
    <3> QED
      BY <1>1, <1>2, <3>1, <3>2
  <2> QED
    BY <1>1, <2>1
<1>5. \A u : GoalFindings(u) = {Found("goal_integrity_failed", <<j>>) : j \in failed(u)}
                               \union {Found("unapproved_goal_fingerprint_change", <<PriorGoal(u, j), j>>) : j \in changed(u)}
  BY DEF GoalFindings
<1>6. failed(w) \subseteq DOMAIN w /\ changed(w) \subseteq DOMAIN w
  OBVIOUS
<1> HIDE DEF failed, changed
<1>7. {Found("unapproved_goal_fingerprint_change", <<PriorGoal(v, j), j>>) : j \in changed(w)}
         = {Found("unapproved_goal_fingerprint_change", <<PriorGoal(w, j), j>>) : j \in changed(w)}
  BY <1>2, <1>6
<1> QED
  BY <1>3, <1>4, <1>5, <1>7

LEMMA AlikeMemory ==
    ASSUME NEW w, NEW v, Alike(w, v)
    PROVE  MemoryFindings(v) = MemoryFindings(w)
<1> DEFINE unproven(u)  == {j \in DOMAIN u : u[j].type \in MemoryEvents /\ u[j].memory_provenance_valid = FALSE}
           retained(u)  == {j \in DOMAIN u : u[j].type \in MemoryEvents /\ u[j].memory_retention_valid = FALSE}
           unlineal(u)  == {j \in DOMAIN u : /\ u[j].type = "agent.memory.written"
                                             /\ u[j].memory_scope \in {"shared", "persistent"}
                                             /\ u[j].data_lineage_id = None}
<1>1. DOMAIN v = DOMAIN w
  BY DEF Alike
<1>2. unproven(v) = unproven(w) /\ retained(v) = retained(w) /\ unlineal(v) = unlineal(w)
  BY <1>1, AlikeFields
<1>3. \A u : MemoryFindings(u) = {Found("memory_provenance_failed", <<j>>) : j \in unproven(u)}
                                 \union {Found("memory_retention_policy_failed", <<j>>) : j \in retained(u)}
                                 \union {Found("shared_memory_lineage_missing", <<j>>) : j \in unlineal(u)}
  BY DEF MemoryFindings
<1> HIDE DEF unproven, retained, unlineal
<1> QED
  BY <1>2, <1>3

\* The nodes that share a delegation are nodes of the window.
LEMMA GroupNodes ==
    ASSUME NEW S, NEW w \in Seq(S), NEW g \in DelegationGroups(w)
    PROVE  ToSet(g) \subseteq DOMAIN w
<1> DEFINE all == [i \in DOMAIN w |-> i]
           Group(j) == {i \in DOMAIN w : w[i].delegation_id = w[j].delegation_id /\ TraceOf(w[i]) = TraceOf(w[j])}
<1>1. PICK j \in DOMAIN w : g = Within(all, Group(j))
  BY DEF DelegationGroups
<1>2. all \in Seq(DOMAIN w)
  <2>1. DOMAIN w = 1 .. Len(w) /\ Len(w) \in Nat
    OBVIOUS
  <2>2. all \in [1 .. Len(w) -> DOMAIN w]
    BY <2>1
  <2> HIDE DEF all
  <2> QED
    BY <2>1, <2>2, IsASeq
<1> HIDE DEF all, Group
<1> DEFINE G == Group(j)
<1> HIDE DEF G
<1>3. ToSet(Within(all, G)) = ToSet(all) \intersect G
  BY <1>2, WithinIs
<1> QED
  BY <1>1, <1>3 DEF G, Group

\* An approval of a principal's transition is the only thing that can be lost.
LEMMA AlikeDelegations ==
    ASSUME NEW S, NEW w \in Seq(S), NEW v, Alike(w, v),
           \A i \in DOMAIN w : v[i].principal_transition_approved # TRUE
    PROVE  /\ DelegationFindings(w) \subseteq DelegationFindings(v)
           /\ \A f \in DelegationFindings(v) \ DelegationFindings(w) :
                 /\ f.code = "delegation_principal_drift"
                 /\ \E i \in DOMAIN w : w[i].principal_transition_approved = TRUE
<1> DEFINE drift(u) == {g \in DelegationGroups(u) :
                           /\ Cardinality(Values(u, g, "principal_id")) > 1
                           /\ \E i \in ToSet(g) : u[i].principal_transition_approved # TRUE}
           ends(u)  == {g \in DelegationGroups(u) :
                           \/ Cardinality(Values(u, g, "delegated_from_agent_id")) > 1
                           \/ Cardinality(Values(u, g, "delegated_to_agent_id")) > 1}
<1>1. DOMAIN v = DOMAIN w
  BY DEF Alike
<1>2. DelegationGroups(v) = DelegationGroups(w)
  <2> DEFINE all == [i \in DOMAIN w |-> i]
             Group(u, j) == {i \in DOMAIN w : u[i].delegation_id = u[j].delegation_id /\ TraceOf(u[i]) = TraceOf(u[j])}
             Given(u) == {j \in DOMAIN w : u[j].delegation_id # None}
  <2>1. \A j \in DOMAIN w : Group(v, j) = Group(w, j)
    BY AlikeFields DEF TraceOf
  <2>2. Given(v) = Given(w)
    BY AlikeFields
  <2>3. /\ DelegationGroups(v) = {Within(all, Group(v, j)) : j \in Given(v)}
        /\ DelegationGroups(w) = {Within(all, Group(w, j)) : j \in Given(w)}
    BY <1>1 DEF DelegationGroups
  <2>4. Given(w) \subseteq DOMAIN w
    OBVIOUS
  <2> HIDE DEF all, Group, Given
  <2> QED
    BY <2>1, <2>2, <2>3, <2>4
<1>3. ASSUME NEW g \in DelegationGroups(w),
             NEW f \in {"principal_id", "delegated_from_agent_id", "delegated_to_agent_id"}
      PROVE  Values(v, g, f) = Values(w, g, f)
  <2>1. ToSet(g) \subseteq DOMAIN w
    BY GroupNodes
  <2>2. f \in EventFields \ {"conversation_id", "outcome"}
    BY DEF EventFields
  <2>3. \A i \in ToSet(g) : v[i][f] = w[i][f]
    BY <2>1, <2>2 DEF Alike
  <2> QED
    BY <2>3 DEF Values
<1>4. ends(v) = ends(w)
  BY <1>2, <1>3
<1>5. drift(w) \subseteq drift(v)
  BY <1>2, <1>3, GroupNodes
<1>6. \A g \in drift(v) \ drift(w) : \E i \in DOMAIN w : w[i].principal_transition_approved = TRUE
  BY <1>2, <1>3, GroupNodes
<1>7. \A u : DelegationFindings(u) = {Found("delegation_principal_drift", g) : g \in drift(u)}
                                     \union {Found("delegation_endpoint_drift", g) : g \in ends(u)}
  BY DEF DelegationFindings
<1> HIDE DEF drift, ends
<1>8. DelegationFindings(w) \subseteq DelegationFindings(v)
  BY <1>4, <1>5, <1>7
<1>9. ASSUME NEW f \in DelegationFindings(v) \ DelegationFindings(w)
      PROVE  /\ f.code = "delegation_principal_drift"
             /\ \E i \in DOMAIN w : w[i].principal_transition_approved = TRUE
  <2>1. PICK g \in drift(v) \ drift(w) : f = Found("delegation_principal_drift", g)
    BY <1>4, <1>7, <1>9
  <2>2. f.code = "delegation_principal_drift"
    BY <2>1 DEF Found
  <2> QED
    BY <1>6, <2>1, <2>2
<1> QED
  BY <1>8, <1>9

LEMMA AlikeCodes ==
    ASSUME NEW S, NEW w \in Seq(S), NEW v, Alike(w, v), \A i \in DOMAIN w : Shaped(w[i]),
           \A i \in DOMAIN w : v[i].principal_transition_approved # TRUE
    PROVE  /\ Codes(Findings(w)) \subseteq Codes(Findings(v))
           /\ \A c \in Codes(Findings(v)) \ Codes(Findings(w)) :
                 /\ c = "delegation_principal_drift"
                 /\ \E i \in DOMAIN w : w[i].principal_transition_approved = TRUE
<1>1. HandoffFindings(v, CausalGraph(v)) = HandoffFindings(w, CausalGraph(w))
  BY AlikeGraph, AlikeHandoffs
<1>2. GoalFindings(v) = GoalFindings(w) /\ MemoryFindings(v) = MemoryFindings(w)
  BY AlikeGoals, AlikeMemory
<1>3. /\ DelegationFindings(w) \subseteq DelegationFindings(v)
      /\ \A f \in DelegationFindings(v) \ DelegationFindings(w) :
            /\ f.code = "delegation_principal_drift"
            /\ \E i \in DOMAIN w : w[i].principal_transition_approved = TRUE
  BY AlikeDelegations
<1> QED
  BY <1>1, <1>2, <1>3 DEF Codes, Findings

\* A link is an inversion only where the times are in the wrong order.
LEMMA AlikeLinks ==
    ASSUME NEW S, NEW w \in Seq(S), NEW v, Alike(w, v), NEW i \in DOMAIN w
    PROVE  /\ (\A j \in DOMAIN w : v[i].time < v[j].time => w[i].time < w[j].time) => LinkCodes(v, i) \subseteq LinkCodes(w, i)
           /\ (\A j \in DOMAIN w : v[j].time = w[j].time) => LinkCodes(v, i) = LinkCodes(w, i)
<1> DEFINE says(u, id) ==
              IF \A j \in DOMAIN u : u[j].id # id THEN {"broken_causal_link"}
              ELSE LET parent == u[IdentityOf(u, id)]
                   IN  (IF None \notin {u[i].trace_id, parent.trace_id} /\ u[i].trace_id # parent.trace_id
                        THEN {"cross_trace_causal_link"} ELSE {})
                       \union (IF u[i].time < parent.time THEN {"causal_time_inversion"} ELSE {})
<1>1. DOMAIN v = DOMAIN w
  BY DEF Alike
<1>2. Referenced(v[i]) = Referenced(w[i])
  <2>1. v[i].parent_event_id = w[i].parent_event_id /\ v[i].caused_by_event_ids = w[i].caused_by_event_ids
    BY AlikeFields
  <2> QED
    BY <2>1 DEF Referenced
<1>3. \A u : LinkCodes(u, i) = UNION {says(u, id) : id \in Referenced(u[i])}
  BY DEF LinkCodes
<1>4. ASSUME NEW id \in Referenced(w[i])
      PROVE  /\ (\A j \in DOMAIN w : v[i].time < v[j].time => w[i].time < w[j].time) => says(v, id) \subseteq says(w, id)
             /\ (\A j \in DOMAIN w : v[j].time = w[j].time) => says(v, id) = says(w, id)
  <2>1. (\A j \in DOMAIN v : v[j].id # id) <=> (\A j \in DOMAIN w : w[j].id # id)
    BY <1>1, AlikeFields
  <2>2. CASE \A j \in DOMAIN w : w[j].id # id
    BY <2>1, <2>2
  <2>3. CASE \E j \in DOMAIN w : w[j].id = id
    <3> DEFINE p == IdentityOf(w, id)
    <3>1. IdentityOf(v, id) = p
      <4>1. {j \in DOMAIN v : v[j].id = id} = {j \in DOMAIN w : w[j].id = id}
        BY <1>1, AlikeFields
      <4> QED
        BY <4>1 DEF IdentityOf
    <3>2. p \in DOMAIN w
      <4>1. id \in Ids(w)
        BY <2>3 DEF Ids, Referenced
      <4>2. NodeOf(w, id) \in DOMAIN w
        BY <4>1, NodeIs
      <4> QED
        BY <4>2 DEF NodeOf, IdentityOf
    <3> HIDE DEF p
    <3>3. v[i].trace_id = w[i].trace_id /\ v[p].trace_id = w[p].trace_id
      BY <3>2, AlikeFields
    <3>4. says(v, id) = (IF None \notin {w[i].trace_id, w[p].trace_id} /\ w[i].trace_id # w[p].trace_id
                         THEN {"cross_trace_causal_link"} ELSE {})
                        \union (IF v[i].time < v[p].time THEN {"causal_time_inversion"} ELSE {})
      BY <2>1, <2>3, <3>1, <3>3
    <3>5. says(w, id) = (IF None \notin {w[i].trace_id, w[p].trace_id} /\ w[i].trace_id # w[p].trace_id
                         THEN {"cross_trace_causal_link"} ELSE {})
                        \union (IF w[i].time < w[p].time THEN {"causal_time_inversion"} ELSE {})
      BY <2>3 DEF p
    <3> HIDE DEF says
    <3> QED
      BY <3>2, <3>4, <3>5
  <2> QED
    BY <2>2, <2>3
<1> HIDE DEF says
<1>5. /\ LinkCodes(v, i) = UNION {says(v, id) : id \in Referenced(w[i])}
      /\ LinkCodes(w, i) = UNION {says(w, id) : id \in Referenced(w[i])}
  BY <1>2, <1>3
<1>6. ASSUME \A j \in DOMAIN w : v[i].time < v[j].time => w[i].time < w[j].time PROVE LinkCodes(v, i) \subseteq LinkCodes(w, i)
  <2>1. \A id \in Referenced(w[i]) : says(v, id) \subseteq says(w, id)
    BY <1>4, <1>6
  <2> QED
    BY <1>5, <2>1
<1>7. ASSUME \A j \in DOMAIN w : v[j].time = w[j].time PROVE LinkCodes(v, i) = LinkCodes(w, i)
  <2>1. \A id \in Referenced(w[i]) : says(v, id) = says(w, id)
    BY <1>4, <1>7
  <2> QED
    BY <1>5, <2>1
<1> QED
  BY <1>6, <1>7

\* Before a conversion a window has the events that came, afterwards what they came to be.
ConversionInv ==
    /\ WindowInv
    /\ conversions \in Seq(Profiles)
    /\ \E T : delivered \in Seq(T)
    /\ DOMAIN window = DOMAIN delivered
    /\ \A n \in DOMAIN delivered :
          /\ delivered[n] \in DOMAIN corpus.events
          /\ IF conversions = <<>> THEN window[n] = corpus.events[delivered[n]]
             ELSE Carried(corpus.events[delivered[n]], window[n], "ocsf" \in ToSet(conversions))

LEMMA ConversionStep == ConversionInv /\ [Next]_vars => ConversionInv'
<1> SUFFICES ASSUME ConversionInv, [Next]_vars PROVE ConversionInv'
  OBVIOUS
<1>1. WindowInv'
  BY WindowStep DEF ConversionInv
<1>2. PICK T : delivered \in Seq(T)
  BY DEF ConversionInv
<1>3. PICK S : window \in Seq(S)
  BY DEF ConversionInv, WindowInv, BundleInv
<1>4. ASSUME NEW i, Deliver(i) PROVE ConversionInv'
  <2> DEFINE e == corpus.events[i]
  <2>1. /\ conversions = <<>> /\ conversions' = conversions /\ corpus' = corpus /\ i \in DOMAIN corpus.events
        /\ delivered' = Append(delivered, i) /\ window' = Append(window, e)
    BY <1>4 DEF Deliver
  <2>2. Len(window) = Len(delivered) /\ Len(window) \in Nat /\ DOMAIN window = 1 .. Len(window)
    BY <1>2, <1>3 DEF ConversionInv
  <2> HIDE DEF e
  <2>3. /\ DOMAIN Append(window, e) = 1 .. Len(window) + 1 /\ Append(window, e)[Len(window) + 1] = e
        /\ \A n \in 1 .. Len(window) : Append(window, e)[n] = window[n]
    BY <1>3
  <2>4. /\ DOMAIN Append(delivered, i) = 1 .. Len(window) + 1 /\ Append(delivered, i)[Len(window) + 1] = i
        /\ \A n \in 1 .. Len(window) : Append(delivered, i)[n] = delivered[n]
    BY <1>2, <2>2
  <2>5. \E U : delivered' \in Seq(U)
    <3>1. Append(delivered, i) \in Seq(T \union {i})
      BY <1>2
    <3> QED
      BY <2>1, <3>1
  <2>6. ASSUME NEW n \in DOMAIN delivered'
        PROVE  delivered'[n] \in DOMAIN corpus.events /\ window'[n] = corpus.events[delivered'[n]]
    <3>1. CASE n = Len(window) + 1
      BY <2>1, <2>3, <2>4, <3>1 DEF e
    <3>2. CASE n \in 1 .. Len(window)
      <4>1. delivered'[n] = delivered[n] /\ window'[n] = window[n] /\ n \in DOMAIN delivered
        BY <2>1, <2>2, <2>3, <2>4, <3>2 DEF ConversionInv
      <4> QED
        BY <2>1, <4>1 DEF ConversionInv
    <3>3. n \in 1 .. Len(window) + 1
      BY <2>1, <2>4, <2>6
    <3> QED
      BY <2>2, <3>1, <3>2, <3>3
  <2>7. DOMAIN window' = DOMAIN delivered' /\ conversions' = <<>> /\ conversions' \in Seq(Profiles)
    BY <2>1, <2>3, <2>4 DEF ConversionInv
  <2> QED
    BY <1>1, <2>1, <2>5, <2>6, <2>7 DEF ConversionInv
<1>5. ASSUME NEW profile \in Profiles, Convert(profile) PROVE ConversionInv'
  <2>1. /\ conversions' = Append(conversions, profile) /\ delivered' = delivered /\ corpus' = corpus
        /\ window' = [n \in DOMAIN window |-> Import(Export(window[n], profile))] /\ study = "window"
    BY <1>5 DEF Convert, Converted
  <2> DEFINE ocsf == "ocsf" \in ToSet(conversions)
  <2>2. /\ conversions' \in Seq(Profiles) /\ conversions' # <<>>
        /\ "ocsf" \in ToSet(conversions') <=> (ocsf \/ profile = "ocsf")
    <3>1. conversions \in Seq(Profiles)
      BY DEF ConversionInv
    <3>2. /\ Append(conversions, profile) \in Seq(Profiles) /\ Append(conversions, profile) # <<>>
          /\ DOMAIN Append(conversions, profile) = 1 .. Len(conversions) + 1 /\ Len(conversions) \in Nat
          /\ DOMAIN conversions = 1 .. Len(conversions)
          /\ Append(conversions, profile)[Len(conversions) + 1] = profile
          /\ \A n \in 1 .. Len(conversions) : Append(conversions, profile)[n] = conversions[n]
      BY <3>1
    <3>3. ToSet(Append(conversions, profile)) = ToSet(conversions) \union {profile}
      <4> DEFINE more == Append(conversions, profile)
      <4>1. \A n \in DOMAIN more : n \in DOMAIN conversions \/ n = Len(conversions) + 1
        BY <3>2
      <4>2. \A n \in DOMAIN conversions : n \in DOMAIN more /\ more[n] = conversions[n]
        BY <3>2
      <4>3. Len(conversions) + 1 \in DOMAIN more /\ more[Len(conversions) + 1] = profile
        BY <3>2
      <4> HIDE DEF more
      <4>4. ToSet(more) = ToSet(conversions) \union {profile}
        BY <4>1, <4>2, <4>3 DEF ToSet
      <4> QED
        BY <4>4 DEF more
    <3> QED
      BY <2>1, <3>2, <3>3
  <2>3. ASSUME NEW n \in DOMAIN delivered
        PROVE  /\ delivered[n] \in DOMAIN corpus.events
               /\ Carried(corpus.events[delivered[n]], window'[n], ocsf \/ profile = "ocsf")
    <3> DEFINE e == corpus.events[delivered[n]]
    <3>1. n \in DOMAIN window /\ delivered[n] \in DOMAIN corpus.events
      BY DEF ConversionInv
    <3>2. window'[n] = Import(Export(window[n], profile)) /\ Shaped(window[n])
      BY <2>1, <3>1 DEF ConversionInv, WindowInv
    <3>3. Carried(window[n], window'[n], profile = "ocsf")
      BY <3>2, ImportKeeps
    <3>4. e.time \in Int
      BY <2>1, <3>1, AnalysisAssumption DEF ConversionInv, WindowInv, BundleInv
    <3>5. CASE conversions = <<>>
      <4>1. window[n] = e /\ ~ocsf
        BY <3>5 DEF ConversionInv, ToSet
      <4> QED
        BY <3>1, <3>3, <4>1
    <3>6. CASE conversions # <<>>
      <4>1. Carried(e, window[n], ocsf)
        BY <3>6 DEF ConversionInv
      <4> DEFINE k == window[n]
                 l == window'[n]
                 d == profile = "ocsf"
      <4>2. ocsf \in BOOLEAN /\ d \in BOOLEAN /\ Carried(k, l, d)
        BY <3>3
      <4> HIDE DEF e, k, l, d, ocsf
      <4>3. Carried(e, l, ocsf \/ d)
        BY <3>4, <4>1, <4>2, CarriedTwice DEF k
      <4> QED
        BY <3>1, <4>3 DEF e, l, d
    <3> QED
      BY <3>5, <3>6
  <2>4. DOMAIN window' = DOMAIN delivered'
    BY <2>1 DEF ConversionInv
  <2> HIDE DEF ocsf
  <2>6. ASSUME NEW n \in DOMAIN delivered'
        PROVE  /\ delivered'[n] \in DOMAIN corpus'.events
               /\ Carried(corpus'.events[delivered'[n]], window'[n], "ocsf" \in ToSet(conversions'))
    <3>1. n \in DOMAIN delivered
      BY <2>1
    <3>2. /\ delivered[n] \in DOMAIN corpus.events
          /\ Carried(corpus.events[delivered[n]], window'[n], ocsf \/ profile = "ocsf")
      BY <2>3, <3>1
    <3> QED
      BY <2>1, <2>2, <3>2 DEF Carried
  <2> QED
    BY <1>1, <1>2, <2>1, <2>2, <2>4, <2>6 DEF ConversionInv
<1>6. CASE UNCHANGED windowVars
  BY <1>1, <1>6 DEF ConversionInv, windowVars
<1> QED
  BY <1>4, <1>5, <1>6 DEF Next, Observe, Tune, LoseAlert, Slow, Ask, vars, windowVars

LEMMA ConversionStart == Init => ConversionInv
<1> SUFFICES ASSUME Init PROVE ConversionInv
  OBVIOUS
<1>1. WindowInv
  BY WindowStart
<1>2. window = <<>> /\ delivered = <<>> /\ conversions = <<>>
  BY DEF Init
<1>3. delivered \in Seq({}) /\ conversions \in Seq(Profiles) /\ DOMAIN delivered = {}
  BY <1>2
<1> QED
  BY <1>1, <1>2, <1>3 DEF ConversionInv

\* However often and by whatever standards a window is converted: what is found in it is found
\* again, no more than an approval that was lost had covered, and its links are no worse.
THEOREM ConversionsKeep == Spec => []ConversionKeepsFindings
<1>1. ConversionInv => ConversionKeepsFindings
  <2> DEFINE original == [n \in DOMAIN delivered |-> corpus.events[delivered[n]]]
             ocsf     == "ocsf" \in ToSet(conversions)
             links(w) == UNION {LinkCodes(w, i) : i \in DOMAIN w}
  <2> SUFFICES ASSUME ConversionInv, study = "window", conversions # <<>>
               PROVE  /\ Codes(Findings(original)) \subseteq Codes(Findings(window))
                      /\ Codes(Findings(window)) \subseteq
                            Codes(Findings(original)) \union
                                (IF \E n \in DOMAIN original : original[n].principal_transition_approved = TRUE
                                 THEN {"delegation_principal_drift"} ELSE {})
                      /\ \A n \in DOMAIN window : \A f \in Compared :
                            /\ original[n].time % Millisecond = 0 /\ original[n].conversation_id # None
                            /\ f = "outcome" => original[n].outcome # None
                            => window[n][f] = original[n][f]
                      /\ links(window) \subseteq links(original)
                      /\ ~ocsf => links(window) = links(original)
    BY DEF ConversionKeepsFindings
  <2>1. /\ DOMAIN original = DOMAIN delivered /\ DOMAIN window = DOMAIN delivered
        /\ \A n \in DOMAIN delivered : delivered[n] \in DOMAIN corpus.events /\ original[n] = corpus.events[delivered[n]]
    BY DEF ConversionInv
  <2>2. \A n \in DOMAIN original : Carried(original[n], window[n], ocsf)
    BY DEF ConversionInv
  <2>3. \A n \in DOMAIN original : Shaped(original[n])
    BY <2>1, AnalysisAssumption DEF ConversionInv, WindowInv, BundleInv, Shaped
  <2>4. PICK S : original \in Seq(S)
    <3> DEFINE S == {corpus.events[delivered[n]] : n \in DOMAIN delivered}
    <3>1. PICK T : delivered \in Seq(T)
      BY DEF ConversionInv
    <3>2. DOMAIN delivered = 1 .. Len(delivered) /\ Len(delivered) \in Nat
      BY <3>1
    <3>3. original \in [1 .. Len(delivered) -> S]
      BY <3>2
    <3> HIDE DEF original, S
    <3>4. original \in Seq(S)
      BY <3>2, <3>3, IsASeq
    <3> QED
      BY <3>4, Zenon
  <2> HIDE DEF original, ocsf
  <2>5. Alike(original, window) /\ \A n \in DOMAIN original : window[n].principal_transition_approved # TRUE
    BY <2>1, <2>2, AnalysisAssumption DEF Alike, Carried
  <2>6. /\ Codes(Findings(original)) \subseteq Codes(Findings(window))
        /\ \A c \in Codes(Findings(window)) \ Codes(Findings(original)) :
              /\ c = "delegation_principal_drift"
              /\ \E n \in DOMAIN original : original[n].principal_transition_approved = TRUE
    BY <2>3, <2>4, <2>5, AlikeCodes
  <2>7. ASSUME NEW n \in DOMAIN window, NEW f \in Compared,
               original[n].time % Millisecond = 0, original[n].conversation_id # None,
               f = "outcome" => original[n].outcome # None
        PROVE  window[n][f] = original[n][f]
    <3>1. Carried(original[n], window[n], ocsf) /\ original[n].time \in Int
      BY <2>1, <2>2, <2>3 DEF Shaped
    <3>2. CASE f = "time"
      <4>1. Floor(original[n].time) = original[n].time
        BY <2>7, <3>1, FloorOrder
      <4> QED
        BY <3>1, <3>2, <4>1 DEF Carried
    <3>3. CASE f # "time"
      <4>1. f \in EventFields
        BY <3>3 DEF Compared
      <4> QED
        BY <2>7, <3>1, <4>1 DEF Carried
    <3> QED
      BY <3>2, <3>3
  <2>8. ASSUME NEW i \in DOMAIN original
        PROVE  /\ LinkCodes(window, i) \subseteq LinkCodes(original, i)
               /\ ~ocsf => LinkCodes(window, i) = LinkCodes(original, i)
    <3>1. ASSUME NEW j \in DOMAIN original, window[i].time < window[j].time PROVE original[i].time < original[j].time
      <4>1. original[i].time \in Int /\ original[j].time \in Int
        BY <2>3 DEF Shaped
      <4>2. Carried(original[i], window[i], ocsf) /\ Carried(original[j], window[j], ocsf)
        BY <2>2
      <4>3. Floor(original[i].time) < Floor(original[j].time) => original[i].time < original[j].time
        BY <4>1, FloorOrder
      <4> QED
        BY <3>1, <4>2, <4>3 DEF Carried
    <3>2. ~ocsf => \A j \in DOMAIN original : window[j].time = original[j].time
      BY <2>2 DEF Carried
    <3> QED
      BY <2>4, <2>5, <3>1, <3>2, AlikeLinks
  <2>9. links(window) \subseteq links(original) /\ (~ocsf => links(window) = links(original))
    BY <2>1, <2>8
  <2> QED
    BY <2>6, <2>7, <2>9
<1> QED
  BY <1>1, ConversionStart, ConversionStep, PTL DEF Spec

-----------------------------------------------------------------------------
(* What is found, by the set of the events: where no two of them share an id    *)
(* and no change of a goal was approved, their order and number do not matter.  *)

Distinct(S)   == \A e, f \in S : e.id = f.id => e = f
Unapproved(S) == \A e \in S : e.goal_change_approved # TRUE

\* What is said of which trace.
Says(w, findings) == {<<f.code, TraceOf(w[Last(f.nodes)])>> : f \in findings}

LEMMA SaysOne ==
    ASSUME NEW w, NEW c, NEW G
    PROVE  Says(w, {Found(c, g) : g \in G}) = {<<c, TraceOf(w[Last(g)])>> : g \in G}
<1> DEFINE F == {Found(c, g) : g \in G}
           said(f) == <<f.code, TraceOf(w[Last(f.nodes)])>>
<1>1. \A g : said(Found(c, g)) = <<c, TraceOf(w[Last(g)])>>
  BY DEF Found
<1>2. Says(w, F) = {said(f) : f \in F}
  BY DEF Says
<1> HIDE DEF said
<1>3. {said(f) : f \in F} = {said(Found(c, g)) : g \in G}
  OBVIOUS
<1> HIDE DEF F
<1>4. {said(Found(c, g)) : g \in G} = {<<c, TraceOf(w[Last(g)])>> : g \in G}
  BY <1>1
<1> QED
  BY <1>2, <1>3, <1>4 DEF F

LEMMA SaysBoth ==
    ASSUME NEW w, NEW U, NEW V
    PROVE  Says(w, U \union V) = Says(w, U) \union Says(w, V)
BY DEF Says

LEMMA SaysTwo ==
    ASSUME NEW w, NEW c, NEW d, NEW G, NEW H
    PROVE  Says(w, {Found(c, g) : g \in G} \union {Found(d, g) : g \in H})
               = {<<c, TraceOf(w[Last(g)])>> : g \in G} \union {<<d, TraceOf(w[Last(g)])>> : g \in H}
<1> DEFINE U == {Found(c, g) : g \in G}
           V == {Found(d, g) : g \in H}
<1>1. Says(w, U) = {<<c, TraceOf(w[Last(g)])>> : g \in G} /\ Says(w, V) = {<<d, TraceOf(w[Last(g)])>> : g \in H}
  BY SaysOne
<1> HIDE DEF U, V
<1>2. Says(w, U \union V) = Says(w, U) \union Says(w, V)
  BY SaysBoth
<1> QED
  BY <1>1, <1>2 DEF U, V

\* An event and its cause, of two agents.
Handoffs(S) ==
    {p \in S \X S : /\ p[1].id \in Referenced(p[2]) /\ TraceOf(p[1]) = TraceOf(p[2])
                    /\ None \notin {p[1].agent_id, p[2].agent_id} /\ p[1].agent_id # p[2].agent_id}

HandoffsSaid(S) ==
    {<<"agent_handoff_without_delegation", TraceOf(p[2])>> : p \in {p \in Handoffs(S) : p[2].delegation_id = None}}
    \union {<<"delegation_identity_binding_failed", TraceOf(p[2])>> :
               p \in {p \in Handoffs(S) : /\ p[2].delegation_id # None /\ p[2].type = "agent.delegation.accepted"
                                          /\ p[2].identity_binding_valid = FALSE}}

LEMMA HandoffsAre ==
    ASSUME NEW S, NEW w \in Seq(S), \A i \in DOMAIN w : Shaped(w[i]), Distinct(ToSet(w))
    PROVE  /\ \A i, j \in DOMAIN w :
                 /\ i \in Parents(CausalGraph(w), j) /\ None \notin {w[i].agent_id, w[j].agent_id}
                 /\ w[i].agent_id # w[j].agent_id
                 => <<w[i], w[j]>> \in Handoffs(ToSet(w))
           /\ \A p \in Handoffs(ToSet(w)) : \E i, j \in DOMAIN w :
                 /\ w[i] = p[1] /\ w[j] = p[2] /\ i \in Parents(CausalGraph(w), j)
                 /\ None \notin {w[i].agent_id, w[j].agent_id} /\ w[i].agent_id # w[j].agent_id
<1> DEFINE graph == CausalGraph(w)
<1>1. \A j \in DOMAIN w :
         Parents(graph, j) = {i \in DOMAIN w : /\ MayLink(w, i, j)
                                               /\ \E id \in Referenced(w[j]) \intersect Ids(w) : i = NodeOf(w, id)}
  BY GraphIs
<1> HIDE DEF graph
<1>2. \A i \in DOMAIN w : w[i] \in ToSet(w)
  BY DEF ToSet
<1>3. ASSUME NEW i \in DOMAIN w, NEW j \in DOMAIN w, i \in Parents(graph, j),
             None \notin {w[i].agent_id, w[j].agent_id}, w[i].agent_id # w[j].agent_id
      PROVE  <<w[i], w[j]>> \in Handoffs(ToSet(w))
  <2>1. PICK id \in Referenced(w[j]) \intersect Ids(w) : i = NodeOf(w, id)
    BY <1>1, <1>3
  <2>2. w[i].id = id /\ TraceOf(w[i]) = TraceOf(w[j])
    BY <1>1, <1>3, <2>1, NodeIs DEF MayLink
  <2> QED
    BY <1>2, <1>3, <2>1, <2>2 DEF Handoffs
<1>4. ASSUME NEW p \in Handoffs(ToSet(w))
      PROVE  \E i, j \in DOMAIN w :
                 /\ w[i] = p[1] /\ w[j] = p[2] /\ i \in Parents(graph, j)
                 /\ None \notin {w[i].agent_id, w[j].agent_id} /\ w[i].agent_id # w[j].agent_id
  <2>1. /\ p[1] \in ToSet(w) /\ p[2] \in ToSet(w) /\ p[1].id \in Referenced(p[2]) /\ TraceOf(p[1]) = TraceOf(p[2])
        /\ None \notin {p[1].agent_id, p[2].agent_id} /\ p[1].agent_id # p[2].agent_id
    BY <1>4 DEF Handoffs
  <2>2. PICK j \in DOMAIN w : w[j] = p[2]
    BY <2>1 DEF ToSet
  <2>3. p[1].id \in Ids(w)
    BY <2>1 DEF Ids, ToSet, Referenced
  <2> DEFINE i == NodeOf(w, p[1].id)
  <2>4. i \in DOMAIN w /\ w[i].id = p[1].id
    BY <2>3, NodeIs
  <2> HIDE DEF i
  <2>5. w[i] = p[1]
    BY <1>2, <2>1, <2>4 DEF Distinct
  <2>6. MayLink(w, i, j)
    BY <2>1, <2>2, <2>5 DEF MayLink
  <2>7. i \in Parents(graph, j)
    BY <1>1, <2>1, <2>2, <2>3, <2>4, <2>6 DEF i
  <2> QED
    BY <2>1, <2>2, <2>4, <2>5, <2>7
<1> QED
  BY <1>3, <1>4 DEF graph

LEMMA HandoffsSay ==
    ASSUME NEW S, NEW w \in Seq(S), \A i \in DOMAIN w : Shaped(w[i]), Distinct(ToSet(w))
    PROVE  Says(w, HandoffFindings(w, CausalGraph(w))) = HandoffsSaid(ToSet(w))
<1> DEFINE graph == CausalGraph(w)
           H == {e \in (DOMAIN w) \X (DOMAIN w) :
                    e[1] \in Parents(graph, e[2]) /\ None \notin {w[e[1]].agent_id, w[e[2]].agent_id}
                        /\ w[e[1]].agent_id # w[e[2]].agent_id}
           A == {e \in H : w[e[2]].delegation_id = None}
           B == {e \in H : /\ w[e[2]].delegation_id # None
                           /\ w[e[2]].type = "agent.delegation.accepted"
                           /\ w[e[2]].identity_binding_valid = FALSE}
           T == Handoffs(ToSet(w))
           C == {p \in T : p[2].delegation_id = None}
           D == {p \in T : /\ p[2].delegation_id # None /\ p[2].type = "agent.delegation.accepted"
                           /\ p[2].identity_binding_valid = FALSE}
<1>1. /\ \A e \in H : <<w[e[1]], w[e[2]]>> \in T
      /\ \A p \in T : \E e \in H : w[e[1]] = p[1] /\ w[e[2]] = p[2]
  <2>1. ASSUME NEW e \in H PROVE <<w[e[1]], w[e[2]]>> \in T
    BY HandoffsAre
  <2>2. ASSUME NEW p \in T PROVE \E e \in H : w[e[1]] = p[1] /\ w[e[2]] = p[2]
    <3>1. PICK i \in DOMAIN w, j \in DOMAIN w :
             /\ w[i] = p[1] /\ w[j] = p[2] /\ i \in Parents(graph, j)
             /\ None \notin {w[i].agent_id, w[j].agent_id} /\ w[i].agent_id # w[j].agent_id
      BY HandoffsAre
    <3>2. <<i, j>> \in H
      BY <3>1
    <3> QED
      BY <3>1, <3>2
  <2> QED
    BY <2>1, <2>2
<1>2. HandoffFindings(w, graph) = {Found("agent_handoff_without_delegation", e) : e \in A}
                                  \union {Found("delegation_identity_binding_failed", e) : e \in B}
  BY DEF HandoffFindings
<1>3. HandoffsSaid(ToSet(w)) = {<<"agent_handoff_without_delegation", TraceOf(p[2])>> : p \in C}
                               \union {<<"delegation_identity_binding_failed", TraceOf(p[2])>> : p \in D}
  BY DEF HandoffsSaid
<1>4. \A e \in H : Last(e) = e[2]
  <2>1. \A i, j : Last(<<i, j>>) = j
    BY DEF Last
  <2>2. \A e \in H : e = <<e[1], e[2]>>
    OBVIOUS
  <2> HIDE DEF H
  <2> QED
    BY <2>1, <2>2
<1>5. /\ \A e \in A : \E p \in C : p[2] = w[e[2]]
      /\ \A e \in B : \E p \in D : p[2] = w[e[2]]
      /\ \A p \in C : \E e \in A : p[2] = w[e[2]]
      /\ \A p \in D : \E e \in B : p[2] = w[e[2]]
  <2> HIDE DEF H, T
  <2>1. \A e \in A : \E p \in C : p[2] = w[e[2]]
    BY <1>1
  <2>2. \A e \in B : \E p \in D : p[2] = w[e[2]]
    BY <1>1
  <2>3. \A p \in C : \E e \in A : p[2] = w[e[2]]
    BY <1>1
  <2>4. \A p \in D : \E e \in B : p[2] = w[e[2]]
    BY <1>1
  <2> QED
    BY <2>1, <2>2, <2>3, <2>4
<1>6. A \subseteq H /\ B \subseteq H
  OBVIOUS
<1> HIDE DEF graph, H, A, B, T, C, D
<1>8. Says(w, HandoffFindings(w, graph)) = {<<"agent_handoff_without_delegation", TraceOf(w[e[2]])>> : e \in A}
                                           \union {<<"delegation_identity_binding_failed", TraceOf(w[e[2]])>> : e \in B}
  <2>1. /\ {<<"agent_handoff_without_delegation", TraceOf(w[Last(e)])>> : e \in A}
              = {<<"agent_handoff_without_delegation", TraceOf(w[e[2]])>> : e \in A}
        /\ {<<"delegation_identity_binding_failed", TraceOf(w[Last(e)])>> : e \in B}
              = {<<"delegation_identity_binding_failed", TraceOf(w[e[2]])>> : e \in B}
    BY <1>4, <1>6
  <2>2. Says(w, HandoffFindings(w, graph))
            = {<<"agent_handoff_without_delegation", TraceOf(w[Last(e)])>> : e \in A}
              \union {<<"delegation_identity_binding_failed", TraceOf(w[Last(e)])>> : e \in B}
    BY <1>2, SaysTwo
  <2> QED
    BY <2>1, <2>2
<1>9. /\ {<<"agent_handoff_without_delegation", TraceOf(w[e[2]])>> : e \in A}
            = {<<"agent_handoff_without_delegation", TraceOf(p[2])>> : p \in C}
      /\ {<<"delegation_identity_binding_failed", TraceOf(w[e[2]])>> : e \in B}
            = {<<"delegation_identity_binding_failed", TraceOf(p[2])>> : p \in D}
  BY <1>5
<1> QED
  BY <1>3, <1>8, <1>9 DEF graph

\* The events that share a delegation with c.
Sharing(S, c) == {e \in S : e.delegation_id = c.delegation_id /\ TraceOf(e) = TraceOf(c)}

ValuesOf(S, field) == {e[field] : e \in S} \ {None}

Drifting(S) == {c \in S : /\ c.delegation_id # None
                          /\ Cardinality(ValuesOf(Sharing(S, c), "principal_id")) > 1
                          /\ \E e \in Sharing(S, c) : e.principal_transition_approved # TRUE}

Diverging(S) == {c \in S : /\ c.delegation_id # None
                           /\ \/ Cardinality(ValuesOf(Sharing(S, c), "delegated_from_agent_id")) > 1
                              \/ Cardinality(ValuesOf(Sharing(S, c), "delegated_to_agent_id")) > 1}

DelegationsSaid(S) ==
    {<<"delegation_principal_drift", TraceOf(c)>> : c \in Drifting(S)}
    \union {<<"delegation_endpoint_drift", TraceOf(c)>> : c \in Diverging(S)}

\* A group g of nodes is the events that share the delegation of the event c.
GroupOf(w, g, c) ==
    /\ \A f : Values(w, g, f) = ValuesOf(Sharing(ToSet(w), c), f)
    /\ (\E i \in ToSet(g) : w[i].principal_transition_approved # TRUE)
          <=> (\E e \in Sharing(ToSet(w), c) : e.principal_transition_approved # TRUE)
    /\ TraceOf(w[Last(g)]) = TraceOf(c)
    /\ c \in ToSet(w) /\ c.delegation_id # None

LEMMA GroupsAre ==
    ASSUME NEW S, NEW w \in Seq(S)
    PROVE  /\ \A g \in DelegationGroups(w) : \E c \in ToSet(w) : GroupOf(w, g, c)
           /\ \A c \in ToSet(w) : c.delegation_id # None => \E g \in DelegationGroups(w) : GroupOf(w, g, c)
<1> DEFINE Group(j) == {i \in DOMAIN w : w[i].delegation_id = w[j].delegation_id /\ TraceOf(w[i]) = TraceOf(w[j])}
           all == [i \in DOMAIN w |-> i]
<1>1. all \in Seq(DOMAIN w) /\ ToSet(all) = DOMAIN w
  <2>1. DOMAIN w = 1 .. Len(w) /\ Len(w) \in Nat
    OBVIOUS
  <2>2. all \in [1 .. Len(w) -> DOMAIN w]
    BY <2>1
  <2>3. ToSet(all) = DOMAIN w
    BY DEF ToSet
  <2> HIDE DEF all
  <2> QED
    BY <2>1, <2>2, <2>3, IsASeq
<1>2. DelegationGroups(w) = {Within(all, Group(j)) : j \in {j \in DOMAIN w : w[j].delegation_id # None}}
  BY DEF DelegationGroups
<1> HIDE DEF all
<1>3. ASSUME NEW j \in DOMAIN w, w[j].delegation_id # None PROVE GroupOf(w, Within(all, Group(j)), w[j])
  <2> DEFINE G == Group(j)
             g == Within(all, G)
             T == Sharing(ToSet(w), w[j])
  <2>1. j \in G /\ G \subseteq DOMAIN w
    OBVIOUS
  <2>2. T = {w[i] : i \in G}
    BY DEF Sharing, ToSet
  <2>3. \A i \in G : TraceOf(w[i]) = TraceOf(w[j])
    OBVIOUS
  <2> HIDE DEF G, T
  <2>4. g \in Seq((DOMAIN w) \intersect G) /\ ToSet(g) = (DOMAIN w) \intersect G
    BY <1>1, WithinIs
  <2> HIDE DEF g
  <2>5. ToSet(g) = G
    BY <2>1, <2>4
  <2>6. g # <<>>
    BY <2>1, <2>5 DEF ToSet
  <2>7. Len(g) \in DOMAIN g
    BY <2>4, <2>6, EmptySeq
  <2>8. Last(g) \in G
    BY <2>4, <2>7 DEF Last
  <2>9. \A f : Values(w, g, f) = ValuesOf(T, f)
    BY <2>2, <2>5 DEF Values, ValuesOf
  <2>10. w[j] \in ToSet(w)
    BY DEF ToSet
  <2>11. GroupOf(w, g, w[j])
    BY <1>3, <2>2, <2>3, <2>5, <2>8, <2>9, <2>10 DEF GroupOf, T
  <2> QED
    BY <2>11 DEF g, G
<1> HIDE DEF Group
<1>4. ASSUME NEW g \in DelegationGroups(w) PROVE \E c \in ToSet(w) : GroupOf(w, g, c)
  <2>1. PICK j \in DOMAIN w : w[j].delegation_id # None /\ g = Within(all, Group(j))
    BY <1>2
  <2>2. w[j] \in ToSet(w)
    BY DEF ToSet
  <2> QED
    BY <1>3, <2>1, <2>2
<1>5. ASSUME NEW c \in ToSet(w), c.delegation_id # None PROVE \E g \in DelegationGroups(w) : GroupOf(w, g, c)
  <2>1. PICK j \in DOMAIN w : c = w[j]
    BY DEF ToSet
  <2> QED
    BY <1>2, <1>3, <1>5, <2>1
<1> QED
  BY <1>4, <1>5

LEMMA DelegationsSay ==
    ASSUME NEW S, NEW w \in Seq(S)
    PROVE  Says(w, DelegationFindings(w)) = DelegationsSaid(ToSet(w))
<1> DEFINE A == {g \in DelegationGroups(w) :
                    /\ Cardinality(Values(w, g, "principal_id")) > 1
                    /\ \E i \in ToSet(g) : w[i].principal_transition_approved # TRUE}
           B == {g \in DelegationGroups(w) :
                    \/ Cardinality(Values(w, g, "delegated_from_agent_id")) > 1
                    \/ Cardinality(Values(w, g, "delegated_to_agent_id")) > 1}
           C == Drifting(ToSet(w))
           D == Diverging(ToSet(w))
<1>1. DelegationFindings(w) = {Found("delegation_principal_drift", g) : g \in A}
                              \union {Found("delegation_endpoint_drift", g) : g \in B}
  BY DEF DelegationFindings
<1>2. \A g \in A : \E c \in C : TraceOf(w[Last(g)]) = TraceOf(c)
  <2> SUFFICES ASSUME NEW g \in A PROVE \E c \in C : TraceOf(w[Last(g)]) = TraceOf(c)
    OBVIOUS
  <2>1. PICK c \in ToSet(w) : GroupOf(w, g, c)
    BY GroupsAre
  <2> QED
    BY <2>1 DEF GroupOf, Drifting
<1>3. \A g \in B : \E c \in D : TraceOf(w[Last(g)]) = TraceOf(c)
  <2> SUFFICES ASSUME NEW g \in B PROVE \E c \in D : TraceOf(w[Last(g)]) = TraceOf(c)
    OBVIOUS
  <2>1. PICK c \in ToSet(w) : GroupOf(w, g, c)
    BY GroupsAre
  <2> QED
    BY <2>1 DEF GroupOf, Diverging
<1>4. \A c \in C : \E g \in A : TraceOf(w[Last(g)]) = TraceOf(c)
  <2> SUFFICES ASSUME NEW c \in C PROVE \E g \in A : TraceOf(w[Last(g)]) = TraceOf(c)
    OBVIOUS
  <2>1. c \in ToSet(w) /\ c.delegation_id # None
    BY DEF Drifting
  <2>2. PICK g \in DelegationGroups(w) : GroupOf(w, g, c)
    BY <2>1, GroupsAre
  <2> QED
    BY <2>2 DEF GroupOf, Drifting
<1>5. \A c \in D : \E g \in B : TraceOf(w[Last(g)]) = TraceOf(c)
  <2> SUFFICES ASSUME NEW c \in D PROVE \E g \in B : TraceOf(w[Last(g)]) = TraceOf(c)
    OBVIOUS
  <2>1. c \in ToSet(w) /\ c.delegation_id # None
    BY DEF Diverging
  <2>2. PICK g \in DelegationGroups(w) : GroupOf(w, g, c)
    BY <2>1, GroupsAre
  <2> QED
    BY <2>2 DEF GroupOf, Diverging
<1>6. DelegationsSaid(ToSet(w)) = {<<"delegation_principal_drift", TraceOf(c)>> : c \in C}
                                  \union {<<"delegation_endpoint_drift", TraceOf(c)>> : c \in D}
  BY DEF DelegationsSaid
<1> HIDE DEF A, B, C, D
<1>7. Says(w, DelegationFindings(w)) = {<<"delegation_principal_drift", TraceOf(w[Last(g)])>> : g \in A}
                                       \union {<<"delegation_endpoint_drift", TraceOf(w[Last(g)])>> : g \in B}
  <2>1. Says(w, {Found("delegation_principal_drift", g) : g \in A} \union {Found("delegation_endpoint_drift", g) : g \in B})
           = {<<"delegation_principal_drift", TraceOf(w[Last(g)])>> : g \in A}
             \union {<<"delegation_endpoint_drift", TraceOf(w[Last(g)])>> : g \in B}
    BY SaysTwo
  <2> QED
    BY <1>1, <2>1
<1>8. {<<"delegation_principal_drift", TraceOf(w[Last(g)])>> : g \in A} = {<<"delegation_principal_drift", TraceOf(c)>> : c \in C}
  BY <1>2, <1>4
<1>9. {<<"delegation_endpoint_drift", TraceOf(w[Last(g)])>> : g \in B} = {<<"delegation_endpoint_drift", TraceOf(c)>> : c \in D}
  BY <1>3, <1>5
<1> QED
  BY <1>6, <1>7, <1>8, <1>9

\* Two checkpoints of a goal that differ, in whatever order.
Changes(S) ==
    {p \in S \X S : /\ None \notin {p[2].goal_id, p[1].goal_fingerprint, p[2].goal_fingerprint}
                    /\ p[1].goal_id = p[2].goal_id /\ TraceOf(p[1]) = TraceOf(p[2])
                    /\ p[1].goal_fingerprint # p[2].goal_fingerprint}

GoalsSaid(S) ==
    {<<"goal_integrity_failed", TraceOf(e)>> :
        e \in {e \in S : e.type = "agent.goal.integrity" /\ e.goal_integrity_valid = FALSE}}
    \union {<<"unapproved_goal_fingerprint_change", TraceOf(p[2])>> : p \in Changes(S)}

\* Of checkpoints that differ some are next to each other.
LEMMA GoalsChange ==
    ASSUME NEW S, NEW w \in Seq(S), Unapproved(ToSet(w))
    PROVE  LET changed == {j \in DOMAIN w : /\ None \notin {w[j].goal_id, w[j].goal_fingerprint}
                                            /\ PriorGoal(w, j) # 0
                                            /\ w[PriorGoal(w, j)].goal_fingerprint # w[j].goal_fingerprint
                                            /\ w[j].goal_change_approved # TRUE}
           IN  /\ \A j \in changed : \E p \in Changes(ToSet(w)) : TraceOf(w[j]) = TraceOf(p[2])
               /\ \A p \in Changes(ToSet(w)) : \E j \in changed : TraceOf(w[j]) = TraceOf(p[2])
<1> DEFINE changed == {j \in DOMAIN w : /\ None \notin {w[j].goal_id, w[j].goal_fingerprint}
                                        /\ PriorGoal(w, j) # 0
                                        /\ w[PriorGoal(w, j)].goal_fingerprint # w[j].goal_fingerprint
                                        /\ w[j].goal_change_approved # TRUE}
           Before(j) == {i \in 1 .. j - 1 : /\ w[i].goal_id = w[j].goal_id /\ w[i].goal_fingerprint # None
                                            /\ TraceOf(w[i]) = TraceOf(w[j])}
<1>1. DOMAIN w = 1 .. Len(w) /\ Len(w) \in Nat /\ \A i \in DOMAIN w : w[i] \in ToSet(w)
  BY DEF ToSet
<1>2. ASSUME NEW j \in DOMAIN w
      PROVE  /\ Before(j) = {} => PriorGoal(w, j) = 0
             /\ Before(j) # {} => PriorGoal(w, j) \in Before(j) /\ \A i \in Before(j) : i <= PriorGoal(w, j)
  <2> DEFINE P == Before(j)
             T == {0} \union P
  <2>1. P \in SUBSET (1 .. Len(w))
    BY <1>1
  <2>2. PriorGoal(w, j) = Max(T)
    BY DEF PriorGoal
  <2> HIDE DEF P
  <2>3. ASSUME P = {} PROVE PriorGoal(w, j) = 0
    <3>1. 0 \in T /\ \A x \in T : x \in Int /\ x <= 0
      BY <2>3
    <3> HIDE DEF T
    <3>2. Max(T) = 0
      BY <3>1, GreatestIs
    <3> QED
      BY <2>2, <3>2
  <2>4. ASSUME P # {} PROVE PriorGoal(w, j) \in P /\ \A i \in P : i <= PriorGoal(w, j)
    <3> DEFINE f == [i \in 1 .. Len(w) |-> i]
    <3>1. \A i \in P : f[i] = i /\ f[i] \in Int
      BY <1>1, <2>1
    <3> HIDE DEF f
    <3>2. PICK m \in P : \A k \in P : f[k] <= f[m]
      BY <1>1, <2>1, <2>4, <3>1, Greatest
    <3>3. m \in T /\ \A x \in T : x \in Int /\ x <= m
      BY <2>1, <3>1, <3>2
    <3> HIDE DEF T
    <3>4. Max(T) = m
      BY <3>3, GreatestIs
    <3> QED
      BY <2>2, <3>1, <3>2, <3>4
  <2> QED
    BY <2>3, <2>4 DEF P
<1> HIDE DEF Before
<1>3. ASSUME NEW j \in changed PROVE \E p \in Changes(ToSet(w)) : TraceOf(w[j]) = TraceOf(p[2])
  <2> DEFINE i == PriorGoal(w, j)
  <2>1. i \in Before(j)
    BY <1>2
  <2> HIDE DEF i
  <2>2. /\ i \in DOMAIN w /\ w[i].goal_id = w[j].goal_id /\ w[i].goal_fingerprint # None
        /\ TraceOf(w[i]) = TraceOf(w[j])
    BY <1>1, <2>1 DEF Before
  <2>3. <<w[i], w[j]>> \in Changes(ToSet(w))
    BY <1>1, <2>2 DEF Changes, i
  <2> QED
    BY <2>3
<1>4. ASSUME NEW i \in DOMAIN w, NEW j \in DOMAIN w, i < j,
             None \notin {w[j].goal_id, w[i].goal_fingerprint, w[j].goal_fingerprint},
             w[i].goal_id = w[j].goal_id, TraceOf(w[i]) = TraceOf(w[j]), w[i].goal_fingerprint # w[j].goal_fingerprint
      PROVE  \E k \in changed : TraceOf(w[k]) = TraceOf(w[j])
  <2> DEFINE Same(k) == w[k].goal_id = w[i].goal_id /\ w[k].goal_fingerprint # None /\ TraceOf(w[k]) = TraceOf(w[i])
             P == {k \in DOMAIN w : i < k /\ Same(k) /\ w[k].goal_fingerprint # w[i].goal_fingerprint}
  <2>1. P \in SUBSET (1 .. Len(w)) /\ j \in P
    BY <1>1, <1>4
  <2>2. PICK k \in P : \A m \in P : k <= m
    <3> DEFINE f == [m \in 1 .. Len(w) |-> m]
    <3>1. \A m \in P : f[m] = m /\ f[m] \in Int
      BY <1>1, <2>1
    <3> HIDE DEF f, P
    <3>2. PICK k \in P : \A m \in P : f[k] <= f[m]
      BY <1>1, <2>1, <3>1, Least
    <3> QED
      BY <3>1, <3>2
  <2>3. k \in DOMAIN w /\ i < k /\ Same(k) /\ w[k].goal_fingerprint # w[i].goal_fingerprint
    OBVIOUS
  <2>4. \A m \in DOMAIN w : i < m /\ m < k /\ Same(m) => w[m].goal_fingerprint = w[i].goal_fingerprint
    BY <1>1, <2>2, <2>3
  <2> HIDE DEF P
  <2>5. i \in Before(k)
    BY <1>1, <1>4, <2>3 DEF Before
  <2> DEFINE m == PriorGoal(w, k)
  <2>6. m \in Before(k) /\ i <= m
    BY <1>2, <2>3, <2>5
  <2> HIDE DEF m
  <2>7. m \in DOMAIN w /\ m < k /\ m # 0 /\ Same(m)
    BY <1>1, <2>3, <2>6 DEF Before
  <2>8. w[m].goal_fingerprint = w[i].goal_fingerprint
    <3>1. CASE m = i
      BY <3>1
    <3>2. CASE m # i
      BY <1>1, <2>4, <2>6, <2>7, <3>2
    <3> QED
      BY <3>1, <3>2
  <2>9. w[k].goal_change_approved # TRUE
    BY <1>1, <2>3 DEF Unapproved
  <2>10. k \in changed
    BY <1>4, <2>3, <2>7, <2>8, <2>9 DEF m
  <2> QED
    BY <1>4, <2>3, <2>10
<1> HIDE DEF changed
<1>5. ASSUME NEW p \in Changes(ToSet(w)) PROVE \E j \in changed : TraceOf(w[j]) = TraceOf(p[2])
  <2>1. /\ p[1] \in ToSet(w) /\ p[2] \in ToSet(w)
        /\ None \notin {p[2].goal_id, p[1].goal_fingerprint, p[2].goal_fingerprint}
        /\ p[1].goal_id = p[2].goal_id /\ TraceOf(p[1]) = TraceOf(p[2]) /\ p[1].goal_fingerprint # p[2].goal_fingerprint
    BY DEF Changes
  <2>2. PICK i \in DOMAIN w, j \in DOMAIN w : w[i] = p[1] /\ w[j] = p[2]
    BY <2>1 DEF ToSet
  <2>3. i < j \/ j < i
    BY <1>1, <2>1, <2>2
  <2>4. CASE i < j
    BY <1>4, <2>1, <2>2, <2>4
  <2>5. CASE j < i
    <3>1. \E k \in changed : TraceOf(w[k]) = TraceOf(w[i])
      BY <1>4, <2>1, <2>2, <2>5
    <3> QED
      BY <2>1, <2>2, <3>1
  <2> QED
    BY <2>3, <2>4, <2>5
<1> QED
  BY <1>3, <1>5 DEF changed

LEMMA GoalsSay ==
    ASSUME NEW S, NEW w \in Seq(S), Unapproved(ToSet(w))
    PROVE  Says(w, GoalFindings(w)) = GoalsSaid(ToSet(w))
<1> DEFINE failed  == {j \in DOMAIN w : w[j].type = "agent.goal.integrity" /\ w[j].goal_integrity_valid = FALSE}
           changed == {j \in DOMAIN w : /\ None \notin {w[j].goal_id, w[j].goal_fingerprint}
                                        /\ PriorGoal(w, j) # 0
                                        /\ w[PriorGoal(w, j)].goal_fingerprint # w[j].goal_fingerprint
                                        /\ w[j].goal_change_approved # TRUE}
           F == {Found("goal_integrity_failed", <<j>>) : j \in failed}
           G == {Found("unapproved_goal_fingerprint_change", <<PriorGoal(w, j), j>>) : j \in changed}
           C == {e \in ToSet(w) : e.type = "agent.goal.integrity" /\ e.goal_integrity_valid = FALSE}
           D == Changes(ToSet(w))
<1>1. GoalFindings(w) = F \union G
  BY DEF GoalFindings
<1>2. GoalsSaid(ToSet(w)) = {<<"goal_integrity_failed", TraceOf(e)>> : e \in C}
                            \union {<<"unapproved_goal_fingerprint_change", TraceOf(p[2])>> : p \in D}
  BY DEF GoalsSaid
<1>3. /\ \A j \in failed : \E e \in C : TraceOf(w[j]) = TraceOf(e)
      /\ \A e \in C : \E j \in failed : TraceOf(w[j]) = TraceOf(e)
  <2>1. \A j \in failed : w[j] \in C
    BY DEF ToSet
  <2>2. \A e \in C : \E j \in failed : e = w[j]
    BY DEF ToSet
  <2> HIDE DEF failed, C
  <2> QED
    BY <2>1, <2>2
<1>4. /\ \A j \in changed : \E p \in D : TraceOf(w[j]) = TraceOf(p[2])
      /\ \A p \in D : \E j \in changed : TraceOf(w[j]) = TraceOf(p[2])
  BY GoalsChange
<1> HIDE DEF failed, changed, C, D
<1>5. Says(w, F) = {<<"goal_integrity_failed", TraceOf(w[j])>> : j \in failed}
  <2>1. \A j \in failed : Found("goal_integrity_failed", <<j>>).code = "goal_integrity_failed" /\ Last(Found("goal_integrity_failed", <<j>>).nodes) = j
    BY DEF Found, Last
  <2>2. /\ \A f \in F : \E j \in failed : f.code = "goal_integrity_failed" /\ Last(f.nodes) = j
        /\ \A j \in failed : \E f \in F : f.code = "goal_integrity_failed" /\ Last(f.nodes) = j
    BY <2>1
  <2> HIDE DEF F
  <2>3. \A s : s \in Says(w, F) <=> \E j \in failed : s = <<"goal_integrity_failed", TraceOf(w[j])>>
    BY <2>2 DEF Says
  <2> QED
    BY <2>3
<1>6. Says(w, G) = {<<"unapproved_goal_fingerprint_change", TraceOf(w[j])>> : j \in changed}
  <2> DEFINE p(j) == Found("unapproved_goal_fingerprint_change", <<PriorGoal(w, j), j>>)
  <2>1. \A j \in changed : p(j).code = "unapproved_goal_fingerprint_change" /\ Last(p(j).nodes) = j
    BY DEF Found, Last
  <2>2. /\ \A f \in G : \E j \in changed : f.code = "unapproved_goal_fingerprint_change" /\ Last(f.nodes) = j
        /\ \A j \in changed : \E f \in G : f.code = "unapproved_goal_fingerprint_change" /\ Last(f.nodes) = j
    <3>1. G = {p(j) : j \in changed}
      OBVIOUS
    <3> HIDE DEF G, p
    <3> QED
      BY <2>1, <3>1
  <2> HIDE DEF G
  <2>3. \A s : s \in Says(w, G) <=> \E j \in changed : s = <<"unapproved_goal_fingerprint_change", TraceOf(w[j])>>
    BY <2>2 DEF Says
  <2> QED
    BY <2>3
<1> HIDE DEF F, G
<1>7. Says(w, F \union G) = Says(w, F) \union Says(w, G)
  BY SaysBoth
<1>8. {<<"goal_integrity_failed", TraceOf(w[j])>> : j \in failed} = {<<"goal_integrity_failed", TraceOf(e)>> : e \in C}
  BY <1>3
<1>9. {<<"unapproved_goal_fingerprint_change", TraceOf(w[j])>> : j \in changed}
         = {<<"unapproved_goal_fingerprint_change", TraceOf(p[2])>> : p \in D}
  BY <1>4
<1> QED
  BY <1>1, <1>2, <1>5, <1>6, <1>7, <1>8, <1>9

MemorySaid(S) ==
    {<<"memory_provenance_failed", TraceOf(e)>> :
        e \in {e \in S : e.type \in MemoryEvents /\ e.memory_provenance_valid = FALSE}}
    \union {<<"memory_retention_policy_failed", TraceOf(e)>> :
               e \in {e \in S : e.type \in MemoryEvents /\ e.memory_retention_valid = FALSE}}
    \union {<<"shared_memory_lineage_missing", TraceOf(e)>> :
               e \in {e \in S : /\ e.type = "agent.memory.written" /\ e.memory_scope \in {"shared", "persistent"}
                                /\ e.data_lineage_id = None}}

LEMMA MemorySays ==
    ASSUME NEW w
    PROVE  Says(w, MemoryFindings(w)) = MemorySaid(ToSet(w))
<1> DEFINE A == {j \in DOMAIN w : w[j].type \in MemoryEvents /\ w[j].memory_provenance_valid = FALSE}
           B == {j \in DOMAIN w : w[j].type \in MemoryEvents /\ w[j].memory_retention_valid = FALSE}
           C == {j \in DOMAIN w : /\ w[j].type = "agent.memory.written"
                                  /\ w[j].memory_scope \in {"shared", "persistent"}
                                  /\ w[j].data_lineage_id = None}
           P == {e \in ToSet(w) : e.type \in MemoryEvents /\ e.memory_provenance_valid = FALSE}
           Q == {e \in ToSet(w) : e.type \in MemoryEvents /\ e.memory_retention_valid = FALSE}
           R == {e \in ToSet(w) : /\ e.type = "agent.memory.written" /\ e.memory_scope \in {"shared", "persistent"}
                                  /\ e.data_lineage_id = None}
           U == {Found("memory_provenance_failed", <<j>>) : j \in A}
           V == {Found("memory_retention_policy_failed", <<j>>) : j \in B}
           X == {Found("shared_memory_lineage_missing", <<j>>) : j \in C}
<1>1. P = {w[j] : j \in A} /\ Q = {w[j] : j \in B} /\ R = {w[j] : j \in C}
  BY DEF ToSet
<1>2. MemoryFindings(w) = U \union V \union X
  BY DEF MemoryFindings
<1>3. MemorySaid(ToSet(w)) = {<<"memory_provenance_failed", TraceOf(e)>> : e \in P}
                             \union {<<"memory_retention_policy_failed", TraceOf(e)>> : e \in Q}
                             \union {<<"shared_memory_lineage_missing", TraceOf(e)>> : e \in R}
  BY DEF MemorySaid
<1> HIDE DEF A, B, C, P, Q, R
<1>4. ASSUME NEW c, NEW J, NEW T, T = {w[j] : j \in J}
      PROVE  Says(w, {Found(c, <<j>>) : j \in J}) = {<<c, TraceOf(e)>> : e \in T}
  <2> DEFINE F == {Found(c, <<j>>) : j \in J}
  <2>1. \A j \in J : Found(c, <<j>>).code = c /\ Last(Found(c, <<j>>).nodes) = j
    BY DEF Found, Last
  <2>2. /\ \A f \in F : \E j \in J : f.code = c /\ Last(f.nodes) = j
        /\ \A j \in J : \E f \in F : f.code = c /\ Last(f.nodes) = j
    BY <2>1
  <2> HIDE DEF F
  <2>3. \A s : s \in Says(w, F) <=> \E j \in J : s = <<c, TraceOf(w[j])>>
    BY <2>2 DEF Says
  <2>4. Says(w, F) = {<<c, TraceOf(e)>> : e \in T}
    BY <1>4, <2>3
  <2> QED
    BY <2>4 DEF F
<1>5. /\ Says(w, U) = {<<"memory_provenance_failed", TraceOf(e)>> : e \in P}
      /\ Says(w, V) = {<<"memory_retention_policy_failed", TraceOf(e)>> : e \in Q}
      /\ Says(w, X) = {<<"shared_memory_lineage_missing", TraceOf(e)>> : e \in R}
  BY <1>1, <1>4
<1> HIDE DEF U, V, X
<1>6. Says(w, U \union V \union X) = Says(w, U) \union Says(w, V) \union Says(w, X)
  <2> DEFINE UV == U \union V
  <2>1. Says(w, UV) = Says(w, U) \union Says(w, V)
    BY SaysBoth
  <2> HIDE DEF UV
  <2>2. Says(w, UV \union X) = Says(w, UV) \union Says(w, X)
    BY SaysBoth
  <2> QED
    BY <2>1, <2>2 DEF UV
<1> QED
  BY <1>2, <1>3, <1>5, <1>6

\* All that is said of a set of events.
Said(S) == HandoffsSaid(S) \union DelegationsSaid(S) \union GoalsSaid(S) \union MemorySaid(S)

LEMMA FindingsSay ==
    ASSUME NEW S, NEW w \in Seq(S), \A i \in DOMAIN w : Shaped(w[i]), Distinct(ToSet(w)), Unapproved(ToSet(w))
    PROVE  Says(w, Findings(w)) = Said(ToSet(w))
<1> DEFINE H == HandoffFindings(w, CausalGraph(w))
           D == DelegationFindings(w)
           G == GoalFindings(w)
           M == MemoryFindings(w)
           HD == H \union D
           HDG == HD \union G
<1>1. /\ Says(w, H) = HandoffsSaid(ToSet(w))
      /\ Says(w, D) = DelegationsSaid(ToSet(w))
      /\ Says(w, G) = GoalsSaid(ToSet(w))
      /\ Says(w, M) = MemorySaid(ToSet(w))
  <2>1. Says(w, H) = HandoffsSaid(ToSet(w))
    BY HandoffsSay
  <2>2. Says(w, D) = DelegationsSaid(ToSet(w))
    BY DelegationsSay
  <2>3. Says(w, G) = GoalsSaid(ToSet(w))
    BY GoalsSay
  <2>4. Says(w, M) = MemorySaid(ToSet(w))
    BY MemorySays
  <2> HIDE DEF H, D, G, M
  <2> QED
    BY <2>1, <2>2, <2>3, <2>4
<1>2. Findings(w) = HDG \union M
  BY DEF Findings
<1> HIDE DEF H, D, G, M
<1>3. Says(w, HD) = Says(w, H) \union Says(w, D)
  BY SaysBoth
<1> HIDE DEF HD
<1>4. Says(w, HDG) = Says(w, HD) \union Says(w, G)
  BY SaysBoth
<1> HIDE DEF HDG
<1>5. Says(w, HDG \union M) = Says(w, HDG) \union Says(w, M)
  BY SaysBoth
<1> QED
  BY <1>1, <1>2, <1>3, <1>4, <1>5 DEF Said

\* Less evidence says less.
LEMMA FewerValues ==
    ASSUME NEW S, IsFiniteSet(S), NEW T \in SUBSET S, NEW c, NEW field,
           Cardinality(ValuesOf(Sharing(T, c), field)) > 1
    PROVE  Cardinality(ValuesOf(Sharing(S, c), field)) > 1
<1> DEFINE V == ValuesOf(Sharing(S, c), field)
           U == ValuesOf(Sharing(T, c), field)
           image == {e[field] : e \in S}
           f == [e \in S |-> e[field]]
<1>1. f \in Surjection(S, image)
  BY DEF Surjection
<1>2. IsFiniteSet(image)
  <2> HIDE DEF f, image
  <2> QED
    BY <1>1, FS_Surjection
<1>3. V \in SUBSET image /\ U \in SUBSET V
  BY DEF ValuesOf, Sharing
<1> HIDE DEF image, V, U
<1>4. IsFiniteSet(V)
  BY <1>2, <1>3, FS_Subset
<1>5. IsFiniteSet(U) /\ Cardinality(U) <= Cardinality(V)
  BY <1>3, <1>4, FS_Subset
<1>6. Cardinality(U) \in Int /\ Cardinality(V) \in Int
  BY <1>4, <1>5, FS_CardinalityType
<1>7. Cardinality(U) > 1
  BY DEF U
<1>8. Cardinality(V) > 1
  BY <1>5, <1>6, <1>7
<1> QED
  BY <1>8 DEF V

LEMMA LessIsSaid ==
    ASSUME NEW S, IsFiniteSet(S), NEW T \in SUBSET S
    PROVE  Said(T) \subseteq Said(S)
<1>1. HandoffsSaid(T) \subseteq HandoffsSaid(S)
  <2>1. Handoffs(T) \subseteq Handoffs(S)
    BY DEF Handoffs
  <2> QED
    BY <2>1 DEF HandoffsSaid
<1>2. DelegationsSaid(T) \subseteq DelegationsSaid(S)
  <2>1. \A c : Sharing(T, c) \subseteq Sharing(S, c)
    BY DEF Sharing
  <2>2. Drifting(T) \subseteq Drifting(S)
    <3> SUFFICES ASSUME NEW c \in Drifting(T) PROVE c \in Drifting(S)
      OBVIOUS
    <3>1. /\ c \in T /\ c.delegation_id # None /\ Cardinality(ValuesOf(Sharing(T, c), "principal_id")) > 1
          /\ \E e \in Sharing(T, c) : e.principal_transition_approved # TRUE
      BY DEF Drifting
    <3>2. Cardinality(ValuesOf(Sharing(S, c), "principal_id")) > 1
      BY <3>1, FewerValues
    <3> QED
      BY <2>1, <3>1, <3>2 DEF Drifting
  <2>3. Diverging(T) \subseteq Diverging(S)
    <3> SUFFICES ASSUME NEW c \in Diverging(T) PROVE c \in Diverging(S)
      OBVIOUS
    <3>1. /\ c \in T /\ c.delegation_id # None
          /\ \/ Cardinality(ValuesOf(Sharing(T, c), "delegated_from_agent_id")) > 1
             \/ Cardinality(ValuesOf(Sharing(T, c), "delegated_to_agent_id")) > 1
      BY DEF Diverging
    <3>2. \/ Cardinality(ValuesOf(Sharing(S, c), "delegated_from_agent_id")) > 1
          \/ Cardinality(ValuesOf(Sharing(S, c), "delegated_to_agent_id")) > 1
      BY <3>1, FewerValues
    <3> QED
      BY <3>1, <3>2 DEF Diverging
  <2> QED
    BY <2>2, <2>3 DEF DelegationsSaid
<1>3. GoalsSaid(T) \subseteq GoalsSaid(S)
  <2>1. Changes(T) \subseteq Changes(S)
    BY DEF Changes
  <2> QED
    BY <2>1 DEF GoalsSaid
<1>4. MemorySaid(T) \subseteq MemorySaid(S)
  BY DEF MemorySaid
<1> QED
  BY <1>1, <1>2, <1>3, <1>4 DEF Said

LEMMA CodesSaid ==
    ASSUME NEW w, NEW F
    PROVE  /\ Codes(F) = {s[1] : s \in Says(w, F)}
           /\ \A t : TraceSeverity(w, F, t) = Highest({s[1] : s \in {s \in Says(w, F) : s[2] = t}})
<1> DEFINE said(f) == <<f.code, TraceOf(w[Last(f.nodes)])>>
<1>1. Says(w, F) = {said(f) : f \in F}
  BY DEF Says
<1>2. \A f : said(f)[1] = f.code /\ said(f)[2] = TraceOf(w[Last(f.nodes)])
  OBVIOUS
<1> HIDE DEF said
<1>3. Codes(F) = {s[1] : s \in Says(w, F)}
  BY <1>1, <1>2 DEF Codes
<1>4. ASSUME NEW t
      PROVE  Codes({f \in F : TraceOf(w[Last(f.nodes)]) = t}) = {s[1] : s \in {s \in Says(w, F) : s[2] = t}}
  BY <1>1, <1>2 DEF Codes
<1> QED
  BY <1>3, <1>4 DEF TraceSeverity

\* A report is the same of two windows with the same traces, the same evidence for an alert,
\* and the same said of them.
LEMMA SameReport ==
    ASSUME NEW w, NEW v, NEW F, NEW G, NEW b,
           Traces(w) = Traces(v), Ids(w) = Ids(v), \A a : EvidenceTraces(w, a) = EvidenceTraces(v, a),
           Says(w, F) = Says(v, G)
    PROVE  FeedbackStatus(w, F, b) = FeedbackStatus(v, G, b)
<1>1. \A a : Reconcile(w, a) = Reconcile(v, a)
  BY DEF Reconcile
<1>2. Statuses(w, b) = Statuses(v, b)
  BY <1>1 DEF Statuses
<1>3. \A t : TargetExists(w, b, t) = TargetExists(v, b, t) /\ TargetTrace(w, b, t) = TargetTrace(v, b, t)
  BY <1>1 DEF TargetExists, TargetTrace
<1>4. \A a : AnnotationConflicts(w, b, a) = AnnotationConflicts(v, b, a)
  BY <1>3 DEF AnnotationConflicts
<1>5. \A t : TraceSeverity(w, F, t) = TraceSeverity(v, G, t)
  <2>1. \A t : TraceSeverity(w, F, t) = Highest({s[1] : s \in {s \in Says(w, F) : s[2] = t}})
    BY CodesSaid
  <2>2. \A t : TraceSeverity(v, G, t) = Highest({s[1] : s \in {s \in Says(v, G) : s[2] = t}})
    BY CodesSaid
  <2> QED
    BY <2>1, <2>2
<1>6. \A t : TargetConflicts(w, F, b, t) = TargetConflicts(v, G, b, t)
  BY <1>3, <1>5 DEF TargetConflicts
<1>7. Conflicts(w, F, b) = Conflicts(v, G, b)
  BY <1>2, <1>4, <1>6 DEF Conflicts
<1> QED
  BY <1>2, <1>7 DEF FeedbackStatus

\* The traces, the ids and an alert's evidence are those of the set of the events.
LEMMA EvidenceSaid ==
    ASSUME NEW S, NEW w \in Seq(S), Distinct(ToSet(w))
    PROVE  /\ Traces(w) = {e.trace_id : e \in ToSet(w)} \ {None}
           /\ Ids(w) = {e.id : e \in ToSet(w)} \ {None}
           /\ \A a : EvidenceTraces(w, a)
                        = {e.trace_id : e \in {e \in ToSet(w) : e.id # None /\ e.id \in a.evidence}} \ {None}
<1>1. ToSet(w) = {w[i] : i \in DOMAIN w}
  BY DEF ToSet
<1>2. Traces(w) = {e.trace_id : e \in ToSet(w)} \ {None} /\ Ids(w) = {e.id : e \in ToSet(w)} \ {None}
  BY <1>1 DEF Traces, Ids
<1>3. ASSUME NEW a
      PROVE  EvidenceTraces(w, a) = {e.trace_id : e \in {e \in ToSet(w) : e.id # None /\ e.id \in a.evidence}} \ {None}
  <2> DEFINE known == a.evidence \intersect Ids(w)
             E == {e \in ToSet(w) : e.id # None /\ e.id \in a.evidence}
  <2>1. ASSUME NEW id \in known PROVE w[EvidenceAt(w, id)] \in E /\ w[EvidenceAt(w, id)].id = id
    BY <1>1, <1>2, EvidenceIsThere
  <2>2. ASSUME NEW e \in E PROVE e.id \in known /\ w[EvidenceAt(w, e.id)] = e
    <3>1. e.id \in known
      BY <1>2
    <3>2. w[EvidenceAt(w, e.id)] \in ToSet(w) /\ w[EvidenceAt(w, e.id)].id = e.id
      BY <2>1, <3>1
    <3> QED
      BY <3>1, <3>2 DEF Distinct
  <2> HIDE DEF known, E
  <2>3. {w[EvidenceAt(w, id)].trace_id : id \in known} = {e.trace_id : e \in E}
    BY <2>1, <2>2
  <2> QED
    BY <2>3 DEF EvidenceTraces, known, E
<1> QED
  BY <1>2, <1>3

LEMMA OrderIsIrrelevant ==
    ASSUME NEW S, NEW w \in Seq(S), NEW v \in Seq(S), ToSet(w) = ToSet(v), NEW b,
           \A e \in ToSet(w) : Shaped(e), Distinct(ToSet(w)), Unapproved(ToSet(w))
    PROVE  /\ Codes(Findings(w)) = Codes(Findings(v))
           /\ FeedbackStatus(w, Findings(w), b) = FeedbackStatus(v, Findings(v), b)
<1>1. /\ \A i \in DOMAIN w : Shaped(w[i])
      /\ \A i \in DOMAIN v : Shaped(v[i])
  BY DEF ToSet
<1>2. Says(w, Findings(w)) = Said(ToSet(w))
  BY <1>1, FindingsSay
<1>3. Says(v, Findings(v)) = Said(ToSet(v))
  BY <1>1, FindingsSay
<1>4. Says(w, Findings(w)) = Says(v, Findings(v))
  BY <1>2, <1>3
<1>5. Traces(w) = Traces(v) /\ Ids(w) = Ids(v) /\ \A a : EvidenceTraces(w, a) = EvidenceTraces(v, a)
  <2>1. /\ Traces(w) = {e.trace_id : e \in ToSet(w)} \ {None}
        /\ Ids(w) = {e.id : e \in ToSet(w)} \ {None}
        /\ \A a : EvidenceTraces(w, a)
                     = {e.trace_id : e \in {e \in ToSet(w) : e.id # None /\ e.id \in a.evidence}} \ {None}
    BY EvidenceSaid
  <2>2. /\ Traces(v) = {e.trace_id : e \in ToSet(v)} \ {None}
        /\ Ids(v) = {e.id : e \in ToSet(v)} \ {None}
        /\ \A a : EvidenceTraces(v, a)
                     = {e.trace_id : e \in {e \in ToSet(v) : e.id # None /\ e.id \in a.evidence}} \ {None}
    BY EvidenceSaid
  <2> QED
    BY <2>1, <2>2
<1>6. Codes(Findings(w)) = Codes(Findings(v))
  BY <1>4, CodesSaid
<1>7. FeedbackStatus(w, Findings(w), b) = FeedbackStatus(v, Findings(v), b)
  BY <1>4, <1>5, SameReport
<1> QED
  BY <1>6, <1>7

LEMMA LossHides ==
    ASSUME NEW S, NEW w \in Seq(S), NEW v \in Seq(S), ToSet(w) \subseteq ToSet(v),
           \A e \in ToSet(v) : Shaped(e), Distinct(ToSet(v)), Unapproved(ToSet(v))
    PROVE  Codes(Findings(w)) \subseteq Codes(Findings(v))
<1>1. /\ \A i \in DOMAIN w : Shaped(w[i])
      /\ \A i \in DOMAIN v : Shaped(v[i])
  BY DEF ToSet
<1>2. Distinct(ToSet(w)) /\ Unapproved(ToSet(w))
  BY DEF Distinct, Unapproved
<1>3. Says(w, Findings(w)) = Said(ToSet(w))
  BY <1>1, <1>2, FindingsSay
<1>4. Says(v, Findings(v)) = Said(ToSet(v))
  BY <1>1, FindingsSay
<1>5. IsFiniteSet(ToSet(v))
  <2>1. DOMAIN v = 1 .. Len(v) /\ Len(v) \in Int
    OBVIOUS
  <2>2. IsFiniteSet(1 .. Len(v))
    BY <2>1, FS_Interval
  <2>3. v \in Surjection(1 .. Len(v), ToSet(v))
    BY <2>1 DEF Surjection, ToSet
  <2> QED
    BY <2>2, <2>3, FS_Surjection
<1>6. Said(ToSet(w)) \subseteq Said(ToSet(v))
  BY <1>5, LessIsSaid
<1>7. /\ Codes(Findings(w)) = {s[1] : s \in Says(w, Findings(w))}
      /\ Codes(Findings(v)) = {s[1] : s \in Says(v, Findings(v))}
  BY CodesSaid
<1> QED
  BY <1>3, <1>4, <1>6, <1>7

\* Whatever the corpus, and however its events come: what is found of them, and what a report
\* on feedback says, does not depend on their order or number, and less of them finds less.
THEOREM DeliveryChangesNothing == Spec => []DeliveryIsHarmless
<1>1. ConversionInv => DeliveryIsHarmless
  <2> SUFFICES ASSUME ConversionInv, study = "window", conversions = <<>>, ~Approves
               PROVE  /\ ~Collide(ToSet(delivered)) =>
                            /\ Codes(Findings(window)) = Codes(Findings(InOrder))
                            /\ FeedbackStatus(window, Findings(window), bundle)
                                  = FeedbackStatus(InOrder, Findings(InOrder), bundle)
                      /\ ~Collide(DOMAIN corpus.events) =>
                            Codes(Findings(window)) \subseteq Codes(Findings(corpus.events))
    BY DEF DeliveryIsHarmless, DeliveryOrderIrrelevant, LossOnlyHides
  <2> DEFINE events == corpus.events
             S == ToSet(events)
  <2>1. /\ DOMAIN window = DOMAIN delivered
        /\ \A n \in DOMAIN delivered : delivered[n] \in DOMAIN events /\ window[n] = events[delivered[n]]
    BY DEF ConversionInv
  <2>2. events \in Seq(S) /\ \A e \in S : Shaped(e)
    <3>1. corpus \in Corpora
      BY DEF ConversionInv, WindowInv, BundleInv
    <3>2. events \in Seq(S)
      BY <3>1, AnalysisAssumption
    <3>3. \A i \in DOMAIN events : Shaped(events[i])
      BY <3>1, AnalysisAssumption DEF Shaped
    <3>4. S = {events[i] : i \in DOMAIN events}
      BY DEF ToSet
    <3> HIDE DEF events, S
    <3> QED
      BY <3>2, <3>3, <3>4
  <2>3. Unapproved(S)
    BY DEF Unapproved, Approves, ToSet
  <2>4. PICK T : delivered \in Seq(T)
    BY DEF ConversionInv
  <2>5. S = {events[i] : i \in DOMAIN events}
    BY DEF ToSet
  <2>6. ToSet(window) = {events[i] : i \in ToSet(delivered)} /\ ToSet(delivered) \subseteq DOMAIN events
    BY <2>1 DEF ToSet
  <2> HIDE DEF S
  <2>7. window \in Seq(S)
    <3>1. PICK U : window \in Seq(U)
      BY DEF ConversionInv, WindowInv, BundleInv
    <3>2. DOMAIN window = 1 .. Len(window) /\ Len(window) \in Nat
      BY <3>1
    <3>3. \A n \in DOMAIN window : window[n] \in S
      BY <2>1, <2>5
    <3> QED
      BY <3>1, <3>2, <3>3
  <2>8. InOrder \in Seq(S) /\ ToSet(InOrder) = ToSet(window)
    <3> DEFINE all  == [i \in DOMAIN events |-> i]
               kept == Within(all, ToSet(delivered))
    <3>1. DOMAIN events = 1 .. Len(events) /\ Len(events) \in Nat
      BY <2>2
    <3>2. all \in Seq(DOMAIN events) /\ ToSet(all) = DOMAIN events
      <4>1. all \in [1 .. Len(events) -> DOMAIN events]
        BY <3>1
      <4>2. ToSet(all) = DOMAIN events
        BY DEF ToSet
      <4> HIDE DEF all
      <4> QED
        BY <3>1, <4>1, <4>2
    <3>3. InOrder = [n \in DOMAIN kept |-> events[kept[n]]]
      BY DEF InOrder
    <3> HIDE DEF all, events
    <3>4. /\ kept \in Seq((DOMAIN events) \intersect ToSet(delivered))
          /\ ToSet(kept) = (DOMAIN events) \intersect ToSet(delivered)
      BY <3>2, WithinIs
    <3> HIDE DEF kept
    <3>5. ToSet(kept) = ToSet(delivered)
      BY <2>6, <3>4
    <3>6. DOMAIN kept = 1 .. Len(kept) /\ Len(kept) \in Nat /\ \A n \in DOMAIN kept : kept[n] \in DOMAIN events
      BY <3>4
    <3>7. InOrder \in Seq(S)
      <4> DEFINE w == [n \in DOMAIN kept |-> events[kept[n]]]
      <4>1. w \in [1 .. Len(kept) -> S]
        BY <2>5, <3>6
      <4> HIDE DEF w
      <4>2. w \in Seq(S)
        BY <3>6, <4>1
      <4> QED
        BY <3>3, <4>2 DEF w
    <3>8. ToSet(InOrder) = {events[i] : i \in ToSet(kept)}
      BY <3>3 DEF ToSet
    <3> QED
      BY <2>6, <3>5, <3>7, <3>8 DEF events
  <2>9. ToSet(window) \subseteq S
    BY <2>5, <2>6
  <2>10. ASSUME ~Collide(ToSet(delivered))
         PROVE  /\ Codes(Findings(window)) = Codes(Findings(InOrder))
                /\ FeedbackStatus(window, Findings(window), bundle)
                      = FeedbackStatus(InOrder, Findings(InOrder), bundle)
    <3>1. Distinct(ToSet(window))
      BY <2>6, <2>10 DEF Distinct, Collide
    <3>2. Unapproved(ToSet(window)) /\ \A e \in ToSet(window) : Shaped(e)
      BY <2>2, <2>3, <2>9 DEF Unapproved
    <3> QED
      BY <2>7, <2>8, <3>1, <3>2, OrderIsIrrelevant
  <2>11. ASSUME ~Collide(DOMAIN corpus.events)
         PROVE  Codes(Findings(window)) \subseteq Codes(Findings(corpus.events))
    <3>1. Distinct(S)
      BY <2>5, <2>11 DEF Distinct, Collide
    <3> QED
      BY <2>2, <2>3, <2>7, <2>9, <3>1, LossHides DEF S
  <2> QED
    BY <2>10, <2>11
<1> QED
  BY <1>1, ConversionStart, ConversionStep, PTL DEF Spec

=============================================================================
