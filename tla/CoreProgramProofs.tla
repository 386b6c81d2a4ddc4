--------------------------- MODULE CoreProgramProofs ---------------------------
(* Proofs about CoreProgram for any packs and phases, any number of suites and  *)
(* simulations, and any stops, interrupts and failed writes.                    *)
EXTENDS CoreProgram, FiniteSetTheorems, SequenceTheorems, WellFoundedInduction, TLAPS

SuiteState ==
    [number : Nat, pc : {"idle", "control", "step", "emit", "export"}, stopped : BOOLEAN, written : Nat,
     result : {"none", "usage", "passed", "failed", "raised", "stopped", "interrupted"}]

\* An event is made late only if the request came after its check, and no check lets
\* another one through.
PromptSuite ==
    /\ late \in {0, 1}
    /\ ~stop_requested => late = 0
    /\ suite.pc = "emit" => late = 0

\* The artifacts that a suite has written are of this suite, and a bundle is of one.
BundleInv ==
    /\ artifact = [k \in Range(Artifacts) |-> artifact[k]]
    /\ suite.pc \in {"control", "step", "emit"} => suite.written = 0
    /\ suite.pc = "export" =>
          \A j \in 1..suite.written : Exports[j] # "bundle" => artifact[Exports[j]] = {suite.number}
    /\ \E n : artifact["bundle"] \subseteq {n}

SuiteInv == suite \in SuiteState /\ PromptSuite /\ BundleInv

-----------------------------------------------------------------------------
(* The artifacts and their order.                                              *)

Kinds == {"ground_truth", "validation", "junit", "sarif", "otel", "coverage", "bundle"}

LEMMA ArtifactKinds == Range(Artifacts) = Kinds
BY DEF Artifacts, Range, Kinds

LEMMA ReportKinds == Reports \in Seq(Kinds \ {"bundle"})
<1> DEFINE S == Kinds \ {"bundle"}
<1>1. ASSUME NEW k \in S PROVE Optional(k) \in Seq(S)
  <2>1. <<k>> \in Seq(S) /\ <<>> \in Seq(S)
    OBVIOUS
  <2> QED
    BY <2>1 DEF Optional
<1>2. /\ "junit" \in S /\ "sarif" \in S /\ "otel" \in S /\ "coverage" \in S
      /\ <<"ground_truth", "validation">> \in Seq(S)
  BY DEF Kinds
<1>3. /\ Optional("junit") \in Seq(S) /\ Optional("sarif") \in Seq(S)
      /\ Optional("otel") \in Seq(S) /\ Optional("coverage") \in Seq(S)
  BY <1>1, <1>2
<1>4. \A s, t \in Seq(S) : s \o t \in Seq(S)
  OBVIOUS
<1> HIDE DEF S
<1> DEFINE r1 == <<"ground_truth", "validation">> \o Optional("junit")
           r2 == r1 \o Optional("sarif")
           r3 == r2 \o Optional("otel")
<1>5. r1 \in Seq(S)
  BY <1>2, <1>3, <1>4
<1>6. r2 \in Seq(S)
  BY <1>3, <1>4, <1>5
<1>7. r3 \in Seq(S)
  BY <1>3, <1>4, <1>6
<1>8. r3 \o Optional("coverage") \in Seq(S)
  BY <1>3, <1>4, <1>7
<1> QED
  BY <1>8, Zenon DEF Reports, S

\* The bundle is written when all the reports are, and whatever is written is an artifact.
LEMMA BundleComesLast ==
    ASSUME NEW n \in Nat, n < Len(Exports)
    PROVE  /\ Exports[n + 1] \in Kinds
           /\ Exports[n + 1] = "bundle" =>
                 \A k \in BundleMembers : \E j \in 1..n : Exports[j] = k
<1> DEFINE last == Optional("bundle")
<1>1. last = <<>> \/ last = <<"bundle">>
  BY DEF Optional
<1> HIDE DEF last
<1>2. Reports \in Seq(Kinds) /\ last \in Seq(Kinds)
  <2>1. <<>> \in Seq(Kinds) /\ <<"bundle">> \in Seq(Kinds)
    BY DEF Kinds
  <2>2. Reports \in Seq(Kinds)
    <3>1. \A S, T : S \subseteq T => Seq(S) \subseteq Seq(T)
      OBVIOUS
    <3> QED
      BY <3>1, ReportKinds
  <2> QED
    BY <1>1, <2>1, <2>2
<1>3. Exports = Reports \o last
  BY DEF Exports, last
<1>4. /\ Len(Exports) = Len(Reports) + Len(last)
      /\ \A j \in 1..Len(Exports) : Exports[j] = IF j <= Len(Reports) THEN Reports[j] ELSE last[j - Len(Reports)]
      /\ DOMAIN Exports = 1..Len(Exports) /\ Exports \in Seq(Kinds)
  BY <1>2, <1>3
<1>5. \A j \in 1..Len(Reports) : Reports[j] # "bundle"
  BY ReportKinds
<1>6. Len(last) \in 0..1 /\ \A j \in 1..Len(last) : last[j] = "bundle"
  BY <1>1
<1>7. Exports[n + 1] = "bundle" => n = Len(Reports)
  BY <1>2, <1>4, <1>5, <1>6
<1>8. ASSUME n = Len(Reports), NEW k \in BundleMembers
      PROVE  \E j \in 1..n : Exports[j] = k
  <2>1. PICK j \in 1..Len(Exports) : Exports[j] = k
    BY <1>4 DEF BundleMembers, Range
  <2>2. k # "bundle"
    BY DEF BundleMembers
  <2>3. j > Len(Reports) => Exports[j] = "bundle"
    BY <1>2, <1>4, <1>6
  <2> QED
    BY <1>2, <1>8, <2>1, <2>2, <2>3
<1> QED
  BY <1>4, <1>7, <1>8

\* The length of two sequences together.
LEMMA LengthOfBoth ==
    ASSUME NEW S, NEW T, NEW s \in Seq(S), NEW t \in Seq(T)
    PROVE  Len(s \o t) = Len(s) + Len(t)
OBVIOUS

\* There are finitely many artifacts, whatever is selected.
LEMMA ExportsLength == Len(Exports) \in Nat
<1>1. Reports \in Seq(Kinds \ {"bundle"})
  BY ReportKinds
<1>2. Len(Reports) \in Nat
  BY <1>1
<1>3. CASE Optional("bundle") = <<>>
  BY <1>1, <1>2, <1>3 DEF Exports
<1>4. CASE Optional("bundle") = <<"bundle">>
  <2>1. Len(Exports) = Len(Reports) + 1
    <3>1. <<"bundle">> \in Seq({"bundle"}) /\ Len(<<"bundle">>) = 1
      OBVIOUS
    <3>2. Optional("bundle") \in Seq({"bundle"}) /\ Len(Optional("bundle")) = 1
      BY <1>4, <3>1
    <3>3. Len(Reports \o Optional("bundle")) = Len(Reports) + Len(Optional("bundle"))
      BY <1>1, <3>2, LengthOfBoth
    <3> QED
      BY <3>2, <3>3 DEF Exports
  <2> QED
    BY <1>2, <2>1
<1> QED
  BY <1>3, <1>4 DEF Optional

-----------------------------------------------------------------------------
(* The steps of a suite.                                                       *)

Looping == {"control", "step", "emit"}

\* While nothing is written, what was written stays what it is.
LEMMA NothingWritten ==
    ASSUME SuiteInv, artifact' = artifact,
           \/ suite'.pc = "idle"
           \/ suite'.pc \in Looping /\ suite'.written = 0
           \/ /\ selection' = selection /\ suite'.number = suite.number /\ suite'.written = suite.written
              /\ suite.pc \in Looping \/ suite.pc = suite'.pc
    PROVE  BundleInv'
<1>1. CASE suite'.pc = "idle"
  BY <1>1 DEF SuiteInv, BundleInv
<1>2. CASE suite'.pc \in Looping /\ suite'.written = 0
  BY <1>2 DEF SuiteInv, BundleInv, Looping
<1>3. CASE /\ selection' = selection /\ suite'.number = suite.number /\ suite'.written = suite.written
           /\ suite.pc \in Looping \/ suite.pc = suite'.pc
  <2>1. Exports' = Exports
    BY <1>3 DEF Exports, Reports, Optional
  <2>2. CASE suite.pc \in Looping
    <3>1. suite'.written = 0
      BY <1>3, <2>2 DEF SuiteInv, BundleInv, Looping
    <3> QED
      BY <3>1 DEF SuiteInv, BundleInv
  <2>3. CASE suite.pc = suite'.pc
    BY <1>3, <2>1, <2>3 DEF SuiteInv, BundleInv
  <2> QED
    BY <1>3, <2>2, <2>3
<1> QED
  BY <1>1, <1>2, <1>3

\* What a suite writes: a report of its own, or a bundle of the reports it has written.
LEMMA ExportsOwn ==
    ASSUME SuiteInv, ExportNext
    PROVE  BundleInv'
<1>0. /\ suite \in SuiteState /\ suite.pc = "export" /\ suite.written \in Nat
      /\ suite.written < Len(Exports)
  BY DEF SuiteInv, SuiteState, ExportNext, SuiteAt
<1> DEFINE k == Exports[suite.written + 1]
           new == IF k = "bundle" THEN UNION {artifact[j] : j \in BundleMembers} ELSE {suite.number}
<1>1. /\ k \in Kinds
      /\ k = "bundle" => \A m \in BundleMembers : \E j \in 1..suite.written : Exports[j] = m
  BY <1>0, BundleComesLast
<1>2. /\ artifact' = [artifact EXCEPT ![k] = new]
      /\ suite'.number = suite.number /\ suite'.pc = "export" /\ suite'.written = suite.written + 1
      /\ selection' = selection
  BY <1>0 DEF ExportNext, SuiteState
<1>3. k = "bundle" => new \subseteq {suite.number}
  <2> SUFFICES ASSUME k = "bundle", NEW m \in BundleMembers PROVE artifact[m] = {suite.number}
    OBVIOUS
  <2>1. PICK j \in 1..suite.written : Exports[j] = m
    BY <1>1
  <2>2. m # "bundle"
    BY DEF BundleMembers
  <2> QED
    BY <1>0, <2>1, <2>2 DEF SuiteInv, BundleInv
<1>4. DOMAIN artifact = Kinds
  BY ArtifactKinds DEF SuiteInv, BundleInv
<1>5. Exports' = Exports
  BY <1>2 DEF Exports, Reports, Optional
<1>6. k # "bundle" => new = {suite.number}
  OBVIOUS
<1> HIDE DEF new
<1>7. artifact' = [j \in Range(Artifacts) |-> artifact'[j]]
  BY <1>2 DEF SuiteInv, BundleInv
<1>8. \A j \in 1..suite.written + 1 : Exports[j] # "bundle" => artifact'[Exports[j]] = {suite.number}
  <2>1. ASSUME NEW j \in 1..suite.written, Exports[j] # "bundle" PROVE artifact'[Exports[j]] = {suite.number}
    <3>1. artifact[Exports[j]] = {suite.number}
      BY <1>0, <2>1 DEF SuiteInv, BundleInv
    <3>2. Exports[j] \in Kinds
      <4>1. j - 1 \in Nat /\ j - 1 < Len(Exports) /\ (j - 1) + 1 = j
        <5>1. Len(Exports) \in Nat /\ j <= suite.written
          BY <1>0, ExportsLength
        <5> QED
          BY <1>0, <5>1
      <4> QED
        BY <4>1, BundleComesLast
    <3> QED
      BY <1>2, <1>4, <1>6, <2>1, <3>1, <3>2
  <2>2. k # "bundle" => artifact'[k] = {suite.number}
    BY <1>1, <1>2, <1>4, <1>6
  <2>3. \A j \in 1..suite.written + 1 : j \in 1..suite.written \/ j = suite.written + 1
    BY <1>0
  <2> QED
    BY <2>1, <2>2, <2>3
<1>9. \E n : artifact'["bundle"] \subseteq {n}
  <2>1. CASE k = "bundle"
    BY <1>1, <1>2, <1>3, <1>4, <2>1
  <2>2. CASE k # "bundle"
    <3>1. artifact'["bundle"] = artifact["bundle"]
      BY <1>2, <1>4, <2>2 DEF Kinds
    <3> QED
      BY <3>1 DEF SuiteInv, BundleInv
  <2> QED
    BY <2>1, <2>2
<1> QED
  BY <1>2, <1>5, <1>7, <1>8, <1>9 DEF BundleInv

\* Where a suite is, and whether it is late, after each of its steps.
LEMMA SuiteStep == SuiteInv /\ [SuiteNext]_suiteVars => SuiteInv'
<1> SUFFICES ASSUME SuiteInv, [SuiteNext]_suiteVars PROVE SuiteInv'
  OBVIOUS
<1>0. suite \in SuiteState /\ PromptSuite
  BY DEF SuiteInv
<1>1. CASE RefusePack
  <2>1. suite' \in SuiteState /\ suite'.pc = "idle"
    <3>1. suite.number + 1 \in Nat
      BY <1>0 DEF SuiteState
    <3> QED
      BY <3>1, <1>1 DEF RefusePack, NoSuite, SuiteState
  <2>2. artifact' = artifact /\ late' = late /\ stop_requested' = stop_requested
    BY <1>1 DEF RefusePack
  <2> QED
    BY <1>0, <2>1, <2>2, NothingWritten DEF SuiteInv, PromptSuite
<1>2. CASE StartSuite
  <2>1. suite' \in SuiteState /\ suite'.pc = "control" /\ suite'.written = 0
    <3>1. suite.number + 1 \in Nat
      BY <1>0 DEF SuiteState
    <3> QED
      BY <3>1, <1>2 DEF StartSuite, NoSuite, SuiteState
  <2>2. artifact' = artifact /\ late' = 0 /\ stop_requested' = FALSE
    BY <1>2 DEF StartSuite
  <2> QED
    BY <1>0, <2>1, <2>2, NothingWritten DEF SuiteInv, PromptSuite, Looping
<1>3. CASE RequestStop
  <2>1. artifact' = artifact /\ late' = late /\ suite' = suite /\ selection' = selection /\ ~stop_requested
    BY <1>3 DEF RequestStop
  <2> QED
    BY <1>0, <2>1, NothingWritten DEF SuiteInv, PromptSuite
<1>4. CASE NextControl
  <2>1. /\ artifact' = artifact /\ late' = late /\ stop_requested' = stop_requested /\ selection' = selection
        /\ suite.pc = "control"
    BY <1>4 DEF NextControl, SuiteAt
  <2>2. \/ suite' = [suite EXCEPT !.pc = "export", !.stopped = FALSE]
        \/ suite' = [suite EXCEPT !.pc = "export", !.stopped = TRUE]
        \/ suite' = [suite EXCEPT !.pc = "step"]
    BY <1>4 DEF NextControl, Leave, SuiteGoes
  <2>3. suite' \in SuiteState /\ suite'.pc # "emit" /\ suite'.number = suite.number /\ suite'.written = suite.written
    BY <1>0, <2>2 DEF SuiteState
  <2> QED
    BY <1>0, <2>1, <2>3, NothingWritten DEF SuiteInv, PromptSuite, Looping
<1>5. CASE NextStep
  <2>1. /\ artifact' = artifact /\ late' = late /\ stop_requested' = stop_requested /\ selection' = selection
        /\ suite.pc = "step"
    BY <1>5 DEF NextStep, SuiteAt
  <2>2. \/ suite' = [suite EXCEPT !.pc = "control"]
        \/ suite' = [suite EXCEPT !.pc = "export", !.stopped = TRUE]
        \/ suite' = [suite EXCEPT !.pc = "emit"] /\ ~stop_requested
    BY <1>5 DEF NextStep, Leave, SuiteGoes
  <2>3. /\ suite' \in SuiteState /\ suite'.number = suite.number /\ suite'.written = suite.written
        /\ suite'.pc = "emit" => ~stop_requested
    BY <1>0, <2>2 DEF SuiteState
  <2> QED
    BY <1>0, <2>1, <2>3, NothingWritten DEF SuiteInv, PromptSuite, Looping
<1>6. CASE Emit
  <2>1. /\ artifact' = artifact /\ stop_requested' = stop_requested /\ selection' = selection
        /\ suite.pc = "emit" /\ suite' = [suite EXCEPT !.pc = "step"]
        /\ late' = IF stop_requested THEN late + 1 ELSE late
    BY <1>6 DEF Emit, SuiteAt, SuiteGoes
  <2>2. suite' \in SuiteState /\ suite'.pc = "step" /\ suite'.number = suite.number /\ suite'.written = suite.written
    BY <1>0, <2>1 DEF SuiteState
  <2> QED
    BY <1>0, <2>1, <2>2, NothingWritten DEF SuiteInv, PromptSuite, Looping
<1>7. CASE Interrupt
  <2>1. /\ artifact' = artifact /\ late' = late /\ stop_requested' = stop_requested /\ selection' = selection
        /\ suite.pc \in Looping /\ suite' = [suite EXCEPT !.pc = "export", !.stopped = TRUE]
    BY <1>7 DEF Interrupt, Leave, Looping
  <2>2. suite' \in SuiteState /\ suite'.pc = "export" /\ suite'.number = suite.number /\ suite'.written = suite.written
    BY <1>0, <2>1 DEF SuiteState
  <2> QED
    BY <1>0, <2>1, <2>2, NothingWritten DEF SuiteInv, PromptSuite
<1>8. CASE ExportNext
  <2>1. /\ late' = late /\ stop_requested' = stop_requested
        /\ suite.pc = "export" /\ suite' = [suite EXCEPT !.written = @ + 1]
    BY <1>8 DEF ExportNext, SuiteAt
  <2>2. suite' \in SuiteState /\ suite'.pc = "export"
    <3>1. suite.written + 1 \in Nat
      BY <1>0 DEF SuiteState
    <3> QED
      BY <1>0, <2>1, <3>1 DEF SuiteState
  <2> QED
    BY <1>0, <1>8, <2>1, <2>2, ExportsOwn DEF SuiteInv, PromptSuite
<1>9. CASE ExportRaises
  <2> DEFINE k == Exports[suite.written + 1]
  <2>1. /\ late' = late /\ stop_requested' = stop_requested
        /\ \E result \in {"raised", "interrupted", "usage"} :
              suite' = [suite EXCEPT !.pc = "idle", !.result = result]
        /\ artifact' \in {artifact, [artifact EXCEPT ![k] = {}]}
    BY <1>9 DEF ExportRaises
  <2>2. suite' \in SuiteState /\ suite'.pc = "idle"
    BY <1>0, <2>1 DEF SuiteState
  <2> HIDE DEF k
  <2>3. /\ artifact' = [j \in Range(Artifacts) |-> artifact'[j]]
        /\ \A j \in Kinds : artifact'[j] \subseteq artifact[j]
    BY <2>1, ArtifactKinds DEF SuiteInv, BundleInv
  <2>4. "bundle" \in Kinds
    BY DEF Kinds
  <2>5. BundleInv'
    BY <2>2, <2>3, <2>4 DEF SuiteInv, BundleInv
  <2> QED
    BY <1>0, <2>1, <2>2, <2>5 DEF SuiteInv, PromptSuite
<1>10. CASE Return
  <2>1. /\ artifact' = artifact /\ late' = late /\ stop_requested' = stop_requested
        /\ \E result \in {"stopped", "passed", "failed"} :
              suite' = [suite EXCEPT !.pc = "idle", !.result = result]
    BY <1>10 DEF Return
  <2>2. suite' \in SuiteState /\ suite'.pc = "idle"
    BY <1>0, <2>1 DEF SuiteState
  <2> QED
    BY <1>0, <2>1, <2>2, NothingWritten DEF SuiteInv, PromptSuite
<1>11. CASE UNCHANGED suiteVars
  <2>1. artifact' = artifact /\ late' = late /\ suite' = suite /\ selection' = selection
        /\ stop_requested' = stop_requested
    BY <1>11 DEF suiteVars
  <2> QED
    BY <1>0, <2>1, NothingWritten DEF SuiteInv, PromptSuite
<1> QED
  BY <1>1, <1>2, <1>3, <1>4, <1>5, <1>6, <1>7, <1>8, <1>9, <1>10, <1>11 DEF SuiteNext

-----------------------------------------------------------------------------
(* The steps of a simulation.                                                  *)

\* The phase of a cycle is one of the phases.
LEMMA QuotientBelow ==
    ASSUME NEW i \in Nat, NEW n \in Nat \ {0}, i < n, NEW l \in Nat \ {0}
    PROVE  (i * l) \div n \in 0..(l - 1)
<1> DEFINE q == (i * l) \div n
           r == (i * l) % n
<1>1. i * l \in Nat /\ n \in Nat /\ n > 0
  OBVIOUS
<1>2. q \in Int /\ r \in 0..(n - 1) /\ i * l = n * q + r
  BY <1>1
<1>3. i * l < n * l
  OBVIOUS
<1> HIDE DEF q, r
<1>4. q >= 0
  <2> SUFFICES ASSUME q <= -1 PROVE FALSE
    BY <1>2
  <2>1. n * q <= n * (-1)
    BY <1>1, <1>2
  <2> QED
    BY <1>1, <1>2, <2>1
<1>5. q <= l - 1
  <2> SUFFICES ASSUME q >= l PROVE FALSE
    BY <1>2
  <2>1. n * q >= n * l
    BY <1>1, <1>2
  <2>2. n * q \in Int /\ n * l \in Int /\ i * l \in Int
    BY <1>2
  <2> QED
    BY <1>2, <1>3, <2>1, <2>2
<1> QED
  BY <1>2, <1>4, <1>5 DEF q

\* The actions of a phase.
LEMMA PhaseActions ==
    /\ \A phase \in DOMAIN Phases : Phases[phase] \subseteq Actions
    /\ \A i \in Nat : /\ simulator.iterations \in Nat \ {0}
                      /\ i < simulator.iterations
                      => PhaseOf(i) \in DOMAIN Phases
<1>1. Phases \in Seq(SUBSET UNION Range(Phases)) /\ Phases # <<>>
  BY SimulationAssumption
<1>2. DOMAIN Phases = 1..Len(Phases) /\ Len(Phases) \in Nat \ {0}
  BY <1>1
<1>3. \A phase \in DOMAIN Phases : Phases[phase] \subseteq Actions
  BY DEF Actions, Range
<1>4. ASSUME NEW i \in Nat, simulator.iterations \in Nat \ {0}, i < simulator.iterations
      PROVE  PhaseOf(i) \in DOMAIN Phases
  <2>1. (i * Len(Phases)) \div simulator.iterations \in 0..(Len(Phases) - 1)
    BY <1>2, <1>4, QuotientBelow
  <2> QED
    BY <1>2, <2>1 DEF PhaseOf
<1> QED
  BY <1>3, <1>4

SimulationState ==
    [number : Nat, pc : {"idle", "cycle", "run", "start", "layer"}, index : Nat, phase : Nat,
     result : {"none", "done", "interrupted", "raised"}]

\* What is noted as executed and not started: the action at hand, between the two, or
\* where an interrupt came between them.
AtHand ==
    IF /\ pending.kind # "hallucination"
       /\ simulation.pc = "start" \/ simulation.result = "interrupted"
    THEN {pending.action.tactic} ELSE {}

\* A command is started late only in the cycle in which the request came, and there a
\* retry is the second.
PromptSimulation ==
    /\ ~halt_requested => started.late = 0
    /\ started.late \in 0..2
    /\ simulation.pc \in {"run", "start"} =>
          started.late = 0 \/ (started.late = 1 /\ pending.kind = "retry")

\* The layer of a simulation that has ended is what it executed, and what it executed was
\* started and not skipped.
LayerInv ==
    /\ started.tactics \subseteq executed_tactics
    /\ simulation.result # "raised" => executed_tactics \subseteq started.tactics \union AtHand
    /\ simulation.pc = "start" /\ pending.kind # "hallucination" =>
          pending.action.tactic \in executed_tactics
    /\ \A tactic \in executed_tactics :
          \E a \in Actions \union {NoAction} : a.tactic = tactic /\ ~Skipped(a)
    /\ simulation.pc = "idle" /\ simulation.result \in {"done", "interrupted"} =>
          layer = [number |-> simulation.number, techniques |-> executed_tactics]

SimulationTyped ==
    /\ simulation \in SimulationState
    /\ simulator.iterations \in Nat \ {0}
    /\ simulation.pc \in {"run", "start"} => simulation.phase \in DOMAIN Phases
    /\ simulation.result = "interrupted" => simulation.pc \in {"layer", "idle"}
    /\ simulation.result \in {"done", "raised"} => simulation.pc = "idle"
    /\ pending.kind \in {"none", "baseline", "action", "hallucination", "retry"}
    /\ pending.action \in Actions \union {NoAction}

SimulationInv == SimulationTyped /\ PromptSimulation /\ LayerInv

\* What a step that starts nothing and notes nothing leaves of a simulation's promises.
LEMMA NothingStarted ==
    ASSUME SimulationInv, SimulationTyped',
           simulator' = simulator, executed_tactics' = executed_tactics, started' = started,
           halt_requested' = halt_requested \/ halt_requested' = TRUE,
           simulation'.result = "raised" \/ (simulation.result # "raised" /\ AtHand \subseteq AtHand'),
           \/ simulation'.pc \in {"cycle", "layer", "idle"}
           \/ pending' = pending /\ simulation'.pc = simulation.pc
           \/ simulation'.pc = "run" /\ ~halt_requested /\ halt_requested' = halt_requested,
           \/ simulation'.pc # "idle" \/ simulation'.result = "raised"
           \/ /\ simulation'.pc = simulation.pc /\ simulation'.result = simulation.result
              /\ simulation'.number = simulation.number /\ layer' = layer
           \/ layer' = [number |-> simulation'.number, techniques |-> executed_tactics]
    PROVE  SimulationInv'
<1>1. PromptSimulation'
  BY DEF SimulationInv, PromptSimulation
<1>2. \A a : Skipped(a)' <=> Skipped(a)
  BY DEF Skipped
<1>3. LayerInv'
  BY <1>2 DEF SimulationInv, LayerInv
<1> QED
  BY <1>1, <1>3 DEF SimulationInv

LEMMA SimulationStep == SimulationInv /\ [SimulationNext]_simulationVars => SimulationInv'
<1> SUFFICES ASSUME SimulationInv, [SimulationNext]_simulationVars PROVE SimulationInv'
  OBVIOUS
<1>0. SimulationTyped /\ simulation \in SimulationState
  BY DEF SimulationInv, SimulationTyped
<1>1. CASE StartSimulation
  <2>1. /\ simulation' = [NoSimulation EXCEPT !.number = simulation.number + 1, !.pc = "cycle"]
        /\ executed_tactics' = {} /\ pending' = NoPending /\ halt_requested' = FALSE
        /\ started' = NoStarted /\ simulator'.iterations \in Iterations
    BY <1>1 DEF StartSimulation
  <2>2. simulation' \in SimulationState /\ simulation'.pc = "cycle" /\ simulation'.result = "none"
    <3>1. simulation.number + 1 \in Nat
      BY <1>0 DEF SimulationState
    <3> QED
      BY <2>1, <3>1 DEF NoSimulation, SimulationState
  <2>3. SimulationTyped'
    BY <2>1, <2>2, SimulationAssumption DEF SimulationTyped, NoPending
  <2> QED
    BY <2>1, <2>2, <2>3 DEF SimulationInv, PromptSimulation, LayerInv, NoStarted
<1>2. CASE RequestHalt
  <2>1. /\ simulation' = simulation /\ simulator' = simulator /\ pending' = pending /\ layer' = layer
        /\ executed_tactics' = executed_tactics /\ started' = started /\ halt_requested' = TRUE
    BY <1>2 DEF RequestHalt
  <2>2. SimulationTyped' /\ AtHand' = AtHand
    BY <1>0, <2>1 DEF SimulationTyped, AtHand
  <2> QED
    BY <2>1, <2>2, NothingStarted
<1>3. CASE CyclesEnd
  <2>1. /\ simulation' = [simulation EXCEPT !.pc = "layer"] /\ simulation.pc = "cycle"
        /\ simulator' = simulator /\ pending' = pending /\ halt_requested' = halt_requested
        /\ executed_tactics' = executed_tactics /\ started' = started
    BY <1>3 DEF CyclesEnd, SimulationGoes, SimulationAt
  <2>2. simulation' \in SimulationState /\ simulation'.pc = "layer" /\ simulation'.result = simulation.result
    BY <1>0, <2>1 DEF SimulationState
  <2>3. SimulationTyped' /\ AtHand \subseteq AtHand' /\ simulation.result # "raised"
    BY <1>0, <2>1, <2>2 DEF SimulationTyped, AtHand
  <2> QED
    BY <2>1, <2>2, <2>3, NothingStarted
<1>4. CASE NoActionsFound
  <2>1. /\ simulation' = [simulation EXCEPT !.pc = "layer", !.phase = PhaseOf(simulation.index)]
        /\ simulation.pc = "cycle" /\ simulation.index < simulator.iterations
        /\ simulator' = simulator /\ pending' = pending /\ halt_requested' = halt_requested
        /\ executed_tactics' = executed_tactics /\ started' = started
    BY <1>4 DEF NoActionsFound, SimulationAt
  <2>2. PhaseOf(simulation.index) \in Nat
    <3>1. PhaseOf(simulation.index) \in DOMAIN Phases
      BY <1>0, <2>1, PhaseActions DEF SimulationState, SimulationTyped
    <3> QED
      BY <3>1, SimulationAssumption
  <2>3. simulation' \in SimulationState /\ simulation'.pc = "layer" /\ simulation'.result = simulation.result
    BY <1>0, <2>1, <2>2 DEF SimulationState
  <2>4. SimulationTyped' /\ AtHand \subseteq AtHand' /\ simulation.result # "raised"
    BY <1>0, <2>1, <2>3 DEF SimulationTyped, AtHand
  <2> QED
    BY <2>1, <2>3, <2>4, NothingStarted
<1>5. CASE BeginCycle
  <2> DEFINE phase == PhaseOf(simulation.index)
  <2>1. /\ simulation' = [simulation EXCEPT !.pc = "run", !.index = @ + 1, !.phase = phase]
        /\ simulation.pc = "cycle" /\ simulation.index < simulator.iterations
        /\ simulator' = simulator /\ halt_requested' = halt_requested /\ ~halt_requested
        /\ executed_tactics' = executed_tactics /\ started' = started
        /\ \/ pending' = [kind |-> "baseline", action |-> NoAction]
           \/ \E action \in Phases[phase], kind \in {"action", "hallucination"} :
                 pending' = [kind |-> kind, action |-> action]
    BY <1>5 DEF BeginCycle, SimulationAt
  <2>2. phase \in DOMAIN Phases
    BY <1>0, <2>1, PhaseActions DEF SimulationState, SimulationTyped
  <2>3. phase \in Nat /\ Phases[phase] \subseteq Actions
    BY <2>2, SimulationAssumption, PhaseActions
  <2> HIDE DEF phase
  <2>4. simulation' \in SimulationState /\ simulation'.pc = "run" /\ simulation'.result = simulation.result
        /\ simulation'.phase = phase
    <3>1. simulation.index + 1 \in Nat
      BY <1>0 DEF SimulationState
    <3> QED
      BY <1>0, <2>1, <2>3, <3>1 DEF SimulationState
  <2>5. /\ pending'.kind \in {"baseline", "action", "hallucination"}
        /\ pending'.action \in Actions \union {NoAction}
    BY <2>1, <2>3
  <2>6. SimulationTyped' /\ AtHand = {} /\ simulation.result # "raised"
    BY <1>0, <2>1, <2>2, <2>4, <2>5 DEF SimulationTyped, AtHand
  <2> QED
    BY <2>1, <2>4, <2>6, NothingStarted
<1>6. CASE SkipNetwork
  <2>1. /\ simulation' = [simulation EXCEPT !.pc = "cycle"] /\ simulation.pc = "run"
        /\ simulator' = simulator /\ pending' = pending /\ halt_requested' = halt_requested
        /\ executed_tactics' = executed_tactics /\ started' = started
    BY <1>6 DEF SkipNetwork, SimulationGoes, SimulationAt
  <2>2. simulation' \in SimulationState /\ simulation'.pc = "cycle" /\ simulation'.result = simulation.result
    BY <1>0, <2>1 DEF SimulationState
  <2>3. simulation.result = "none"
    BY <1>0, <2>1 DEF SimulationTyped, SimulationState
  <2>4. SimulationTyped' /\ AtHand \subseteq AtHand'
    BY <1>0, <2>1, <2>2, <2>3 DEF SimulationTyped, AtHand
  <2> QED
    BY <2>1, <2>2, <2>4, NothingStarted
<1>7. CASE Run
  <2> DEFINE tactic == pending.action.tactic
  <2>1. /\ simulation' = [simulation EXCEPT !.pc = "start"] /\ simulation.pc = "run"
        /\ simulator' = simulator /\ pending' = pending /\ halt_requested' = halt_requested
        /\ started' = started
        /\ pending.kind # "hallucination" => ~Skipped(pending.action)
        /\ executed_tactics' = IF pending.kind = "hallucination" THEN executed_tactics
                               ELSE executed_tactics \union {tactic}
    BY <1>7 DEF Run, SimulationGoes, SimulationAt
  <2>2. simulation' \in SimulationState /\ simulation'.pc = "start" /\ simulation'.result = simulation.result
        /\ simulation'.phase = simulation.phase
    BY <1>0, <2>1 DEF SimulationState
  <2>3. simulation.result = "none"
    BY <1>0, <2>1 DEF SimulationTyped, SimulationState
  <2>4. SimulationTyped'
    BY <1>0, <2>1, <2>2, <2>3 DEF SimulationTyped
  <2>5. AtHand = {} /\ AtHand' = IF pending.kind = "hallucination" THEN {} ELSE {tactic}
    BY <2>1, <2>2, <2>3 DEF AtHand
  <2>6. \A a : Skipped(a)' <=> Skipped(a)
    BY <2>1 DEF Skipped
  <2>7. PromptSimulation'
    BY <2>1, <2>2 DEF SimulationInv, PromptSimulation
  <2>8. \A t \in executed_tactics' : \E a \in Actions \union {NoAction} : a.tactic = t /\ ~Skipped(a)
    <3>1. pending.action \in Actions \union {NoAction}
      BY <1>0 DEF SimulationTyped
    <3>2. \A t \in executed_tactics : \E a \in Actions \union {NoAction} : a.tactic = t /\ ~Skipped(a)
      BY DEF SimulationInv, LayerInv
    <3>3. \A t \in executed_tactics' : t \in executed_tactics \/ (t = tactic /\ pending.kind # "hallucination")
      BY <2>1
    <3> QED
      BY <2>1, <3>1, <3>2, <3>3
  <2>9. LayerInv'
    <3>1. started.tactics \subseteq executed_tactics /\ executed_tactics \subseteq started.tactics
      BY <2>3, <2>5 DEF SimulationInv, LayerInv
    <3> QED
      BY <2>1, <2>2, <2>5, <2>6, <2>8, <3>1 DEF LayerInv
  <2> QED
    BY <2>4, <2>7, <2>9 DEF SimulationInv
<1>8. CASE Start
  <2> DEFINE tactic == pending.action.tactic
  <2>1. /\ simulation.pc = "start"
        /\ simulator' = simulator /\ halt_requested' = halt_requested
        /\ executed_tactics' = executed_tactics
        /\ started'.tactics = IF pending.kind = "hallucination" THEN started.tactics
                              ELSE started.tactics \union {tactic}
        /\ started'.late = IF halt_requested THEN started.late + 1 ELSE started.late
        /\ \/ /\ pending.kind \in {"hallucination", "action"}
              /\ \E action \in Phases[simulation.phase] : pending' = [kind |-> "retry", action |-> action]
              /\ simulation' = [simulation EXCEPT !.pc = "run"]
           \/ pending' = pending /\ simulation' = [simulation EXCEPT !.pc = "cycle"]
    BY <1>8 DEF Start, SimulationGoes, SimulationAt, MayRetry
  <2>2. /\ simulation' \in SimulationState /\ simulation'.pc \in {"run", "cycle"}
        /\ simulation'.result = simulation.result /\ simulation'.phase = simulation.phase
    BY <1>0, <2>1 DEF SimulationState
  <2>3. simulation.result = "none" /\ simulation.phase \in DOMAIN Phases
    BY <1>0, <2>1 DEF SimulationTyped, SimulationState
  <2>4. Phases[simulation.phase] \subseteq Actions
    BY <2>3, PhaseActions
  <2>5. pending'.kind \in {"retry", pending.kind} /\ pending'.action \in Actions \union {NoAction}
    BY <1>0, <2>1, <2>4 DEF SimulationTyped
  <2>6. SimulationTyped'
    BY <1>0, <2>1, <2>2, <2>3, <2>5 DEF SimulationTyped
  <2>7. simulation'.pc = "run" => pending'.kind = "retry" /\ pending.kind # "retry"
    BY <1>0, <2>1 DEF SimulationState
  <2>8. PromptSimulation'
    <3>1. started.late \in 0..2 /\ (started.late = 0 \/ (started.late = 1 /\ pending.kind = "retry"))
          /\ (~halt_requested => started.late = 0)
      BY <2>1 DEF SimulationInv, PromptSimulation
    <3>2. started'.late \in 0..2 /\ (~halt_requested' => started'.late = 0)
      BY <2>1, <3>1
    <3>3. ASSUME simulation'.pc \in {"run", "start"}
          PROVE  started'.late = 0 \/ (started'.late = 1 /\ pending'.kind = "retry")
      <4>1. simulation'.pc = "run"
        BY <2>2, <3>3
      <4>2. pending'.kind = "retry" /\ started.late = 0
        BY <2>7, <3>1, <4>1
      <4>3. started'.late = 0 \/ started'.late = 1
        BY <2>1, <4>2
      <4> QED
        BY <4>2, <4>3
    <3> QED
      BY <3>2, <3>3 DEF PromptSimulation
  <2>9. AtHand' = {} /\ AtHand = IF pending.kind = "hallucination" THEN {} ELSE {tactic}
    BY <2>1, <2>2, <2>3 DEF AtHand
  <2>10. \A a : Skipped(a)' <=> Skipped(a)
    BY <2>1 DEF Skipped
  <2>11. LayerInv'
    <3>1. /\ started.tactics \subseteq executed_tactics /\ executed_tactics \subseteq started.tactics \union AtHand
          /\ \A t \in executed_tactics : \E a \in Actions \union {NoAction} : a.tactic = t /\ ~Skipped(a)
      BY <2>3 DEF SimulationInv, LayerInv
    <3>2. pending.kind # "hallucination" => tactic \in executed_tactics
      BY <2>1 DEF SimulationInv, LayerInv
    <3> QED
      BY <2>1, <2>2, <2>9, <2>10, <3>1, <3>2 DEF LayerInv
  <2> QED
    BY <2>6, <2>8, <2>11 DEF SimulationInv
<1>9. CASE InterruptSimulation
  <2>1. /\ simulation' = [simulation EXCEPT !.pc = "layer", !.result = "interrupted"]
        /\ simulation.result = "none"
        /\ simulator' = simulator /\ pending' = pending /\ halt_requested' = halt_requested
        /\ executed_tactics' = executed_tactics /\ started' = started
    BY <1>9 DEF InterruptSimulation
  <2>2. simulation' \in SimulationState /\ simulation'.pc = "layer" /\ simulation'.result = "interrupted"
    BY <1>0, <2>1 DEF SimulationState
  <2>3. SimulationTyped' /\ AtHand \subseteq AtHand'
    BY <1>0, <2>1, <2>2 DEF SimulationTyped, AtHand
  <2> QED
    BY <2>1, <2>2, <2>3, NothingStarted
<1>10. CASE ExportLayer
  <2>1. /\ simulation' = [simulation EXCEPT !.pc = "idle",
                              !.result = IF simulation.result = "none" THEN "done" ELSE simulation.result]
        /\ simulation.pc = "layer"
        /\ layer' = [number |-> simulation.number, techniques |-> executed_tactics]
        /\ simulator' = simulator /\ pending' = pending /\ halt_requested' = halt_requested
        /\ executed_tactics' = executed_tactics /\ started' = started
    BY <1>10 DEF ExportLayer, SimulationAt
  <2>2. /\ simulation' \in SimulationState /\ simulation'.pc = "idle" /\ simulation'.number = simulation.number
        /\ simulation'.result = IF simulation.result = "none" THEN "done" ELSE simulation.result
    BY <1>0, <2>1 DEF SimulationState
  <2>3. SimulationTyped' /\ AtHand \subseteq AtHand' /\ simulation.result # "raised"
    BY <1>0, <2>1, <2>2 DEF SimulationTyped, AtHand
  <2> QED
    BY <2>1, <2>2, <2>3, NothingStarted
<1>11. CASE ExportLayerRaises
  <2>1. /\ simulation' = [simulation EXCEPT !.pc = "idle", !.result = "raised"]
        /\ simulator' = simulator /\ pending' = pending /\ halt_requested' = halt_requested
        /\ executed_tactics' = executed_tactics /\ started' = started
    BY <1>11 DEF ExportLayerRaises
  <2>2. simulation' \in SimulationState /\ simulation'.pc = "idle" /\ simulation'.result = "raised"
    BY <1>0, <2>1 DEF SimulationState
  <2>3. SimulationTyped'
    BY <1>0, <2>1, <2>2 DEF SimulationTyped
  <2> QED
    BY <2>1, <2>2, <2>3, NothingStarted
<1>12. CASE UNCHANGED simulationVars
  <2>1. /\ simulation' = simulation /\ simulator' = simulator /\ pending' = pending /\ layer' = layer
        /\ executed_tactics' = executed_tactics /\ started' = started /\ halt_requested' = halt_requested
    BY <1>12 DEF simulationVars
  <2>2. SimulationTyped' /\ AtHand' = AtHand
    BY <1>0, <2>1 DEF SimulationTyped, AtHand
  <2> QED
    BY <2>1, <2>2, NothingStarted
<1> QED
  BY <1>1, <1>2, <1>3, <1>4, <1>5, <1>6, <1>7, <1>8, <1>9, <1>10, <1>11, <1>12 DEF SimulationNext

-----------------------------------------------------------------------------
(* The program.                                                                *)

Inv == SuiteInv /\ SimulationInv

LEMMA InvHolds == Spec => []Inv
<1>1. Init => Inv
  <2> SUFFICES ASSUME Init PROVE Inv
    OBVIOUS
  <2>1. SuiteInv
    <3>1. /\ suite = NoSuite /\ stop_requested = FALSE /\ late = 0
          /\ artifact = [k \in Range(Artifacts) |-> {}]
      BY DEF Init, SuiteInit
    <3>2. suite \in SuiteState /\ PromptSuite
      BY <3>1 DEF NoSuite, SuiteState, PromptSuite
    <3>3. "bundle" \in Range(Artifacts)
      BY ArtifactKinds DEF Kinds
    <3> QED
      BY <3>1, <3>2, <3>3 DEF SuiteInv, BundleInv, NoSuite
  <2>2. SimulationInv
    <3>1. /\ simulator.iterations = 1 /\ simulation = NoSimulation /\ executed_tactics = {}
          /\ pending = NoPending /\ halt_requested = FALSE /\ started = NoStarted
      BY DEF Init, SimulationInit
    <3> QED
      BY <3>1 DEF SimulationInv, SimulationTyped, PromptSimulation, LayerInv, NoSimulation, NoPending,
                  NoStarted, SimulationState
  <2> QED
    BY <2>1, <2>2 DEF Inv
<1>2. Inv /\ [Next]_vars => Inv'
  <2> SUFFICES ASSUME Inv, [Next]_vars PROVE Inv'
    OBVIOUS
  <2>1. [SuiteNext]_suiteVars /\ [SimulationNext]_simulationVars
    BY DEF Next, vars
  <2> QED
    BY <2>1, SuiteStep, SimulationStep DEF Inv
<1> QED
  BY <1>1, <1>2, PTL DEF Spec

\* For any pack and any phases: after a stop request at most the step in progress is made, and
\* the command in progress and its retry started.
THEOREM StopsPromptly == Spec => []StopIsPrompt
<1>1. Inv => StopIsPrompt
  BY DEF Inv, SuiteInv, PromptSuite, SimulationInv, PromptSimulation, StopIsPrompt
<1> QED
  BY <1>1, InvHolds, PTL

\* Whatever is interrupted, stopped or not written: a bundle is of one suite, and the layer of
\* a simulation that ended has the techniques of its commands.
THEOREM OutputsOfTheirRuns == Spec => []OutputsTellRuns
<1>1. Inv => OutputsTellRuns
  <2> SUFFICES ASSUME Inv PROVE OutputsTellRuns
    OBVIOUS
  <2>1. \A n, S : S \subseteq {n} => Cardinality(S) <= 1
    <3> SUFFICES ASSUME NEW n, NEW S, S \subseteq {n} PROVE Cardinality(S) <= 1
      OBVIOUS
    <3>1. S = {} \/ S = {n}
      OBVIOUS
    <3>2. Cardinality({}) = 0 /\ Cardinality({n}) = 1
      BY FS_EmptySet, FS_Singleton
    <3> QED
      BY <3>1, <3>2
  <2>2. BundleOfOneSuite
    BY <2>1 DEF Inv, SuiteInv, BundleInv, BundleOfOneSuite
  <2>3. LayerTellsExecuted
    <3> SUFFICES ASSUME simulation.pc = "idle", simulation.result \in {"done", "interrupted"}
                 PROVE  /\ layer.number = simulation.number
                        /\ started.tactics \subseteq layer.techniques
                        /\ Cardinality(layer.techniques \ started.tactics)
                               <= IF simulation.result = "interrupted" THEN 1 ELSE 0
                        /\ \A technique \in layer.techniques :
                               \E a \in Actions \union {NoAction} : a.tactic = technique /\ ~Skipped(a)
      BY DEF LayerTellsExecuted, SimulationAt
    <3>1. layer.number = simulation.number /\ layer.techniques = executed_tactics
      BY DEF Inv, SimulationInv, LayerInv
    <3>2. /\ started.tactics \subseteq executed_tactics
          /\ executed_tactics \subseteq started.tactics \union AtHand
          /\ \A technique \in executed_tactics :
                \E a \in Actions \union {NoAction} : a.tactic = technique /\ ~Skipped(a)
      BY DEF Inv, SimulationInv, LayerInv
    <3>3. CASE simulation.result = "interrupted"
      <4>1. executed_tactics \ started.tactics \subseteq {pending.action.tactic}
        BY <3>2 DEF AtHand
      <4> QED
        BY <2>1, <3>1, <3>2, <3>3, <4>1
    <3>4. CASE simulation.result # "interrupted"
      <4>1. executed_tactics \ started.tactics = {}
        BY <3>2, <3>4 DEF AtHand
      <4> QED
        BY <3>1, <3>2, <3>4, <4>1, FS_EmptySet
    <3> QED
      BY <3>3, <3>4
  <2> QED
    BY <2>2, <2>3 DEF OutputsTellRuns
<1> QED
  BY <1>1, InvHolds, PTL

-----------------------------------------------------------------------------
(* Recursion on a number.                                                      *)

Below == {p \in Nat \X Nat : p[1] < p[2]}

LEMMA SetInduction ==
    ASSUME NEW S, 0 \in S, \A n \in Nat : n \in S => n + 1 \in S
    PROVE  Nat \subseteq S
<1> SUFFICES ASSUME Nat \ S # {} PROVE FALSE
  OBVIOUS
<1> DEFINE T == Nat \ S
<1>1. IsWellFoundedOn(Below, Nat)
  BY NatLessThanWellFounded DEF OpToRel, Below
<1>2. PICK x \in T : \A y \in T : ~(<<y, x>> \in Below)
  <2>1. T \subseteq Nat /\ T # {}
    OBVIOUS
  <2> HIDE DEF T
  <2> QED
    BY <1>1, <2>1, WFMin
<1>3. x \in Nat /\ x # 0 /\ x - 1 \in Nat /\ x - 1 < x
  OBVIOUS
<1>4. x - 1 \in S
  BY <1>2, <1>3 DEF Below
<1>5. (x - 1) + 1 \in S
  BY <1>3, <1>4
<1> QED
  BY <1>3, <1>5

\* The states of a loop of N rounds from x, each of which takes the state before and its number.
Loop(X, x, g, N, h) ==
    h \in [0..N -> X] /\ h[0] = x /\ \A n \in 1..N : h[n] = g[h[n - 1]][n]

LEMMA LoopHasStates ==
    ASSUME NEW X, NEW x \in X, NEW g \in [X -> [Nat -> X]], NEW N \in Nat
    PROVE  \E h : Loop(X, x, g, N, h)
<1> DEFINE Upto(f, m) == f[0] = x /\ \A n \in 1..m : f[n] = g[f[n - 1]][n]
           T == {m \in Nat : \E f \in [0..m -> X] : Upto(f, m)}
<1>1. 0 \in T
  <2> DEFINE f == [n \in 0..0 |-> x]
  <2>1. f \in [0..0 -> X] /\ Upto(f, 0)
    OBVIOUS
  <2> HIDE DEF f, Upto
  <2> QED
    BY <2>1
<1>2. ASSUME NEW m \in Nat, m \in T PROVE m + 1 \in T
  <2>1. PICK f \in [0..m -> X] : Upto(f, m)
    <3> HIDE DEF Upto
    <3> QED
      BY <1>2
  <2> DEFINE h == [n \in 0..m + 1 |-> IF n <= m THEN f[n] ELSE g[f[m]][m + 1]]
  <2>2. f[m] \in X /\ g[f[m]][m + 1] \in X
    OBVIOUS
  <2>3. h \in [0..m + 1 -> X]
    BY <2>2
  <2>4. (\A n \in 0..m : h[n] = f[n]) /\ h[m + 1] = g[f[m]][m + 1]
    OBVIOUS
  <2> HIDE DEF h
  <2>5. ASSUME NEW n \in 1..m + 1 PROVE h[n] = g[h[n - 1]][n]
    <3>1. CASE n = m + 1
      <4>1. n - 1 = m /\ m \in 0..m
        BY <3>1
      <4> QED
        BY <2>4, <3>1, <4>1
    <3>2. CASE n # m + 1
      <4>1. n \in 1..m /\ n - 1 \in 0..m /\ n \in 0..m
        BY <3>2
      <4> QED
        BY <2>1, <2>4, <4>1
    <3> QED
      BY <3>1, <3>2
  <2>6. Upto(h, m + 1)
    <3>1. h[0] = x
      BY <2>1, <2>4
    <3> QED
      BY <2>5, <3>1
  <2> HIDE DEF Upto
  <2> QED
    BY <2>3, <2>6
<1>3. N \in T
  <2> HIDE DEF T
  <2> QED
    BY <1>1, <1>2, SetInduction
<1>4. PICK f \in [0..N -> X] : Upto(f, N)
  BY <1>3
<1> QED
  BY <1>4 DEF Loop

-----------------------------------------------------------------------------
(* Judging a trace.                                                            *)

\* How many conditions are met, after each event.
Meets(es, cs, met) ==
    /\ met \in [0..Len(es) -> 0..Len(cs)] /\ met[0] = 0
    /\ \A n \in 1..Len(es) :
          met[n] = IF met[n - 1] < Len(cs) /\ ConditionMatches(es[n], cs[met[n - 1] + 1])
                   THEN met[n - 1] + 1 ELSE met[n - 1]

LEMMA SignalsAre ==
    ASSUME NEW S, NEW T, NEW es \in Seq(S), NEW cs \in Seq(T)
    PROVE  \E met : Meets(es, cs, met) /\ Signals(es, cs) = {n \in DOMAIN es : met[n] > met[n - 1]}
<1> DEFINE N == Len(es)
           X == 0..Len(cs)
           Next1(x, n) == IF x < Len(cs) /\ ConditionMatches(es[n], cs[x + 1]) THEN x + 1 ELSE x
           g == [x \in X |-> [n \in Nat |-> Next1(x, n)]]
           Body(h) == [n \in 0..N |-> IF n = 0 THEN 0
                                      ELSE IF h[n - 1] < Len(cs) /\ ConditionMatches(es[n], cs[h[n - 1] + 1])
                                           THEN h[n - 1] + 1 ELSE h[n - 1]]
           met == CHOOSE h : h = Body(h)
<1>1. N \in Nat /\ Len(cs) \in Nat /\ 0 \in X
  OBVIOUS
<1>2. \A x \in X, n \in Nat : Next1(x, n) \in X
  BY <1>1
<1>3. Signals(es, cs) = {n \in DOMAIN es : met[n] > met[n - 1]}
  BY DEF Signals
<1>4. \A h : Body(h) = [n \in 0..N |-> IF n = 0 THEN 0 ELSE Next1(h[n - 1], n)]
  OBVIOUS
<1> HIDE DEF Body, Next1, X, N
<1>5. g \in [X -> [Nat -> X]] /\ \A x \in X, n \in Nat : g[x][n] = Next1(x, n)
  BY <1>2
<1> HIDE DEF g
<1>6. PICK r : Loop(X, 0, g, N, r)
  BY <1>1, <1>5, LoopHasStates
<1>7. r \in [0..N -> X] /\ r[0] = 0 /\ \A n \in 1..N : r[n] = g[r[n - 1]][n]
  BY <1>6 DEF Loop
<1>8. r = Body(r)
  <2>1. \A n \in 1..N : n - 1 \in 0..N /\ n \in Nat
    BY <1>1
  <2>2. \A n \in 0..N : n = 0 \/ n \in 1..N
    BY <1>1
  <2>3. \A n \in 0..N : r[n] = IF n = 0 THEN 0 ELSE Next1(r[n - 1], n)
    BY <1>5, <1>7, <2>1, <2>2
  <2> DEFINE h == [n \in 0..N |-> IF n = 0 THEN 0 ELSE Next1(r[n - 1], n)]
  <2>4. r = h
    BY <1>7, <2>3
  <2> QED
    BY <1>4, <2>4
<1>9. met = Body(met)
  BY <1>8
<1> HIDE DEF met
<1>10. /\ DOMAIN met = 0..N /\ met = [n \in 0..N |-> met[n]]
       /\ \A n \in 0..N : met[n] = IF n = 0 THEN 0 ELSE Next1(met[n - 1], n)
  BY <1>4, <1>9
<1>11. met[0] = 0 /\ \A n \in 1..N : met[n] = Next1(met[n - 1], n)
  <2>1. 0 \in 0..N /\ \A n \in 1..N : n \in 0..N /\ n # 0
    BY <1>1
  <2> QED
    BY <1>10, <2>1
<1>12. \A n \in 0..N : met[n] \in X
  <2> DEFINE I == {n \in Nat : n <= N => met[n] \in X}
  <2>1. 0 \in I
    BY <1>1, <1>11
  <2>2. ASSUME NEW n \in Nat, n \in I PROVE n + 1 \in I
    <3> SUFFICES ASSUME n + 1 <= N PROVE met[n + 1] \in X
      OBVIOUS
    <3>1. n + 1 \in 1..N /\ (n + 1) - 1 = n /\ met[n] \in X
      BY <1>1, <2>2
    <3>2. met[n + 1] = Next1(met[n], n + 1)
      BY <1>11, <3>1
    <3> QED
      BY <1>2, <3>1, <3>2
  <2>3. Nat \subseteq I
    <3> HIDE DEF I
    <3> QED
      BY <2>1, <2>2, SetInduction
  <2> QED
    BY <2>3
<1>13. Meets(es, cs, met)
  BY <1>10, <1>11, <1>12 DEF Meets, Next1, X, N
<1> QED
  BY <1>3, <1>13

\* One event after the other, no fewer conditions are met, and one more at most.
LEMMA MeetsGrow ==
    ASSUME NEW S, NEW T, NEW es \in Seq(S), NEW cs \in Seq(T), NEW met, Meets(es, cs, met)
    PROVE  /\ \A n \in 1..Len(es) : met[n] = met[n - 1] \/ met[n] = met[n - 1] + 1
           /\ \A i, j \in 0..Len(es) : i <= j => met[i] <= met[j]
<1> DEFINE N == Len(es)
<1>1. N \in Nat /\ Len(cs) \in Nat
  OBVIOUS
<1>2. met \in [0..N -> 0..Len(cs)] /\ \A n \in 0..N : met[n] \in Int
  BY <1>1 DEF Meets
<1>3. \A n \in 1..N : met[n] = met[n - 1] \/ met[n] = met[n - 1] + 1
  BY DEF Meets
<1>4. ASSUME NEW i \in 0..N PROVE \A j \in 0..N : i <= j => met[i] <= met[j]
  <2> DEFINE I == {j \in Nat : j <= N /\ i <= j => met[i] <= met[j]}
  <2>1. 0 \in I
    BY <1>1, <1>2
  <2>2. ASSUME NEW j \in Nat, j \in I PROVE j + 1 \in I
    <3> SUFFICES ASSUME j + 1 <= N, i <= j + 1 PROVE met[i] <= met[j + 1]
      OBVIOUS
    <3>1. CASE i = j + 1
      BY <1>2, <3>1
    <3>2. CASE i # j + 1
      <4>1. i <= j /\ j <= N /\ j \in 0..N /\ j + 1 \in 1..N /\ (j + 1) - 1 = j
        BY <1>1, <3>2
      <4>2. met[i] <= met[j]
        BY <2>2, <4>1
      <4>3. met[j + 1] = met[j] \/ met[j + 1] = met[j] + 1
        BY <1>3, <4>1
      <4> QED
        BY <1>2, <4>1, <4>2, <4>3
    <3> QED
      BY <3>1, <3>2
  <2>3. Nat \subseteq I
    <3> HIDE DEF I
    <3> QED
      BY <2>1, <2>2, SetInduction
  <2> QED
    BY <1>1, <2>3
<1> QED
  BY <1>3, <1>4

\* There are as many signals as conditions that are met.
LEMMA SignalsCount ==
    ASSUME NEW S, NEW T, NEW es \in Seq(S), NEW cs \in Seq(T), NEW met, Meets(es, cs, met)
    PROVE  Cardinality({n \in DOMAIN es : met[n] > met[n - 1]}) = met[Len(es)]
<1> DEFINE N == Len(es)
           Upto(n) == {k \in 1..n : met[k] > met[k - 1]}
           I == {n \in Nat : n <= N => IsFiniteSet(Upto(n)) /\ Cardinality(Upto(n)) = met[n]}
<1>1. N \in Nat /\ DOMAIN es = 1..N
  OBVIOUS
<1>2. met \in [0..N -> 0..Len(cs)] /\ met[0] = 0 /\ \A n \in 0..N : met[n] \in Int
  <2>1. met \in [0..N -> 0..Len(cs)] /\ met[0] = 0
    BY DEF Meets
  <2>2. \A n \in 0..N : met[n] \in 0..Len(cs)
    BY <2>1
  <2> QED
    BY <2>1, <2>2
<1>3. \A n \in 1..N : met[n] = met[n - 1] \/ met[n] = met[n - 1] + 1
  BY MeetsGrow
<1>4. 0 \in I
  <2>1. Upto(0) = {}
    OBVIOUS
  <2> QED
    BY <1>2, <2>1, FS_EmptySet
<1>5. ASSUME NEW n \in Nat, n \in I PROVE n + 1 \in I
  <2> SUFFICES ASSUME n + 1 <= N PROVE IsFiniteSet(Upto(n + 1)) /\ Cardinality(Upto(n + 1)) = met[n + 1]
    OBVIOUS
  <2>1. n <= N /\ n \in 0..N /\ n + 1 \in 1..N /\ (n + 1) - 1 = n /\ n + 1 \in 0..N
    BY <1>1
  <2>2. IsFiniteSet(Upto(n)) /\ Cardinality(Upto(n)) = met[n]
    BY <1>5, <2>1
  <2>3. met[n + 1] = met[n] \/ met[n + 1] = met[n] + 1
    BY <1>3, <2>1
  <2>4. \A k \in 1..n + 1 : k \in 1..n \/ k = n + 1
    OBVIOUS
  <2>5. n + 1 \notin Upto(n) /\ \A k \in 1..n : k \in 1..n + 1
    OBVIOUS
  <2>6. CASE met[n + 1] = met[n]
    <3>1. ~(met[n + 1] > met[n])
      BY <1>2, <2>1, <2>6
    <3>2. Upto(n + 1) = Upto(n)
      BY <2>1, <2>4, <2>5, <3>1
    <3> HIDE DEF Upto
    <3> QED
      BY <2>2, <2>6, <3>2
  <2>7. CASE met[n + 1] = met[n] + 1
    <3>1. met[n + 1] > met[n]
      BY <1>2, <2>1, <2>7
    <3>2. Upto(n + 1) = Upto(n) \union {n + 1}
      BY <2>1, <2>4, <2>5, <3>1
    <3> HIDE DEF Upto
    <3>3. IsFiniteSet(Upto(n) \union {n + 1}) /\ Cardinality(Upto(n) \union {n + 1}) = Cardinality(Upto(n)) + 1
      BY <2>2, <2>5, FS_AddElement
    <3> QED
      BY <2>2, <2>7, <3>2, <3>3
  <2> QED
    BY <2>3, <2>6, <2>7
<1>6. Nat \subseteq I
  <2> HIDE DEF I
  <2> QED
    BY <1>4, <1>5, SetInduction
<1>7. Cardinality(Upto(N)) = met[N]
  <2>1. N \in I /\ N <= N
    <3> HIDE DEF I, N
    <3> QED
      BY <1>1, <1>6
  <2> HIDE DEF Upto
  <2> QED
    BY <2>1
<1> QED
  BY <1>1, <1>7

\* If the conditions can be met in their order, in whatever way, one pass meets them all.
LEMMA OnePassMeetsAll ==
    ASSUME NEW S, NEW T, NEW es \in Seq(S), NEW cs \in Seq(T), cs # <<>>, NEW met, Meets(es, cs, met),
           Embeds(es, cs)
    PROVE  met[Len(es)] = Len(cs)
<1> DEFINE N == Len(es)
           L == Len(cs)
<1>1. N \in Nat /\ L \in Nat /\ L # 0 /\ DOMAIN es = 1..N /\ DOMAIN cs = 1..L
  OBVIOUS
<1>2. met \in [0..N -> 0..L] /\ \A n \in 0..N : met[n] \in Int /\ met[n] >= 0 /\ met[n] <= L
  BY <1>1 DEF Meets
<1>3. PICK at \in [1..L -> 1..N] :
         /\ \A k \in 1..L : ConditionMatches(es[at[k]], cs[k])
         /\ \A j, k \in 1..L : j < k => at[j] < at[k]
  BY <1>1 DEF Embeds
<1>4. \A i, j \in 0..N : i <= j => met[i] <= met[j]
  BY MeetsGrow
<1> DEFINE I == {k \in Nat : k <= L /\ k # 0 => met[at[k]] >= k}
<1>5. 0 \in I
  OBVIOUS
<1>6. ASSUME NEW k \in Nat, k \in I PROVE k + 1 \in I
  <2> SUFFICES ASSUME k + 1 <= L PROVE met[at[k + 1]] >= k + 1
    OBVIOUS
  <2> DEFINE n == at[k + 1]
  <2>1. k + 1 \in 1..L /\ n \in 1..N /\ n - 1 \in 0..N /\ n \in 0..N
    BY <1>1
  <2>2. ConditionMatches(es[n], cs[k + 1])
    BY <1>3, <2>1
  <2>3. met[n - 1] >= k
    <3>1. CASE k = 0
      BY <1>2, <2>1, <3>1
    <3>2. CASE k # 0
      <4>1. k \in 1..L /\ k < k + 1
        BY <1>1, <3>2
      <4>2. at[k] \in 1..N /\ at[k] < n /\ met[at[k]] >= k
        BY <1>3, <1>6, <2>1, <3>2, <4>1
      <4>3. at[k] \in 0..N /\ at[k] <= n - 1
        BY <2>1, <4>2
      <4>4. met[at[k]] <= met[n - 1]
        BY <1>4, <2>1, <4>3
      <4> QED
        BY <1>2, <2>1, <4>2, <4>3, <4>4
    <3> QED
      BY <3>1, <3>2
  <2>4. met[n] = IF met[n - 1] < L /\ ConditionMatches(es[n], cs[met[n - 1] + 1]) THEN met[n - 1] + 1 ELSE met[n - 1]
    BY <2>1 DEF Meets
  <2> HIDE DEF n
  <2>5. met[n - 1] \in Int
    BY <1>2, <2>1
  <2>6. CASE met[n - 1] = k
    <3>1. met[n - 1] < L /\ ConditionMatches(es[n], cs[met[n - 1] + 1])
      BY <1>1, <2>2, <2>6
    <3> QED
      BY <2>4, <2>6, <3>1 DEF n
  <2>7. CASE met[n - 1] # k
    <3>1. met[n - 1] >= k + 1
      BY <2>3, <2>5, <2>7
    <3> QED
      BY <2>4, <2>5, <3>1 DEF n
  <2> QED
    BY <2>6, <2>7
<1>7. met[at[L]] >= L
  <2>1. Nat \subseteq I
    <3> HIDE DEF I
    <3> QED
      BY <1>5, <1>6, SetInduction
  <2> QED
    BY <1>1, <2>1
<1>8. at[L] \in 0..N /\ N \in 0..N /\ at[L] <= N
  BY <1>1
<1>9. met[at[L]] <= met[N]
  BY <1>4, <1>8
<1> QED
  BY <1>2, <1>7, <1>8, <1>9

\* And if it does, its signals meet them in their order.
LEMMA SignalsEmbed ==
    ASSUME NEW S, NEW T, NEW es \in Seq(S), NEW cs \in Seq(T), NEW met, Meets(es, cs, met),
           met[Len(es)] = Len(cs)
    PROVE  Embeds(es, cs)
<1> DEFINE N == Len(es)
           L == Len(cs)
           Meeting(k, m) == met[m] = k /\ met[m - 1] = k - 1
<1>1. N \in Nat /\ L \in Nat /\ DOMAIN es = 1..N /\ DOMAIN cs = 1..L
  OBVIOUS
<1>2. met \in [0..N -> 0..L] /\ met[0] = 0 /\ \A n \in 0..N : met[n] \in Int
  BY <1>1 DEF Meets
<1>3. /\ \A n \in 1..N : met[n] = met[n - 1] \/ met[n] = met[n - 1] + 1
      /\ \A i, j \in 0..N : i <= j => met[i] <= met[j]
  BY MeetsGrow
<1> DEFINE I == {n \in Nat : n <= N => \A k \in 1..met[n] : \E m \in 1..n : Meeting(k, m)}
<1>4. 0 \in I
  BY <1>2
<1>5. ASSUME NEW n \in Nat, n \in I PROVE n + 1 \in I
  <2> SUFFICES ASSUME n + 1 <= N, NEW k \in 1..met[n + 1] PROVE \E m \in 1..n + 1 : Meeting(k, m)
    OBVIOUS
  <2>1. n <= N /\ n \in 0..N /\ n + 1 \in 1..N /\ (n + 1) - 1 = n /\ n + 1 \in 0..N
    BY <1>1
  <2>2. met[n + 1] = met[n] \/ met[n + 1] = met[n] + 1
    BY <1>3, <2>1
  <2>3. CASE k \in 1..met[n]
    <3>1. PICK m \in 1..n : Meeting(k, m)
      BY <1>5, <2>1, <2>3
    <3>2. m \in 1..n + 1
      OBVIOUS
    <3> QED
      BY <3>1, <3>2
  <2>4. CASE k \notin 1..met[n]
    <3>1. k = met[n] + 1 /\ met[n + 1] = k
      BY <1>2, <2>1, <2>2, <2>4
    <3>2. Meeting(k, n + 1)
      BY <1>2, <2>1, <3>1
    <3>3. n + 1 \in 1..n + 1
      OBVIOUS
    <3> QED
      BY <3>2, <3>3
  <2> QED
    BY <2>3, <2>4
<1>6. \A k \in 1..L : \E m \in 1..N : Meeting(k, m)
  <2>1. Nat \subseteq I
    <3> HIDE DEF I
    <3> QED
      BY <1>4, <1>5, SetInduction
  <2> HIDE DEF Meeting
  <2> QED
    BY <1>1, <2>1
<1> DEFINE at == [k \in 1..L |-> CHOOSE m \in 1..N : Meeting(k, m)]
<1>7. \A k \in 1..L : at[k] \in 1..N /\ Meeting(k, at[k])
  <2> HIDE DEF Meeting
  <2> QED
    BY <1>6
<1>8. at \in [1..L -> 1..N]
  BY <1>7
<1> HIDE DEF at
<1>9. ASSUME NEW k \in 1..L PROVE ConditionMatches(es[at[k]], cs[k])
  <2> DEFINE n == at[k]
  <2>1. n \in 1..N /\ met[n] = k /\ met[n - 1] = k - 1
    BY <1>7
  <2> HIDE DEF n
  <2>2. met[n] = IF met[n - 1] < L /\ ConditionMatches(es[n], cs[met[n - 1] + 1]) THEN met[n - 1] + 1 ELSE met[n - 1]
    BY <2>1 DEF Meets
  <2>3. k # k - 1 /\ (k - 1) + 1 = k
    OBVIOUS
  <2>4. ConditionMatches(es[n], cs[k])
    BY <2>1, <2>2, <2>3
  <2> QED
    BY <2>4 DEF n
<1>10. ASSUME NEW j \in 1..L, NEW k \in 1..L, j < k PROVE at[j] < at[k]
  <2>1. /\ at[j] \in 1..N /\ met[at[j]] = j /\ met[at[j] - 1] = j - 1
        /\ at[k] \in 1..N /\ met[at[k]] = k /\ met[at[k] - 1] = k - 1
    BY <1>7
  <2>2. at[j] # at[k]
    BY <1>10, <2>1
  <2>3. ASSUME at[k] <= at[j] - 1 PROVE FALSE
    <3>1. at[k] \in 0..N /\ at[j] - 1 \in 0..N
      BY <1>1, <2>1
    <3>2. met[at[k]] <= met[at[j] - 1]
      BY <1>3, <2>3, <3>1
    <3> QED
      BY <1>10, <2>1, <3>2
  <2> QED
    BY <1>1, <2>1, <2>2, <2>3
<1> QED
  BY <1>1, <1>8, <1>9, <1>10 DEF Embeds

LEMMA DetectsWhatEmbeds ==
    ASSUME NEW S, NEW T, NEW es \in Seq(S), NEW cs \in Seq(T), cs # <<>>
    PROVE  Detects(es, cs) <=> Embeds(es, cs)
<1>1. PICK met : Meets(es, cs, met) /\ Signals(es, cs) = {n \in DOMAIN es : met[n] > met[n - 1]}
  BY SignalsAre
<1>2. Cardinality(Signals(es, cs)) = met[Len(es)]
  BY <1>1, SignalsCount
<1>3. Embeds(es, cs) => met[Len(es)] = Len(cs)
  BY <1>1, OnePassMeetsAll
<1>4. met[Len(es)] = Len(cs) => Embeds(es, cs)
  BY <1>1, SignalsEmbed
<1> QED
  BY <1>2, <1>3, <1>4 DEF Detects

-----------------------------------------------------------------------------
(* The traces of the events.                                                   *)

\* The events of a trace, found one after another.
Finds(es, t, kept) ==
    /\ DOMAIN kept = 0..Len(es) /\ kept[0] = <<>>
    /\ \A n \in 1..Len(es) :
          kept[n] = IF es[n].trace = t THEN Append(kept[n - 1], es[n]) ELSE kept[n - 1]

LEMMA TraceIsFound ==
    ASSUME NEW S, NEW es \in Seq(S), NEW t
    PROVE  \E kept : /\ Finds(es, t, kept) /\ \A n \in 0..Len(es) : kept[n] \in Seq(S)
                     /\ TraceOf(es, t) = kept[Len(es)]
<1> DEFINE N == Len(es)
           X == Seq(S)
           Next1(x, n) == IF n \in 1..N /\ es[n].trace = t THEN Append(x, es[n]) ELSE x
           g == [x \in X |-> [n \in Nat |-> Next1(x, n)]]
           Body(h) == [n \in 0..N |-> IF n = 0 THEN <<>>
                                      ELSE IF es[n].trace = t THEN Append(h[n - 1], es[n]) ELSE h[n - 1]]
           kept == CHOOSE h : h = Body(h)
<1>1. N \in Nat /\ <<>> \in X
  OBVIOUS
<1>2. \A x \in X, n \in Nat : Next1(x, n) \in X
  OBVIOUS
<1>3. TraceOf(es, t) = kept[N]
  BY DEF TraceOf
<1>4. \A h : Body(h) = [n \in 0..N |-> IF n = 0 THEN <<>> ELSE Next1(h[n - 1], n)]
  <2>1. \A h, n : n \in 0..N /\ n # 0 =>
           Next1(h[n - 1], n) = IF es[n].trace = t THEN Append(h[n - 1], es[n]) ELSE h[n - 1]
    BY <1>1
  <2> HIDE DEF Next1
  <2> QED
    BY <2>1
<1>5. g \in [X -> [Nat -> X]] /\ \A x \in X, n \in Nat : g[x][n] = Next1(x, n)
  <2> HIDE DEF Next1, X
  <2> QED
    BY <1>2
<1> HIDE DEF Body, Next1, X, N, g
<1>6. PICK r : Loop(X, <<>>, g, N, r)
  BY <1>1, <1>5, LoopHasStates
<1>7. r \in [0..N -> X] /\ r[0] = <<>> /\ \A n \in 1..N : r[n] = g[r[n - 1]][n]
  BY <1>6 DEF Loop
<1>8. r = Body(r)
  <2>1. \A n \in 1..N : n - 1 \in 0..N /\ n \in Nat
    BY <1>1
  <2>2. \A n \in 0..N : n = 0 \/ n \in 1..N
    BY <1>1
  <2>3. \A n \in 0..N : r[n] = IF n = 0 THEN <<>> ELSE Next1(r[n - 1], n)
    BY <1>5, <1>7, <2>1, <2>2
  <2> DEFINE h == [n \in 0..N |-> IF n = 0 THEN <<>> ELSE Next1(r[n - 1], n)]
  <2>4. r = h
    BY <1>7, <2>3
  <2> QED
    BY <1>4, <2>4
<1>9. kept = Body(kept)
  BY <1>8
<1> HIDE DEF kept
<1>10. DOMAIN kept = 0..N /\ \A n \in 0..N : kept[n] = IF n = 0 THEN <<>> ELSE Next1(kept[n - 1], n)
  BY <1>4, <1>9
<1>11. kept[0] = <<>> /\ \A n \in 1..N : kept[n] = Next1(kept[n - 1], n)
  <2>1. 0 \in 0..N /\ \A n \in 1..N : n \in 0..N /\ n # 0
    BY <1>1
  <2> QED
    BY <1>10, <2>1
<1>12. \A n \in 0..N : kept[n] \in X
  <2> DEFINE I == {n \in Nat : n <= N => kept[n] \in X}
  <2>1. 0 \in I
    BY <1>1, <1>11
  <2>2. ASSUME NEW n \in Nat, n \in I PROVE n + 1 \in I
    <3> SUFFICES ASSUME n + 1 <= N PROVE kept[n + 1] \in X
      OBVIOUS
    <3>1. n + 1 \in 1..N /\ (n + 1) - 1 = n /\ kept[n] \in X
      BY <1>1, <2>2
    <3>2. kept[n + 1] = Next1(kept[n], n + 1)
      BY <1>11, <3>1
    <3> QED
      BY <1>2, <3>1, <3>2
  <2>3. Nat \subseteq I
    <3> HIDE DEF I
    <3> QED
      BY <2>1, <2>2, SetInduction
  <2> QED
    BY <2>3
<1>13. Finds(es, t, kept)
  BY <1>10, <1>11 DEF Finds, Next1, N
<1> QED
  BY <1>3, <1>12, <1>13 DEF X, N

\* There is nothing in the trace of no events, and another event is in its own trace only.
LEMMA EmptyTrace == \A t : TraceOf(<<>>, t) = <<>>
<1> SUFFICES ASSUME NEW t PROVE TraceOf(<<>>, t) = <<>>
  OBVIOUS
<1>1. <<>> \in Seq({}) /\ Len(<<>>) = 0
  OBVIOUS
<1>2. PICK kept : Finds(<<>>, t, kept) /\ TraceOf(<<>>, t) = kept[Len(<<>>)]
  BY <1>1, TraceIsFound
<1> QED
  BY <1>1, <1>2 DEF Finds

LEMMA TraceGrows ==
    ASSUME NEW S, NEW es \in Seq(S), NEW e \in S, NEW t
    PROVE  /\ TraceOf(es, t) \in Seq(S)
           /\ TraceOf(Append(es, e), t) = IF e.trace = t THEN Append(TraceOf(es, t), e) ELSE TraceOf(es, t)
<1> DEFINE N == Len(es)
           more == Append(es, e)
<1>1. /\ N \in Nat /\ more \in Seq(S) /\ Len(more) = N + 1 /\ more[N + 1] = e
      /\ \A n \in 1..N : more[n] = es[n]
  OBVIOUS
<1> HIDE DEF more
<1>2. PICK f : Finds(es, t, f) /\ (\A n \in 0..N : f[n] \in Seq(S)) /\ TraceOf(es, t) = f[N]
  BY TraceIsFound
<1>3. PICK h : Finds(more, t, h) /\ TraceOf(more, t) = h[N + 1]
  BY <1>1, TraceIsFound
<1> DEFINE I == {n \in Nat : n <= N => h[n] = f[n]}
<1>4. 0 \in I
  BY <1>2, <1>3 DEF Finds
<1>5. ASSUME NEW n \in Nat, n \in I PROVE n + 1 \in I
  <2> SUFFICES ASSUME n + 1 <= N PROVE h[n + 1] = f[n + 1]
    OBVIOUS
  <2>1. n + 1 \in 1..N /\ n + 1 \in 1..Len(more) /\ (n + 1) - 1 = n /\ h[n] = f[n]
    BY <1>1, <1>5
  <2>2. more[n + 1] = es[n + 1]
    BY <1>1, <2>1
  <2>3. f[n + 1] = IF es[n + 1].trace = t THEN Append(f[n], es[n + 1]) ELSE f[n]
    BY <1>2, <2>1 DEF Finds
  <2>4. h[n + 1] = IF more[n + 1].trace = t THEN Append(h[n], more[n + 1]) ELSE h[n]
    BY <1>3, <2>1 DEF Finds
  <2> QED
    BY <2>1, <2>2, <2>3, <2>4
<1>6. h[N] = f[N]
  <2>1. Nat \subseteq I
    <3> HIDE DEF I
    <3> QED
      BY <1>4, <1>5, SetInduction
  <2> QED
    BY <1>1, <2>1
<1>7. h[N + 1] = IF e.trace = t THEN Append(h[N], e) ELSE h[N]
  <2>1. N + 1 \in 1..Len(more) /\ (N + 1) - 1 = N
    BY <1>1
  <2> QED
    BY <1>1, <1>3, <2>1 DEF Finds
<1>8. f[N] \in Seq(S)
  BY <1>1, <1>2
<1> QED
  BY <1>2, <1>3, <1>6, <1>7, <1>8 DEF more

\* A trace with events is one of the traces.
LEMMA TraceOfSome ==
    ASSUME NEW S, NEW es \in Seq(S), NEW t, TraceOf(es, t) # <<>>
    PROVE  t \in Traces(es)
<1> DEFINE N == Len(es)
<1> SUFFICES ASSUME \A n \in 1..N : es[n].trace # t PROVE FALSE
  <2>1. DOMAIN es = 1..N
    OBVIOUS
  <2> QED
    BY <2>1 DEF Traces, Range
<1>1. PICK f : Finds(es, t, f) /\ TraceOf(es, t) = f[N]
  BY TraceIsFound
<1> DEFINE I == {n \in Nat : n <= N => f[n] = <<>>}
<1>2. N \in Nat /\ 0 \in I
  BY <1>1 DEF Finds
<1>3. ASSUME NEW n \in Nat, n \in I PROVE n + 1 \in I
  <2> SUFFICES ASSUME n + 1 <= N PROVE f[n + 1] = <<>>
    OBVIOUS
  <2>1. n + 1 \in 1..N /\ (n + 1) - 1 = n /\ f[n] = <<>>
    BY <1>2, <1>3
  <2> QED
    BY <1>1, <2>1 DEF Finds
<1>4. Nat \subseteq I
  <2> HIDE DEF I
  <2> QED
    BY <1>2, <1>3, SetInduction
<1> QED
  BY <1>1, <1>2, <1>4

-----------------------------------------------------------------------------
(* Division.                                                                   *)

LEMMA Division ==
    ASSUME NEW n \in Nat, NEW k \in Nat \ {0}
    PROVE  n \div k \in Nat /\ n % k \in 0..(k - 1) /\ n = k * (n \div k) + (n % k)
<1> DEFINE q == n \div k
           r == n % k
<1>1. k \in Nat /\ k > 0
  OBVIOUS
<1>2. q \in Int /\ r \in 0..(k - 1) /\ n = k * q + r
  BY <1>1
<1> HIDE DEF q, r
<1>3. q >= 0
  <2> SUFFICES ASSUME q <= -1 PROVE FALSE
    BY <1>2
  <2>1. k * q <= k * (-1)
    BY <1>1, <1>2
  <2> QED
    BY <1>1, <1>2, <2>1
<1> QED
  BY <1>2, <1>3 DEF q, r

LEMMA OneQuotient ==
    ASSUME NEW n \in Nat, NEW k \in Nat \ {0}, NEW q \in Nat, NEW r \in 0..(k - 1), n = k * q + r
    PROVE  n \div k = q /\ n % k = r
<1> DEFINE a == n \div k
           b == n % k
<1>1. a \in Nat /\ b \in 0..(k - 1) /\ n = k * a + b
  BY Division
<1> HIDE DEF a, b
<1>2. k \in Int /\ k > 0 /\ k * a \in Int /\ k * q \in Int
  BY <1>1
<1>3. ~(a < q)
  <2> SUFFICES ASSUME a + 1 <= q PROVE FALSE
    BY <1>1
  <2>1. k * (a + 1) <= k * q
    BY <1>1, <1>2
  <2>2. k * (a + 1) = k * a + k
    BY <1>1, <1>2
  <2> QED
    BY <1>1, <1>2, <2>1, <2>2
<1>4. ~(q < a)
  <2> SUFFICES ASSUME q + 1 <= a PROVE FALSE
    BY <1>1
  <2>1. k * (q + 1) <= k * a
    BY <1>1, <1>2
  <2>2. k * (q + 1) = k * q + k
    BY <1>1, <1>2
  <2> QED
    BY <1>1, <1>2, <2>1, <2>2
<1>5. a = q
  BY <1>1, <1>3, <1>4
<1>6. b = r
  BY <1>1, <1>2, <1>5
<1> QED
  BY <1>5, <1>6 DEF a, b

\* Counting on.
LEMMA NextQuotient ==
    ASSUME NEW n \in Nat, NEW k \in Nat \ {0}
    PROVE  IF (n % k) + 1 < k THEN (n + 1) \div k = n \div k /\ (n + 1) % k = (n % k) + 1
           ELSE n % k = k - 1 /\ (n + 1) \div k = n \div k + 1 /\ (n + 1) % k = 0
<1> DEFINE q == n \div k
           r == n % k
<1>0. q \in Nat /\ r \in 0..(k - 1) /\ n = k * q + r
  BY Division
<1> HIDE DEF q, r
<1>1. q \in Nat /\ r \in 0..(k - 1) /\ n = k * q + r /\ k * q \in Int
  BY <1>0
<1>2. CASE r + 1 < k
  <2>1. r + 1 \in 0..(k - 1) /\ n + 1 = k * q + (r + 1) /\ n + 1 \in Nat
    BY <1>1, <1>2
  <2> QED
    BY <1>1, <1>2, <2>1, OneQuotient DEF q, r
<1>3. CASE ~(r + 1 < k)
  <2>1. r = k - 1
    BY <1>1, <1>3
  <2>2. k * (q + 1) = k * q + k
    BY <1>1
  <2>3. 0 \in 0..(k - 1) /\ n + 1 = k * (q + 1) + 0 /\ n + 1 \in Nat /\ q + 1 \in Nat
    BY <1>1, <2>1, <2>2
  <2>4. (n + 1) \div k = q + 1 /\ (n + 1) % k = 0
    BY <2>3, OneQuotient
  <2> QED
    BY <1>3, <2>1, <2>4 DEF q, r
<1> QED
  BY <1>2, <1>3 DEF q, r

\* The first of l times k numbers.
LEMMA QuotientOf ==
    ASSUME NEW n \in Nat, NEW k \in Nat \ {0}, NEW l \in Nat, n < l * k
    PROVE  n \div k \in 0..(l - 1)
<1> DEFINE q == n \div k
<1>1. q \in Nat /\ n % k \in 0..(k - 1) /\ n = k * q + (n % k)
  BY Division
<1> HIDE DEF q
<1>2. ~(q >= l)
  <2> SUFFICES ASSUME q >= l PROVE FALSE
    OBVIOUS
  <2>1. k * q >= k * l
    BY <1>1
  <2>2. k * l = l * k /\ k * q \in Int /\ k * l \in Int
    BY <1>1
  <2> QED
    BY <1>1, <2>1, <2>2
<1> QED
  BY <1>1, <1>2 DEF q

LEMMA Product == \A k, l \in Nat \ {0} : k * l \in Nat \ {0}
OBVIOUS

LEMMA Products ==
    /\ \A x, y \in Int : x * y \in Int /\ 0 * y = 0 /\ x * 0 = 0
    /\ \A x, y, z \in Int : (x + y) * z = x * z + y * z /\ x * (z + 1) = x * z + x
OBVIOUS

-----------------------------------------------------------------------------
(* The controls of a suite and the events they come to.                        *)

\* The steps of a pair.
PairSteps(ds, pair) == StepsFor(ds[pair.definition], pair.variant)

LEMMA ChosenPairs ==
    ASSUME NEW ds \in Selections, NEW vs \in Variants, NEW ps, ps = Pairs(ds, vs)
    PROVE  /\ Len(ps) \in Nat \ {0} /\ DOMAIN ps = 1..Len(ps)
           /\ \A p \in 1..Len(ps) :
                 /\ ps[p].definition \in 1..Len(ds) /\ ps[p].variant \in {"malicious", "benign"}
                 /\ Len(PairSteps(ds, ps[p])) \in Nat \ {0}
           /\ \A p, q \in 1..Len(ps) :
                 ps[p].definition = ps[q].definition /\ ps[p].variant = ps[q].variant => p = q
<1> DEFINE D == Len(ds)
           n == Len(vs)
<1>1. /\ ds \in Seq(Range(ds)) /\ ds # <<>>
      /\ \A d \in Range(ds) :
            /\ d.malicious \in Seq(Range(d.malicious)) \ {<<>>}
            /\ d.benign \in Seq(Range(d.benign)) \ {<<>>}
  BY SuiteAssumption
<1>2. /\ n \in {1, 2} /\ \A k \in 1..n : vs[k] \in {"malicious", "benign"}
      /\ \A j, k \in 1..n : vs[j] = vs[k] => j = k
  BY DEF Variants
<1>3. D \in Nat \ {0} /\ \A d \in 1..D : ds[d] \in Range(ds)
  <2>1. Len(ds) \in Nat /\ DOMAIN ds = 1..Len(ds) /\ Len(ds) # 0
    BY <1>1
  <2> QED
    BY <2>1 DEF Range
<1>4. D * n \in Nat \ {0}
  <2>1. n \in Nat \ {0}
    BY <1>2
  <2> QED
    BY <1>3, <2>1, Product
<1> DEFINE d(p) == ((p - 1) \div n) + 1
           v(p) == ((p - 1) % n) + 1
<1>5. Len(ps) = D * n /\ DOMAIN ps = 1..Len(ps)
  BY <1>4 DEF Pairs
<1>6. \A p \in 1..Len(ps) : ps[p].definition = d(p) /\ ps[p].variant = vs[v(p)]
  BY <1>5 DEF Pairs
<1> HIDE DEF D, n
<1>7. ASSUME NEW p \in 1..Len(ps)
      PROVE  /\ d(p) \in 1..D /\ v(p) \in 1..n
             /\ p - 1 = n * (d(p) - 1) + (v(p) - 1)
  <2>1. p - 1 \in Nat /\ p - 1 < D * n /\ n \in Nat \ {0} /\ D \in Nat
    BY <1>2, <1>3, <1>4, <1>5
  <2>2. (p - 1) \div n \in 0..(D - 1)
    BY <2>1, QuotientOf
  <2>3. (p - 1) % n \in 0..(n - 1) /\ p - 1 = n * ((p - 1) \div n) + ((p - 1) % n)
    BY <2>1, Division
  <2> QED
    BY <2>1, <2>2, <2>3
<1> HIDE DEF d, v
<1>8. ASSUME NEW p \in 1..Len(ps)
      PROVE  /\ ps[p].definition \in 1..D /\ ps[p].variant \in {"malicious", "benign"}
             /\ Len(PairSteps(ds, ps[p])) \in Nat \ {0}
  <2>1. ps[p].definition \in 1..D /\ ps[p].variant \in {"malicious", "benign"}
    BY <1>2, <1>6, <1>7
  <2> DEFINE s == PairSteps(ds, ps[p])
  <2>2. s \in Seq(Range(s)) /\ s # <<>>
    <3>1. ds[ps[p].definition] \in Range(ds)
      BY <1>3, <2>1
    <3> QED
      BY <1>1, <3>1 DEF PairSteps, StepsFor
  <2> HIDE DEF s
  <2>3. Len(s) \in Nat /\ Len(s) # 0
    BY <2>2
  <2> QED
    BY <2>1, <2>3 DEF s
<1>9. ASSUME NEW p \in 1..Len(ps), NEW q \in 1..Len(ps),
             ps[p].definition = ps[q].definition, ps[p].variant = ps[q].variant
      PROVE  p = q
  <2>1. d(p) = d(q) /\ v(p) = v(q)
    <3>1. v(p) \in 1..n /\ v(q) \in 1..n
      BY <1>7
    <3>2. d(p) = d(q) /\ vs[v(p)] = vs[v(q)]
      BY <1>6, <1>9
    <3> QED
      BY <1>2, <3>1, <3>2
  <2>2. p - 1 = q - 1
    BY <1>7, <2>1
  <2> QED
    BY <2>2
<1> QED
  BY <1>4, <1>5, <1>8, <1>9 DEF D

\* What the suite was started with.
Wanted ==
    /\ selection.definitions \in Selections /\ selection.variants \in Variants
    /\ selection.mutation_count \in MutationCounts

\* The events of a control.
Size(c) == Len(Steps(c)) + (IF c.mutation = 0 THEN 0 ELSE 1)

LEMMA ControlsAre ==
    ASSUME Wanted,
           NEW ps, ps = Pairs(selection.definitions, selection.variants),
           NEW each, each = selection.mutation_count + 1
    PROVE  /\ each \in Nat \ {0} /\ Len(Controls) = Len(ps) * each /\ Len(Controls) \in Nat \ {0}
           /\ DOMAIN Controls = 1..Len(Controls)
           /\ \A n \in Nat : n < Len(Controls) =>
                 LET p == (n \div each) + 1
                     k == n % each
                 IN  /\ p \in 1..Len(ps) /\ Controls[n + 1].mutation = k
                     /\ Controls[n + 1].definition = ps[p].definition
                     /\ Controls[n + 1].variant = ps[p].variant
                     /\ Size(Controls[n + 1]) = Len(PairSteps(selection.definitions, ps[p])) + (IF k = 0 THEN 0 ELSE 1)
           /\ \A i, j \in 1..Len(Controls) : Controls[i] = Controls[j] => i = j
           /\ \A i \in 1..Len(Controls) :
                 /\ Size(Controls[i]) \in Nat \ {0}
                 /\ Controls[i].definition \in 1..Len(selection.definitions)
<1> DEFINE P == Len(ps)
           C == Controls
           p(n) == (n \div each) + 1
           k(n) == n % each
<1>1. /\ P \in Nat \ {0}
      /\ \A q \in 1..P : /\ ps[q].definition \in 1..Len(selection.definitions)
                         /\ Len(PairSteps(selection.definitions, ps[q])) \in Nat \ {0}
      /\ \A q, r \in 1..P : ps[q].definition = ps[r].definition /\ ps[q].variant = ps[r].variant => q = r
  BY ChosenPairs DEF Wanted
<1>2. each \in Nat \ {0}
  <2>1. selection.mutation_count \in 0..100
    BY SuiteAssumption DEF Wanted
  <2> QED
    BY <2>1
<1>3. P * each \in Nat \ {0}
  BY <1>1, <1>2, Product
<1>4. Len(C) = P * each /\ DOMAIN C = 1..Len(C)
  BY <1>3 DEF Controls
<1>5. ASSUME NEW n \in Nat, n < Len(C)
      PROVE  /\ C[n + 1].mutation = k(n) /\ C[n + 1].definition = ps[p(n)].definition
             /\ C[n + 1].variant = ps[p(n)].variant
  <2>1. n + 1 \in 1..(Len(ps) * (selection.mutation_count + 1)) /\ (n + 1) - 1 = n
    BY <1>3, <1>4, <1>5
  <2> QED
    BY <2>1 DEF Controls
<1>6. ASSUME NEW n \in Nat, n < Len(C)
      PROVE  p(n) \in 1..P /\ k(n) \in 0..(each - 1) /\ n = each * (p(n) - 1) + k(n)
  <2>1. n < P * each /\ P \in Nat
    BY <1>1, <1>4, <1>6
  <2>2. n \div each \in 0..(P - 1)
    BY <1>2, <2>1, QuotientOf
  <2>3. n % each \in 0..(each - 1) /\ n = each * (n \div each) + (n % each)
    BY <1>2, Division
  <2>4. \A a \in 0..(P - 1) : a + 1 \in 1..P /\ (a + 1) - 1 = a
    BY <2>1
  <2>5. p(n) \in 1..P /\ p(n) - 1 = n \div each
    BY <2>2, <2>4
  <2> QED
    BY <2>3, <2>5
<1> HIDE DEF P, C, p, k
<1>7. ASSUME NEW n \in Nat, n < Len(C)
      PROVE  Size(C[n + 1]) = Len(PairSteps(selection.definitions, ps[p(n)])) + (IF k(n) = 0 THEN 0 ELSE 1)
  BY <1>5, <1>7 DEF Size, Steps, Definition, PairSteps
<1>8. ASSUME NEW i \in 1..Len(C), NEW j \in 1..Len(C), C[i] = C[j]
      PROVE  i = j
  <2>1. /\ i - 1 \in Nat /\ i - 1 < Len(C) /\ (i - 1) + 1 = i
        /\ j - 1 \in Nat /\ j - 1 < Len(C) /\ (j - 1) + 1 = j
    BY <1>3, <1>4
  <2>2. /\ p(i - 1) \in 1..P /\ p(j - 1) \in 1..P /\ k(i - 1) = k(j - 1)
        /\ ps[p(i - 1)].definition = ps[p(j - 1)].definition
        /\ ps[p(i - 1)].variant = ps[p(j - 1)].variant
    <3>1. p(i - 1) \in 1..P /\ p(j - 1) \in 1..P
      BY <1>6, <2>1
    <3>2. /\ C[i].mutation = k(i - 1) /\ C[i].definition = ps[p(i - 1)].definition
          /\ C[i].variant = ps[p(i - 1)].variant
      BY <1>5, <2>1
    <3>3. /\ C[j].mutation = k(j - 1) /\ C[j].definition = ps[p(j - 1)].definition
          /\ C[j].variant = ps[p(j - 1)].variant
      BY <1>5, <2>1
    <3> QED
      BY <1>8, <3>1, <3>2, <3>3
  <2>3. p(i - 1) = p(j - 1)
    BY <1>1, <2>2
  <2>4. i - 1 = j - 1
    BY <1>6, <2>1, <2>2, <2>3
  <2> QED
    BY <2>4
<1>9. ASSUME NEW i \in 1..Len(C)
      PROVE  Size(C[i]) \in Nat \ {0} /\ C[i].definition \in 1..Len(selection.definitions)
  <2>1. i - 1 \in Nat /\ i - 1 < Len(C) /\ (i - 1) + 1 = i
    BY <1>3, <1>4
  <2>2. /\ Size(C[i]) = Len(PairSteps(selection.definitions, ps[p(i - 1)])) + (IF k(i - 1) = 0 THEN 0 ELSE 1)
        /\ p(i - 1) \in 1..P /\ C[i].definition = ps[p(i - 1)].definition
    BY <1>5, <1>6, <1>7, <2>1
  <2>3. Len(PairSteps(selection.definitions, ps[p(i - 1)])) \in Nat \ {0}
    BY <1>1, <2>2
  <2> QED
    BY <1>1, <2>2, <2>3
<1> QED
  BY <1>2, <1>3, <1>4, <1>5, <1>6, <1>7, <1>8, <1>9 DEF P, C, p, k

\* The steps of the pairs before each.
Basis(ds, ps, base) ==
    /\ base \in [0..Len(ps) -> Nat] /\ base[0] = 0
    /\ \A n \in 1..Len(ps) : base[n] = base[n - 1] + Len(PairSteps(ds, ps[n]))

LEMMA EstimateHasBasis ==
    ASSUME NEW ds \in Selections, NEW vs \in Variants, NEW m, NEW ps, ps = Pairs(ds, vs)
    PROVE  \E base : /\ Basis(ds, ps, base)
                     /\ EstimateEventCount(ds, vs, m) = base[Len(ps)] * (m + 1) + Len(ps) * m
<1> DEFINE N == Len(ps)
           Next1(x, n) == IF n \in 1..N THEN x + Len(PairSteps(ds, ps[n])) ELSE x
           g == [x \in Nat |-> [n \in Nat |-> Next1(x, n)]]
           Body(h) == [n \in 0..N |-> IF n = 0 THEN 0
                                      ELSE h[n - 1] + Len(StepsFor(ds[ps[n].definition], ps[n].variant))]
           base == CHOOSE h : h = Body(h)
<1>1. N \in Nat /\ \A n \in 1..N : Len(PairSteps(ds, ps[n])) \in Nat
  BY ChosenPairs
<1>2. \A x \in Nat, n \in Nat : Next1(x, n) \in Nat
  BY <1>1
<1>3. EstimateEventCount(ds, vs, m) = base[N] * (m + 1) + N * m
  BY DEF EstimateEventCount
<1>4. \A h : Body(h) = [n \in 0..N |-> IF n = 0 THEN 0 ELSE Next1(h[n - 1], n)]
  <2>1. \A h, n : n \in 0..N /\ n # 0 =>
           Next1(h[n - 1], n) = h[n - 1] + Len(StepsFor(ds[ps[n].definition], ps[n].variant))
    BY <1>1 DEF PairSteps
  <2> HIDE DEF Next1
  <2> QED
    BY <2>1
<1>5. g \in [Nat -> [Nat -> Nat]] /\ \A x \in Nat, n \in Nat : g[x][n] = Next1(x, n)
  <2> HIDE DEF Next1
  <2> QED
    BY <1>2
<1> HIDE DEF Body, Next1, N, g
<1>6. PICK r : Loop(Nat, 0, g, N, r)
  BY <1>1, <1>5, LoopHasStates
<1>7. r \in [0..N -> Nat] /\ r[0] = 0 /\ \A n \in 1..N : r[n] = g[r[n - 1]][n]
  BY <1>6 DEF Loop
<1>8. r = Body(r)
  <2>1. \A n \in 1..N : n - 1 \in 0..N /\ n \in Nat
    BY <1>1
  <2>2. \A n \in 0..N : n = 0 \/ n \in 1..N
    BY <1>1
  <2>3. \A n \in 0..N : r[n] = IF n = 0 THEN 0 ELSE Next1(r[n - 1], n)
    BY <1>5, <1>7, <2>1, <2>2
  <2> DEFINE h == [n \in 0..N |-> IF n = 0 THEN 0 ELSE Next1(r[n - 1], n)]
  <2>4. r = h
    BY <1>7, <2>3
  <2> QED
    BY <1>4, <2>4
<1>9. base = Body(base)
  BY <1>8
<1> HIDE DEF base
<1>10. /\ DOMAIN base = 0..N /\ base = [n \in 0..N |-> base[n]]
       /\ \A n \in 0..N : base[n] = IF n = 0 THEN 0 ELSE Next1(base[n - 1], n)
  BY <1>4, <1>9
<1>11. base[0] = 0 /\ \A n \in 1..N : base[n] = Next1(base[n - 1], n)
  <2>1. 0 \in 0..N /\ \A n \in 1..N : n \in 0..N /\ n # 0
    BY <1>1
  <2> QED
    BY <1>10, <2>1
<1>12. \A n \in 0..N : base[n] \in Nat
  <2> DEFINE I == {n \in Nat : n <= N => base[n] \in Nat}
  <2>1. 0 \in I
    BY <1>1, <1>11
  <2>2. ASSUME NEW n \in Nat, n \in I PROVE n + 1 \in I
    <3> SUFFICES ASSUME n + 1 <= N PROVE base[n + 1] \in Nat
      OBVIOUS
    <3>1. n + 1 \in 1..N /\ (n + 1) - 1 = n /\ base[n] \in Nat
      BY <1>1, <2>2
    <3>2. base[n + 1] = Next1(base[n], n + 1)
      BY <1>11, <3>1
    <3>3. n + 1 \in Nat /\ base[n] \in Nat
      BY <3>1
    <3>4. Next1(base[n], n + 1) \in Nat
      BY <1>2, <3>3, Zenon
    <3> QED
      BY <3>2, <3>4
  <2>3. Nat \subseteq I
    <3> HIDE DEF I
    <3> QED
      BY <2>1, <2>2, SetInduction
  <2> QED
    BY <2>3
<1>13. Basis(ds, ps, base)
  BY <1>10, <1>11, <1>12 DEF Basis, Next1, N
<1> QED
  BY <1>3, <1>13 DEF N

\* The events of the controls up to each.
Totals(b) ==
    /\ b \in [0..Len(Controls) -> Nat] /\ b[0] = 0
    /\ \A n \in 1..Len(Controls) : b[n] = b[n - 1] + Size(Controls[n])

LEMMA ControlsTotal == Wanted => \E b : Totals(b)
<1> SUFFICES ASSUME Wanted PROVE \E b : Totals(b)
  OBVIOUS
<1> DEFINE N == Len(Controls)
           g == [x \in Nat |-> [n \in Nat |-> IF n \in 1..N THEN x + Size(Controls[n]) ELSE x]]
<1>1. N \in Nat /\ \A n \in 1..N : Size(Controls[n]) \in Nat
  BY ControlsAre
<1>2. g \in [Nat -> [Nat -> Nat]] /\ \A x \in Nat, n \in 1..N : g[x][n] = x + Size(Controls[n])
  BY <1>1
<1> HIDE DEF g, N
<1>3. PICK b : Loop(Nat, 0, g, N, b)
  BY <1>1, <1>2, LoopHasStates
<1>4. \A n \in 1..N : n - 1 \in 0..N
  BY <1>1
<1>5. b \in [0..N -> Nat] /\ b[0] = 0 /\ \A n \in 1..N : b[n] = b[n - 1] + Size(Controls[n])
  BY <1>2, <1>3, <1>4 DEF Loop
<1> QED
  BY <1>5 DEF Totals, N

\* The estimate is what they come to.
LEMMA EstimateIsTotal ==
    ASSUME Wanted, NEW b, Totals(b)
    PROVE  EstimateEventCount(selection.definitions, selection.variants, selection.mutation_count) = b[Len(Controls)]
<1> DEFINE ds == selection.definitions
           m == selection.mutation_count
           ps == Pairs(ds, selection.variants)
           each == m + 1
           L == Len(Controls)
           P == Len(ps)
           size(p) == Len(PairSteps(ds, ps[p]))
<1>1. PICK base : /\ Basis(ds, ps, base)
                  /\ EstimateEventCount(ds, selection.variants, m) = base[P] * each + P * m
  BY EstimateHasBasis DEF Wanted
<1>2. /\ each \in Nat \ {0} /\ L = P * each /\ L \in Nat \ {0}
      /\ \A n \in Nat : n < L => /\ (n \div each) + 1 \in 1..P
                                 /\ Size(Controls[n + 1]) = size((n \div each) + 1) + (IF n % each = 0 THEN 0 ELSE 1)
  BY ControlsAre
<1>3. P \in Nat /\ \A p \in 1..P : size(p) \in Nat
  BY ChosenPairs DEF Wanted
<1>4. m \in Nat
  <2>1. m \in 0..100
    BY SuiteAssumption DEF Wanted
  <2> QED
    BY <2>1
<1>5. /\ base \in [0..P -> Nat] /\ base[0] = 0 /\ \A p \in 1..P : base[p] = base[p - 1] + size(p)
      /\ b \in [0..L -> Nat] /\ b[0] = 0 /\ \A n \in 1..L : b[n] = b[n - 1] + Size(Controls[n])
  BY <1>1 DEF Basis, Totals
<1> HIDE DEF ds, m, ps, L, P, size
\* The sum as the loop has it: the pairs before, and of this pair the first k controls.
<1> DEFINE q(n) == n \div each
           k(n) == n % each
           sum(n) == base[q(n)] * each + q(n) * m
                         + (IF k(n) = 0 THEN 0 ELSE k(n) * (size(q(n) + 1) + 1) - 1)
           I == {n \in Nat : n <= L => b[n] = sum(n)}
<1>6. 0 \in I
  <2>1. 0 = each * 0 + 0 /\ 0 \in 0..(each - 1) /\ 0 \in Nat
    BY <1>2
  <2>2. q(0) = 0 /\ k(0) = 0
    BY <1>2, <2>1, OneQuotient
  <2> HIDE DEF q, k
  <2>3. 0 * each = 0 /\ 0 * m = 0
    BY <1>2, <1>4
  <2>4. sum(0) = 0
    BY <1>5, <2>2, <2>3
  <2> HIDE DEF sum
  <2> QED
    BY <1>5, <2>4
<1>7. ASSUME NEW n \in Nat, n \in I PROVE n + 1 \in I
  <2> SUFFICES ASSUME n + 1 <= L PROVE b[n + 1] = sum(n + 1)
    OBVIOUS
  <2>1. n < L /\ n <= L /\ n + 1 \in 1..L /\ (n + 1) - 1 = n
    BY <1>2
  <2>2. b[n] = sum(n)
    BY <1>7, <2>1
  <2>3. b[n + 1] = b[n] + size(q(n) + 1) + (IF k(n) = 0 THEN 0 ELSE 1)
    <3>1. Size(Controls[n + 1]) = size(q(n) + 1) + (IF k(n) = 0 THEN 0 ELSE 1) /\ q(n) + 1 \in 1..P
      BY <1>2, <2>1
    <3>2. b[n + 1] = b[n] + Size(Controls[n + 1]) /\ b[n] \in Nat /\ size(q(n) + 1) \in Nat
      <4>1. n \in 0..L
        BY <2>1
      <4> HIDE DEF q
      <4> QED
        BY <1>3, <1>5, <2>1, <3>1, <4>1
    <3> HIDE DEF sum, q, k
    <3> QED
      BY <3>1, <3>2
  <2>4. /\ q(n) \in Nat /\ k(n) \in 0..(each - 1) /\ q(n) + 1 \in 1..P
        /\ IF k(n) + 1 < each THEN q(n + 1) = q(n) /\ k(n + 1) = k(n) + 1
           ELSE k(n) = each - 1 /\ q(n + 1) = q(n) + 1 /\ k(n + 1) = 0
    BY <1>2, <2>1, Division, NextQuotient
  <2> HIDE DEF q, k
  <2>5. /\ base[q(n)] \in Nat /\ size(q(n) + 1) \in Nat
        /\ base[q(n) + 1] = base[q(n)] + size(q(n) + 1)
    <3>1. q(n) \in 0..P /\ (q(n) + 1) - 1 = q(n)
      BY <1>3, <2>4
    <3> QED
      BY <1>3, <1>5, <2>4, <3>1
  <2> DEFINE s == size(q(n) + 1)
             a == base[q(n)]
  <2>6. s \in Nat /\ a \in Nat /\ k(n) * (s + 1) \in Int /\ a * each \in Int /\ q(n) * m \in Int
    BY <1>2, <1>4, <2>4, <2>5
  <2>7. CASE k(n) + 1 < each
    <3>1. sum(n + 1) = a * each + q(n) * m + (k(n) + 1) * (s + 1) - 1
      BY <2>4, <2>7
    <3>2. (k(n) + 1) * (s + 1) = k(n) * (s + 1) + s + 1
      BY <2>4, <2>6
    <3>3. k(n) = 0 => k(n) * (s + 1) = 0
      BY <2>6
    <3> HIDE DEF s, a
    <3>4. CASE k(n) = 0
      BY <2>2, <2>3, <2>6, <3>1, <3>2, <3>3, <3>4 DEF s, a
    <3>5. CASE k(n) # 0
      BY <2>2, <2>3, <2>6, <3>1, <3>2, <3>5 DEF s, a
    <3> QED
      BY <3>4, <3>5
  <2>8. CASE ~(k(n) + 1 < each)
    <3>1. k(n) = m /\ q(n + 1) = q(n) + 1 /\ k(n + 1) = 0 /\ base[q(n + 1)] = a + s
      BY <1>4, <2>4, <2>5, <2>8
    <3> DEFINE am == a * each
               qm == q(n) * m
               sm == s * m
    <3>2. /\ (a + s) * each = am + sm + s /\ (q(n) + 1) * m = qm + m
          /\ am \in Int /\ qm \in Int /\ sm \in Int
      <4> HIDE DEF a, s
      <4>1. (a + s) * (m + 1) = a * (m + 1) + s * (m + 1) /\ s * (m + 1) = s * m + s
        BY <1>4, <2>6, Products
      <4> QED
        BY <1>4, <2>4, <2>6, <4>1, Products
    <3>3. sum(n + 1) = am + sm + s + qm + m
      <4>1. sum(n + 1) = (a + s) * each + (q(n) + 1) * m + 0
        <5> HIDE DEF a, s
        <5> QED
          BY <3>1
      <4> HIDE DEF sum, a, s, am, qm, sm
      <4> QED
        BY <1>4, <2>6, <3>2, <4>1
    <3>4. b[n] = am + qm + (IF m = 0 THEN 0 ELSE m * (s + 1) - 1)
      BY <2>2, <3>1
    <3>5. m * (s + 1) = sm + m /\ (m = 0 => sm = 0)
      <4> HIDE DEF s
      <4>1. m * (s + 1) = m * s + m /\ m * s = s * m
        BY <1>4, <2>6, Products
      <4> QED
        BY <1>4, <2>6, <4>1
    <3>6. b[n + 1] = b[n] + s + (IF m = 0 THEN 0 ELSE 1)
      BY <2>3, <3>1
    <3> HIDE DEF sum, a, s, am, qm, sm
    <3> QED
      BY <1>4, <2>6, <3>2, <3>3, <3>4, <3>5, <3>6
  <2> QED
    BY <2>7, <2>8
<1>8. b[L] = sum(L)
  <2>1. Nat \subseteq I
    <3> HIDE DEF I
    <3> QED
      BY <1>6, <1>7, SetInduction
  <2> HIDE DEF sum
  <2> QED
    BY <1>2, <2>1
<1>9. q(L) = P /\ k(L) = 0
  <2>1. L = each * P + 0 /\ 0 \in 0..(each - 1) /\ L \in Nat
    BY <1>2, <1>3
  <2> QED
    BY <1>2, <1>3, <2>1, OneQuotient
<1>10. sum(L) = base[P] * each + P * m
  <2>1. base[P] \in Nat /\ base[P] * each \in Int /\ P * m \in Int
    BY <1>2, <1>3, <1>4, <1>5
  <2> HIDE DEF q, k
  <2> QED
    BY <1>9, <2>1
<1> QED
  BY <1>1, <1>8, <1>10 DEF ds, m, ps, P, L

-----------------------------------------------------------------------------
(* How many events a suite has made, and of which controls.                    *)

\* The events of each control: all of those before, and so far of this one.
Made(i) ==
    IF i < control.number THEN Size(Controls[i])
    ELSE IF i = control.number THEN control.next - 1 ELSE 0

Counted ==
    /\ Wanted
    /\ control.number \in 0..Len(Controls)
    /\ IF control.number = 0 THEN control.next = 1
       ELSE /\ Len(control.steps) = Size(Controls[control.number])
            /\ control.next \in 1..(Size(Controls[control.number]) + 1)
    /\ events \in Seq(Range(events))
    /\ \A e \in Range(events) : \E i \in 1..Len(Controls) : e.trace = Controls[i]
    /\ \A i \in 1..Len(Controls) : Len(TraceOf(events, Controls[i])) = Made(i)
    /\ \A b : Totals(b) =>
          Len(events) = IF control.number = 0 THEN 0 ELSE b[control.number - 1] + (control.next - 1)

\* This control is complete, and there is none after it.
ControlDone == control.number # 0 => control.next - 1 = Size(Controls[control.number])

AllDone == control.number = Len(Controls) /\ ControlDone

\* What the place in the program tells of the count.
Placed ==
    /\ suite.pc \in Looping => ~suite.stopped
    /\ suite.pc = "control" => ControlDone
    /\ suite.pc \in {"step", "emit"} => control.number # 0
    /\ suite.pc = "emit" => control.next <= Size(Controls[control.number])
    /\ suite.pc \in {"export", "idle"} /\ ~suite.stopped => AllDone

\* What the result tells of it.
Told ==
    suite.pc = "idle" =>
        /\ suite.result = "passed"  => ~suite.stopped /\ AllPassed
        /\ suite.result = "failed"  => ~suite.stopped /\ ~AllPassed
        /\ suite.result = "stopped" => suite.stopped

CountInv == suite.pc # "idle" \/ Ended => Counted /\ Placed /\ Told

\* As long as the selection, the controls stay what they are.
LEMMA SameControls ==
    ASSUME selection' = selection
    PROVE  /\ Controls' = Controls /\ Wanted' = Wanted
           /\ \A c : Size(c)' = Size(c) /\ Steps(c)' = Steps(c) /\ Definition(c)' = Definition(c)
           /\ \A b : Totals(b)' = Totals(b)
<1>1. Controls' = Controls /\ Wanted' = Wanted
  BY DEF Controls, Wanted
<1>2. \A c : Size(c)' = Size(c) /\ Steps(c)' = Steps(c) /\ Definition(c)' = Definition(c)
  BY DEF Size, Steps, Definition
<1>3. \A b : Totals(b)' = Totals(b)
  BY <1>1, <1>2 DEF Totals
<1> QED
  BY <1>1, <1>2, <1>3

\* As long as the events too, the count.
LEMMA SameCount ==
    ASSUME selection' = selection, control' = control, events' = events
    PROVE  /\ Counted' = Counted /\ ControlDone' = ControlDone /\ AllDone' = AllDone
           /\ AllPassed' = AllPassed
           /\ Size(Controls[control.number])' = Size(Controls[control.number])
<1>1. /\ Controls' = Controls /\ Wanted' = Wanted
      /\ \A c : Size(c)' = Size(c) /\ Steps(c)' = Steps(c) /\ Definition(c)' = Definition(c)
      /\ \A b : Totals(b)' = Totals(b)
  BY SameControls
<1>2. \A i : Made(i)' = Made(i)
  BY <1>1 DEF Made
<1>3. Counted' = Counted
  BY <1>1, <1>2 DEF Counted
<1>4. ControlDone' = ControlDone /\ AllDone' = AllDone
  BY <1>1 DEF ControlDone, AllDone
<1>5. AllPassed' = AllPassed
  BY <1>1 DEF AllPassed, PassedTraces
<1> QED
  BY <1>1, <1>3, <1>4, <1>5

LEMMA MutatedLength ==
    ASSUME NEW S, NEW steps \in Seq(S), NEW n
    PROVE  Len(MutateSteps(steps, n)) = Len(steps) + 1
BY DEF MutateSteps

LEMMA SomeControls == Wanted => Len(Controls) \in Nat \ {0}
BY ControlsAre

LEMMA SomeControlsNext == Wanted' => (Len(Controls) \in Nat \ {0})'
BY SomeControls, PTL

\* A suite that starts has made nothing.
LEMMA StartCounts ==
    ASSUME StartSuite
    PROVE  CountInv'
<1>1. /\ suite'.pc = "control" /\ suite'.stopped = FALSE /\ control'.number = 0 /\ control'.next = 1
      /\ events' = <<>>
  BY DEF StartSuite, NoSuite, NoControl
<1>2. Wanted'
  BY DEF StartSuite, Wanted
<1>3. Len(Controls') \in Nat \ {0}
  BY <1>2, SomeControlsNext
<1>4. events' \in Seq(Range(events')) /\ Range(events') = {} /\ Len(events') = 0
  BY <1>1 DEF Range
<1>5. \A i \in 1..Len(Controls') : Len(TraceOf(events', Controls'[i])) = Made(i)'
  <2>1. Len(<<>>) = 0
    OBVIOUS
  <2>2. \A i \in 1..Len(Controls') : Made(i)' = 0
    BY <1>1, <1>3 DEF Made
  <2>3. \A t : Len(TraceOf(events', t)) = 0
    BY <1>1, <2>1, EmptyTrace
  <2> QED
    BY <2>2, <2>3
<1>6. Counted'
  BY <1>1, <1>2, <1>3, <1>4, <1>5 DEF Counted
<1> QED
  BY <1>1, <1>6 DEF CountInv, Placed, Told, ControlDone, Looping

\* The next control: those before are done, and of this one nothing is made.
LEMMA NextControlCounts ==
    ASSUME CountInv, suite \in SuiteState, NextControl
    PROVE  CountInv'
<1> DEFINE n == control.number + 1
<1>1. /\ suite.pc = "control" /\ Counted /\ Placed /\ ~suite.stopped /\ ControlDone
      /\ selection' = selection /\ events' = events
  BY DEF NextControl, SuiteAt, CountInv, Placed, Looping
<1>2. Wanted /\ Len(Controls) \in Nat \ {0} /\ control.number \in 0..Len(Controls)
  BY <1>1, SomeControls DEF Counted
<1>3. /\ Controls' = Controls /\ Wanted' = Wanted
      /\ \A c : Size(c)' = Size(c) /\ Steps(c)' = Steps(c)
      /\ \A b : Totals(b)' = Totals(b)
  BY <1>1, SameControls
<1>4. CASE n > Len(Controls)
  <2>1. control' = control /\ suite' = [suite EXCEPT !.pc = "export", !.stopped = FALSE]
    BY <1>4 DEF NextControl, Leave
  <2>2. suite'.pc = "export" /\ ~suite'.stopped
    BY <2>1 DEF SuiteState
  <2>3. AllDone
    BY <1>1, <1>2, <1>4 DEF AllDone
  <2> QED
    BY <1>1, <2>1, <2>2, <2>3, SameCount DEF CountInv, Placed, Told, Looping
<1>5. CASE ~(n > Len(Controls)) /\ stop_requested
  <2>1. control' = control /\ suite' = [suite EXCEPT !.pc = "export", !.stopped = TRUE]
    BY <1>5 DEF NextControl, Leave
  <2>2. suite'.pc = "export" /\ suite'.stopped
    BY <2>1 DEF SuiteState
  <2> QED
    BY <1>1, <2>1, <2>2, SameCount DEF CountInv, Placed, Told, Looping
<1>6. CASE ~(n > Len(Controls)) /\ ~stop_requested
  <2>1. n \in 1..Len(Controls) /\ n # 0 /\ n - 1 = control.number
    BY <1>2, <1>6
  <2> DEFINE steps == Steps(Controls[n])
  <2>2. /\ control'.number = n /\ control'.next = 1
        /\ suite' = [suite EXCEPT !.pc = "step"]
        /\ \E k : control'.steps = IF Controls[n].mutation = 0 THEN steps ELSE MutateSteps(steps, k)
    <3> DEFINE made(k) == IF Controls[n].mutation = 0 THEN steps ELSE MutateSteps(steps, k)
    <3>1. \E k \in 0..Len(steps) : control' = [number |-> n, next |-> 1, steps |-> made(k)]
      BY <1>6 DEF NextControl
    <3>2. suite' = [suite EXCEPT !.pc = "step"]
      BY <1>6 DEF NextControl, SuiteGoes
    <3> HIDE DEF made
    <3>3. control'.number = n /\ control'.next = 1 /\ \E k : control'.steps = made(k)
      BY <3>1
    <3> QED
      BY <3>2, <3>3 DEF made
  <2>3. Size(Controls[n]) \in Nat \ {0} /\ Controls[n].definition \in 1..Len(selection.definitions)
    BY <1>2, <2>1, ControlsAre
  <2>4. \E S : steps \in Seq(S)
    <3> DEFINE ds == selection.definitions
               d == Controls[n].definition
    <3>1. /\ ds \in Seq(Range(ds))
          /\ \A e \in Range(ds) : e.malicious \in Seq(Range(e.malicious)) /\ e.benign \in Seq(Range(e.benign))
      BY <1>2, SuiteAssumption DEF Wanted
    <3>2. ds[d] \in Range(ds)
      <4>1. DOMAIN ds = 1..Len(ds)
        BY <3>1
      <4> QED
        BY <2>3, <4>1 DEF Range
    <3> QED
      BY <3>1, <3>2 DEF Steps, StepsFor, Definition
  <2>5. Len(control'.steps) = Size(Controls[n])
    <3>1. \A k : Len(MutateSteps(steps, k)) = Len(steps) + 1
      BY <2>4, MutatedLength
    <3>2. Len(steps) \in Nat
      BY <2>4
    <3> QED
      BY <2>2, <3>1, <3>2 DEF Size
  <2>6. suite'.pc = "step" /\ suite'.stopped = suite.stopped
    BY <2>2 DEF SuiteState
  <2>7. ASSUME NEW i \in 1..Len(Controls) PROVE Made(i)' = Made(i)
    <3>1. Made(i)' = IF i < n THEN Size(Controls[i]) ELSE IF i = n THEN 0 ELSE 0
      BY <1>3, <2>2 DEF Made
    <3>2. CASE i < control.number
      BY <1>2, <3>1, <3>2 DEF Made
    <3>3. CASE i = control.number
      <4>1. control.next - 1 = Size(Controls[i])
        BY <1>1, <3>3 DEF ControlDone
      <4> QED
        BY <1>2, <3>1, <3>3, <4>1 DEF Made
    <3>4. CASE i > control.number
      BY <1>2, <3>1, <3>4 DEF Made
    <3> QED
      BY <1>2, <3>2, <3>3, <3>4
  <2>8. ASSUME NEW b, Totals(b) PROVE Len(events) = b[n - 1] + 0
    <3>1. b[0] = 0 /\ b \in [0..Len(Controls) -> Nat]
      BY <2>8 DEF Totals
    <3>2. Len(events) = IF control.number = 0 THEN 0 ELSE b[control.number - 1] + (control.next - 1)
      BY <1>1, <2>8 DEF Counted
    <3>3. CASE control.number = 0
      BY <2>1, <3>1, <3>2, <3>3
    <3>4. CASE control.number # 0
      <4>1. control.next - 1 = Size(Controls[control.number])
        BY <1>1, <3>4 DEF ControlDone
      <4>2. b[control.number] = b[control.number - 1] + Size(Controls[control.number])
        BY <1>2, <2>8, <3>4 DEF Totals
      <4>3. b[control.number] \in Nat
        BY <1>2, <3>1
      <4> QED
        BY <2>1, <3>2, <3>4, <4>1, <4>2, <4>3
    <3> QED
      BY <3>3, <3>4
  <2>9. Counted'
    <3>1. control'.next - 1 = 0 /\ control'.next \in 1..(Size(Controls[n]) + 1)
      BY <2>2, <2>3
    <3>2. /\ events' \in Seq(Range(events'))
          /\ \A e \in Range(events') : \E i \in 1..Len(Controls') : e.trace = Controls'[i]
          /\ \A i \in 1..Len(Controls') : Len(TraceOf(events', Controls'[i])) = Made(i)'
      BY <1>1, <1>3, <2>7 DEF Counted
    <3>3. \A b : Totals(b)' => Len(events') = b[n - 1] + (control'.next - 1)
      BY <1>1, <1>3, <2>8, <3>1
    <3>4. /\ control'.number \in 0..Len(Controls') /\ control'.number # 0
          /\ Len(control'.steps) = Size(Controls[control.number])'
          /\ control'.next \in 1..(Size(Controls[control.number])' + 1)
      <4>1. Size(Controls[control.number])' = Size(Controls[n])
        BY <1>3, <2>2
      <4> QED
        BY <1>2, <1>3, <2>1, <2>2, <2>5, <3>1, <4>1
    <3> QED
      BY <1>2, <1>3, <2>2, <3>2, <3>3, <3>4 DEF Counted
  <2> QED
    BY <1>1, <2>1, <2>2, <2>6, <2>9 DEF CountInv, Placed, Told, Looping
<1> QED
  BY <1>4, <1>5, <1>6

\* Where the loop goes when a step was looked for.
LEMMA NextStepCounts ==
    ASSUME CountInv, suite \in SuiteState, NextStep
    PROVE  CountInv'
<1>1. /\ suite.pc = "step" /\ Counted /\ Placed /\ ~suite.stopped /\ control.number # 0
      /\ selection' = selection /\ events' = events /\ control' = control
  BY DEF NextStep, SuiteAt, CountInv, Placed, Looping
<1>2. /\ Counted' /\ ControlDone' = ControlDone /\ control'.number = control.number
      /\ control'.next = control.next
      /\ Size(Controls[control.number])' = Size(Controls[control.number])
  BY <1>1, SameCount
<1> DEFINE L == Len(control.steps)
<1>3. L \in Nat \ {0} /\ L = Size(Controls[control.number]) /\ control.next \in 1..(L + 1)
  <2>1. Wanted /\ control.number \in 1..Len(Controls)
    <3>1. Wanted /\ control.number \in 0..Len(Controls)
      BY <1>1 DEF Counted
    <3>2. Len(Controls) \in Nat \ {0}
      BY <3>1, SomeControls
    <3> QED
      BY <1>1, <3>1, <3>2
  <2>2. Size(Controls[control.number]) \in Nat \ {0}
    BY <2>1, ControlsAre
  <2> QED
    BY <1>1, <2>2 DEF Counted
<1> HIDE DEF L
<1>4. CASE control.next > L
  <2>1. suite' = [suite EXCEPT !.pc = "control"]
    BY <1>4 DEF NextStep, SuiteGoes, L
  <2>2. suite'.pc = "control" /\ suite'.stopped = suite.stopped
    BY <2>1 DEF SuiteState
  <2>3. ControlDone
    BY <1>3, <1>4 DEF ControlDone
  <2> QED
    BY <1>1, <1>2, <2>2, <2>3 DEF CountInv, Placed, Told, Looping
<1>5. CASE ~(control.next > L) /\ stop_requested
  <2>1. suite' = [suite EXCEPT !.pc = "export", !.stopped = TRUE]
    BY <1>5 DEF NextStep, Leave, L
  <2>2. suite'.pc = "export" /\ suite'.stopped
    BY <2>1 DEF SuiteState
  <2> QED
    BY <1>2, <2>2 DEF CountInv, Placed, Told, Looping
<1>6. CASE ~(control.next > L) /\ ~stop_requested
  <2>1. suite' = [suite EXCEPT !.pc = "emit"]
    BY <1>6 DEF NextStep, SuiteGoes, L
  <2>2. suite'.pc = "emit" /\ suite'.stopped = suite.stopped
    BY <2>1 DEF SuiteState
  <2>3. control.next <= Size(Controls[control.number])
    BY <1>3, <1>6
  <2> QED
    BY <1>1, <1>2, <2>2, <2>3 DEF CountInv, Placed, Told, Looping
<1> QED
  BY <1>4, <1>5, <1>6

\* An event: one more of this control, and of no other.
LEMMA EmitCounts ==
    ASSUME CountInv, suite \in SuiteState, Emit
    PROVE  CountInv'
<1> DEFINE n == control.number
           e == BuildEvent(control.steps[control.next], Controls[n], control.next)
<1>1. /\ suite.pc = "emit" /\ Counted /\ ~suite.stopped /\ n # 0
      /\ control.next <= Size(Controls[n])
      /\ selection' = selection /\ events' = Append(events, e)
      /\ control' = [control EXCEPT !.next = @ + 1] /\ suite' = [suite EXCEPT !.pc = "step"]
  BY DEF Emit, SuiteAt, SuiteGoes, CountInv, Placed, Looping
<1>2. /\ Wanted /\ n \in 1..Len(Controls) /\ Len(Controls) \in Nat
  <2>1. Wanted /\ n \in 0..Len(Controls)
    BY <1>1 DEF Counted
  <2>2. Len(Controls) \in Nat \ {0}
    BY <2>1, SomeControls
  <2> QED
    BY <1>1, <2>1, <2>2
<1>3. /\ Controls' = Controls /\ Wanted' = Wanted
      /\ \A c : Size(c)' = Size(c)
      /\ \A b : Totals(b)' = Totals(b)
  BY <1>1, SameControls
<1>4. /\ \A i \in 1..Len(Controls) : Size(Controls[i]) \in Nat \ {0}
      /\ \A i, j \in 1..Len(Controls) : Controls[i] = Controls[j] => i = j
  BY <1>2, ControlsAre
<1>5. /\ Len(control.steps) = Size(Controls[n]) /\ control.next \in 1..Size(Controls[n])
  BY <1>1, <1>2, <1>4 DEF Counted
<1>6. e.trace = Controls[n]
  BY DEF BuildEvent
<1> HIDE DEF e
<1>7. control'.number = n /\ control'.next = control.next + 1 /\ control'.steps = control.steps
  <2> QED
    BY <1>1
<1>8. suite'.pc = "step" /\ suite'.stopped = suite.stopped
  BY <1>1 DEF SuiteState
<1> DEFINE S == Range(events) \union {e}
<1>9. /\ events \in Seq(S) /\ e \in S /\ events' \in Seq(S) /\ Len(events') = Len(events) + 1
      /\ Len(events) \in Nat /\ events' \in Seq(Range(events')) /\ Range(events') \subseteq S
  <2>1. events \in Seq(Range(events)) /\ Range(events) \subseteq S
    BY <1>1 DEF Counted
  <2>2. events \in Seq(S) /\ e \in S
    BY <2>1, SeqMonotonic
  <2> HIDE DEF S
  <2>3. events' \in Seq(S) /\ Len(events') = Len(events) + 1 /\ Len(events) \in Nat
    BY <1>1, <2>2
  <2>4. Range(events') \subseteq S /\ events' \in Seq(Range(events'))
    <3>1. DOMAIN events' = 1..Len(events') /\ Len(events') \in Nat /\ \A i \in 1..Len(events') : events'[i] \in S
      BY <2>3
    <3>2. events' = [i \in 1..Len(events') |-> events'[i]]
      BY <2>3
    <3>3. \A i \in 1..Len(events') : events'[i] \in Range(events')
      BY <3>1 DEF Range
    <3>4. Range(events') \subseteq S
      BY <3>1 DEF Range
    <3> QED
      BY <3>1, <3>2, <3>3, <3>4
  <2> QED
    BY <2>2, <2>3, <2>4
<1>10. \A x \in Range(events') : \E i \in 1..Len(Controls) : x.trace = Controls[i]
  <2>1. \A x \in Range(events) : \E i \in 1..Len(Controls) : x.trace = Controls[i]
    BY <1>1 DEF Counted
  <2> QED
    BY <1>2, <1>6, <1>9, <2>1
<1>11. ASSUME NEW i \in 1..Len(Controls)
       PROVE  Len(TraceOf(events', Controls[i])) = Made(i)'
  <2> DEFINE t == Controls[i]
  <2>1. /\ TraceOf(events, t) \in Seq(S)
        /\ TraceOf(events', t) = IF e.trace = t THEN Append(TraceOf(events, t), e) ELSE TraceOf(events, t)
    <3> HIDE DEF S, t
    <3>1. events \in Seq(S) /\ e \in S /\ events' = Append(events, e)
      BY <1>1, <1>9
    <3>2. /\ TraceOf(events, t) \in Seq(S)
          /\ TraceOf(Append(events, e), t)
                = IF e.trace = t THEN Append(TraceOf(events, t), e) ELSE TraceOf(events, t)
      BY <3>1, TraceGrows
    <3> QED
      BY <3>1, <3>2
  <2>2. Len(TraceOf(events, t)) = Made(i)
    BY <1>1 DEF Counted
  <2>3. Made(i)' = IF i < n THEN Size(Controls[i]) ELSE IF i = n THEN control.next ELSE 0
    BY <1>3, <1>5, <1>7 DEF Made
  <2>4. CASE i = n
    <3>1. Made(i) = control.next - 1 /\ Made(i)' = control.next
      BY <1>2, <2>3, <2>4 DEF Made
    <3>2. e.trace = t
      BY <1>6, <2>4
    <3> HIDE DEF t, S
    <3>3. Len(TraceOf(events', t)) = Len(TraceOf(events, t)) + 1
      BY <1>9, <2>1, <3>2
    <3> QED
      BY <1>5, <2>2, <3>1, <3>3 DEF t
  <2>5. CASE i # n
    <3>1. e.trace # t
      BY <1>2, <1>4, <1>6, <2>5
    <3> QED
      BY <2>1, <2>2, <2>3, <2>5, <3>1 DEF Made
  <2> QED
    BY <2>4, <2>5
<1>12. ASSUME NEW b, Totals(b)
       PROVE  Len(events') = b[n - 1] + ((control.next + 1) - 1)
  <2>1. Len(events) = b[n - 1] + (control.next - 1)
    BY <1>1, <1>12 DEF Counted
  <2>2. b[n - 1] \in Nat
    BY <1>2, <1>12 DEF Totals
  <2> QED
    BY <1>5, <1>9, <2>1, <2>2
<1>13. Counted'
  <2>1. /\ control'.number \in 0..Len(Controls') /\ control'.number # 0
        /\ Size(Controls[control.number])' = Size(Controls[n])
    BY <1>1, <1>2, <1>3, <1>7
  <2>2. Len(control'.steps) = Size(Controls[n]) /\ control'.next \in 1..(Size(Controls[n]) + 1)
    BY <1>2, <1>4, <1>5, <1>7
  <2>3. \A i \in 1..Len(Controls') : Len(TraceOf(events', Controls'[i])) = Made(i)'
    BY <1>3, <1>11
  <2>4. \A b : Totals(b)' => Len(events') = b[control'.number - 1] + (control'.next - 1)
    BY <1>3, <1>7, <1>12
  <2>5. \A x \in Range(events') : \E i \in 1..Len(Controls') : x.trace = Controls'[i]
    BY <1>3, <1>10
  <2> QED
    BY <1>2, <1>3, <1>9, <2>1, <2>2, <2>3, <2>4, <2>5 DEF Counted
<1> QED
  BY <1>1, <1>7, <1>8, <1>13 DEF CountInv, Placed, Told, Looping

\* The steps that leave the count alone.
LEMMA OtherCounts ==
    ASSUME CountInv, suite \in SuiteState,
           \/ RefusePack \/ RequestStop \/ Interrupt \/ ExportNext \/ ExportRaises \/ Return
           \/ UNCHANGED suiteVars
    PROVE  CountInv'
<1>1. selection' = selection /\ control' = control /\ events' = events
  BY DEF RefusePack, RequestStop, Interrupt, ExportNext, ExportRaises, Return, suiteVars
<1>2. /\ Counted' = Counted /\ ControlDone' = ControlDone /\ AllDone' = AllDone
      /\ AllPassed' = AllPassed /\ control'.number = control.number /\ control'.next = control.next
      /\ Size(Controls[control.number])' = Size(Controls[control.number])
  BY <1>1, SameCount
<1>3. CASE RefusePack
  <2>1. suite'.pc = "idle" /\ suite'.result = "usage"
    BY <1>3 DEF RefusePack, NoSuite
  <2> QED
    BY <2>1 DEF CountInv, Ended
<1>4. CASE RequestStop \/ UNCHANGED suiteVars
  <2>1. suite' = suite
    BY <1>4 DEF RequestStop, suiteVars
  <2> QED
    BY <1>2, <2>1 DEF CountInv, Ended, Placed, Told
<1>5. CASE Interrupt
  <2>1. suite' = [suite EXCEPT !.pc = "export", !.stopped = TRUE] /\ suite.pc # "idle"
    BY <1>5 DEF Interrupt, Leave
  <2>2. suite'.pc = "export" /\ suite'.stopped
    BY <2>1 DEF SuiteState
  <2> QED
    BY <1>2, <2>1, <2>2 DEF CountInv, Placed, Told, Looping
<1>6. CASE ExportNext
  <2>1. suite' = [suite EXCEPT !.written = @ + 1] /\ suite.pc = "export"
    BY <1>6 DEF ExportNext, SuiteAt
  <2>2. suite'.pc = "export" /\ suite'.stopped = suite.stopped
    BY <2>1 DEF SuiteState
  <2> QED
    BY <1>2, <2>1, <2>2 DEF CountInv, Placed, Told, Looping
<1>7. CASE ExportRaises
  <2>1. PICK result \in {"raised", "interrupted", "usage"} :
           suite' = [suite EXCEPT !.pc = "idle", !.result = result]
    BY <1>7 DEF ExportRaises
  <2>2. suite'.pc = "idle" /\ suite'.result = result /\ suite'.stopped = suite.stopped /\ suite.pc = "export"
    BY <1>7, <2>1 DEF ExportRaises, SuiteAt, SuiteState
  <2> QED
    BY <1>2, <2>1, <2>2 DEF CountInv, Placed, Told, Looping
<1>8. CASE Return
  <2> DEFINE result == IF suite.stopped THEN "stopped" ELSE IF AllPassed THEN "passed" ELSE "failed"
  <2>1. suite' = [suite EXCEPT !.pc = "idle", !.result = result] /\ suite.pc = "export"
    BY <1>8 DEF Return, SuiteAt
  <2>2. suite'.pc = "idle" /\ suite'.result = result /\ suite'.stopped = suite.stopped
    BY <2>1 DEF SuiteState
  <2> QED
    BY <1>2, <2>1, <2>2 DEF CountInv, Placed, Told, Looping
<1> QED
  BY <1>3, <1>4, <1>5, <1>6, <1>7, <1>8

LEMMA CountStep == SuiteInv /\ CountInv /\ [SuiteNext]_suiteVars => CountInv'
<1> SUFFICES ASSUME SuiteInv, CountInv, [SuiteNext]_suiteVars PROVE CountInv'
  OBVIOUS
<1>1. suite \in SuiteState
  BY DEF SuiteInv
<1>2. CASE StartSuite
  BY <1>2, StartCounts
<1>3. CASE NextControl
  BY <1>1, <1>3, NextControlCounts
<1>4. CASE NextStep
  BY <1>1, <1>4, NextStepCounts
<1>5. CASE Emit
  BY <1>1, <1>5, EmitCounts
<1>6. CASE \/ RefusePack \/ RequestStop \/ Interrupt \/ ExportNext \/ ExportRaises \/ Return
           \/ UNCHANGED suiteVars
  BY <1>1, <1>6, OtherCounts
<1> QED
  BY <1>2, <1>3, <1>4, <1>5, <1>6 DEF SuiteNext

LEMMA CountHolds == Spec => []CountInv
<1>1. Init => CountInv
  <2> SUFFICES ASSUME Init PROVE CountInv
    OBVIOUS
  <2>1. suite.pc = "idle" /\ suite.result = "none"
    BY DEF Init, SuiteInit, NoSuite
  <2> QED
    BY <2>1 DEF CountInv, Ended
<1>2. Inv /\ CountInv /\ [Next]_vars => CountInv'
  <2> SUFFICES ASSUME Inv, CountInv, [Next]_vars PROVE CountInv'
    OBVIOUS
  <2>1. [SuiteNext]_suiteVars
    BY DEF Next, vars
  <2> QED
    BY <2>1, CountStep DEF Inv
<1> QED
  BY <1>1, <1>2, InvHolds, PTL DEF Spec

-----------------------------------------------------------------------------
(* What the exit status tells.                                                 *)

\* When all controls are done, each has a trace and is complete, and there is no other trace.
LEMMA DoneTraces ==
    ASSUME Counted, AllDone
    PROVE  /\ Traces(events) = Range(Controls) /\ Range(Controls) # {} /\ events # <<>>
           /\ \A t \in Range(Controls) : Complete(t) /\ t.definition \in 1..Len(selection.definitions)
           /\ Len(events) = EstimateEventCount(selection.definitions, selection.variants, selection.mutation_count)
<1> DEFINE L == Len(Controls)
<1>1. Wanted /\ L \in Nat \ {0} /\ DOMAIN Controls = 1..L
  BY ControlsAre DEF Counted
<1>2. /\ control.number = L /\ control.next - 1 = Size(Controls[L])
      /\ \A i \in 1..L : Size(Controls[i]) \in Nat \ {0} /\ Controls[i].definition \in 1..Len(selection.definitions)
  BY <1>1, ControlsAre DEF AllDone, ControlDone
<1>3. ASSUME NEW i \in 1..L
      PROVE  Len(TraceOf(events, Controls[i])) = Size(Controls[i])
  <2>1. Len(TraceOf(events, Controls[i])) = Made(i)
    BY DEF Counted
  <2> QED
    BY <1>1, <1>2, <2>1 DEF Made
<1>4. ASSUME NEW i \in 1..L
      PROVE  Controls[i] \in Traces(events)
  <2>1. TraceOf(events, Controls[i]) # <<>>
    <3>1. Len(<<>>) = 0 /\ Size(Controls[i]) # 0
      BY <1>2
    <3> QED
      BY <1>3, <3>1
  <2>2. events \in Seq(Range(events))
    BY DEF Counted
  <2> QED
    BY <2>1, <2>2, TraceOfSome
<1>5. Range(Controls) = {Controls[i] : i \in 1..L}
  BY <1>1 DEF Range
<1>6. Traces(events) = Range(Controls)
  <2>1. Traces(events) \subseteq Range(Controls)
    BY <1>5 DEF Traces, Counted
  <2> QED
    BY <1>4, <1>5, <2>1
<1>7. Controls[L] \in Range(Controls) /\ L \in 1..L
  BY <1>1, <1>5
<1>8. events # <<>>
  <2>1. events = <<>> => Traces(events) = {}
    BY DEF Traces, Range
  <2> QED
    BY <1>6, <1>7, <2>1
<1>9. Len(events) = EstimateEventCount(selection.definitions, selection.variants, selection.mutation_count)
  <2>1. PICK b : Totals(b)
    BY <1>1, ControlsTotal
  <2>2. Len(events) = b[L - 1] + (control.next - 1)
    BY <1>1, <1>2, <2>1 DEF Counted
  <2>3. b[L] = b[L - 1] + Size(Controls[L])
    BY <1>7, <2>1 DEF Totals
  <2> QED
    BY <1>1, <1>2, <2>1, <2>2, <2>3, EstimateIsTotal
<1>10. \A t \in Range(Controls) : Complete(t) /\ t.definition \in 1..Len(selection.definitions)
  BY <1>2, <1>3, <1>5 DEF Complete, Size
<1> QED
  BY <1>6, <1>7, <1>8, <1>9, <1>10

\* The exit status tells what became of the controls, as ExitTells says: what
\* run_scenario_suite judges in one pass over each trace is what the conditions ask for.
THEOREM ExitStatusTells == Spec => []ExitTells
<1>1. Inv /\ CountInv => ExitTells
  <2> SUFFICES ASSUME Inv, CountInv, Ended PROVE ExitTells
    BY DEF ExitTells
  <2> DEFINE misjudged(t) == Embeds(TraceOf(events, t), Definition(t).conditions)
                                # (t.variant = "malicious")
             all == Range(Controls)
             complete == \A t \in all : Complete(t)
             estimate == EstimateEventCount(selection.definitions, selection.variants, selection.mutation_count)
  <2>1. Counted /\ Placed /\ Told /\ suite.pc = "idle"
    BY DEF CountInv, Ended
  <2>2. suite.result \in {"passed", "failed", "raised", "stopped", "interrupted"}
    BY DEF Inv, SuiteInv, SuiteState, Ended
  <2>3. ASSUME NEW t \in all, t.definition \in 1..Len(selection.definitions)
        PROVE  Passed(events, t, Definition(t).conditions) <=> ~misjudged(t)
    <3> DEFINE cs == Definition(t).conditions
               es == TraceOf(events, t)
    <3>1. \E S : es \in Seq(S)
      <4>1. events \in Seq(Range(events))
        BY <2>1 DEF Counted
      <4> QED
        BY <4>1, TraceIsFound
    <3>2. cs \in Seq(Range(cs)) /\ cs # <<>>
      <4> DEFINE ds == selection.definitions
      <4>1. /\ ds \in Seq(Range(ds))
            /\ \A d \in Range(ds) : d.conditions \in Seq(Range(d.conditions)) \ {<<>>}
        BY <2>1, SuiteAssumption DEF Counted, Wanted
      <4>2. DOMAIN ds = 1..Len(ds)
        BY <4>1
      <4>3. Definition(t) \in Range(ds)
        BY <2>3, <4>2 DEF Definition, Range
      <4> QED
        BY <4>1, <4>3
    <3> HIDE DEF cs, es
    <3>3. Detects(es, cs) <=> Embeds(es, cs)
      BY <3>1, <3>2, DetectsWhatEmbeds
    <3>4. Detects(es, cs) \in BOOLEAN /\ Embeds(es, cs) \in BOOLEAN
      BY DEF Detects, Embeds
    <3> QED
      BY <3>3, <3>4 DEF Passed, ExpectedDetection, cs, es
  <2>4. CASE suite.result = "passed"
    <3>1. AllDone /\ AllPassed
      BY <2>1, <2>4 DEF Placed, Told
    <3>2. Traces(events) = all /\ Len(events) = estimate
          /\ \A t \in all : Complete(t) /\ t.definition \in 1..Len(selection.definitions)
      BY <2>1, <3>1, DoneTraces
    <3>3. \A t \in all : Passed(events, t, Definition(t).conditions)
      BY <3>1, <3>2 DEF AllPassed, PassedTraces
    <3>4. complete /\ (\A t \in all : ~misjudged(t)) /\ Len(events) = estimate
      BY <2>3, <3>2, <3>3
    <3> HIDE DEF misjudged, complete, all, estimate
    <3> QED
      BY <2>4, <3>4 DEF ExitTells, ExitCode, misjudged, complete, all, estimate
  <2>5. CASE suite.result = "failed"
    <3>1. AllDone /\ ~AllPassed
      BY <2>1, <2>5 DEF Placed, Told
    <3>2. Traces(events) = all /\ events # <<>>
          /\ \A t \in all : Complete(t) /\ t.definition \in 1..Len(selection.definitions)
      BY <2>1, <3>1, DoneTraces
    <3>3. \E t \in all : ~Passed(events, t, Definition(t).conditions)
      BY <3>1, <3>2 DEF AllPassed, PassedTraces
    <3>4. complete /\ \E t \in all : misjudged(t)
      BY <2>3, <3>2, <3>3
    <3> QED
      BY <2>5, <3>4 DEF ExitTells, ExitCode
  <2>6. CASE suite.result = "raised"
    BY <2>6 DEF ExitTells, ExitCode
  <2>7. CASE suite.result = "stopped"
    <3>1. suite.stopped
      BY <2>1, <2>7 DEF Told
    <3> QED
      BY <2>7, <3>1 DEF ExitTells, ExitCode
  <2>8. CASE suite.result = "interrupted"
    BY <2>8 DEF ExitTells, ExitCode
  <2> QED
    BY <2>2, <2>4, <2>5, <2>6, <2>7, <2>8
<1> QED
  BY <1>1, InvHolds, CountHolds, PTL

=============================================================================
