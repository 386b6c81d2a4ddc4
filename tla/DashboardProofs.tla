--------------------------- MODULE DashboardProofs ---------------------------
(* Proofs about the dashboard: whatever requests, workers and readers do in     *)
(* what order, the page shows one run.  The stream's reader is left out: no     *)
(* property here is about it.                                                   *)
EXTENDS Dashboard, SequenceTheorems, TLAPS

-----------------------------------------------------------------------------
(* The invariants.                                                             *)

WorkerType ==
    [pc : {"none", "running", "export", "finally", "status", "done"},
     work : 0..MaxWork, stopped : BOOLEAN, written : SUBSET Kinds, failed : BOOLEAN]

\* DashboardTypeOK, but for the reader.
ThreadTypes ==
    /\ is_running \in BOOLEAN /\ stop_event \in BOOLEAN
    /\ last_outcome \in {"ready", "running", "error", "stopped", "complete"}
    /\ log_queue \in Seq(EventType) /\ Len(log_queue) <= MAX_EVENTS
    /\ event_sequence \in Nat /\ base \in 0..event_sequence
    /\ paths \subseteq Kinds /\ file \in [Kinds -> 0..MaxRuns]
    /\ current \in 0..MaxRuns
    /\ starting \in {"idle", "announce", "thread"}
    /\ worker \in [Runs -> WorkerType]
    /\ stops \in 0..MaxStops
    /\ stopping \in [set : Nat, announce : Nat]
    /\ stopping.set + stopping.announce <= stops

\* A claimed run has no worker until its request starts it, a worker at work is that of the
\* run claimed last, and it holds is_running.
WorkerInv ==
    /\ starting # "idle" => is_running /\ current # 0 /\ worker[current].pc = "none"
    /\ \A r \in Runs : Active(r) => is_running /\ r = current /\ starting = "idle"
    /\ \A r \in Runs : r > current => worker[r].pc = "none"

\* What a worker has written is still its own, and it forgets it when it ends.
WrittenInv ==
    /\ \A r \in Runs : \A k \in worker[r].written : Active(r) /\ file[k] = r
    /\ ArtifactsOfRun

ShownInv == ThreadTypes /\ WorkerInv /\ WrittenInv /\ RunLogComplete

-----------------------------------------------------------------------------
(* The log.                                                                    *)

\* What appending an event to the log makes of it: its length, and the ids of its events.
LEMMA LogAppended ==
    ASSUME NEW L \in Seq(EventType), NEW e \in EventType, Len(L) <= MAX_EVENTS
    PROVE  LET M == Last(Append(L, e), MAX_EVENTS)
           IN  /\ M \in Seq(EventType)
               /\ Len(M) = IF Len(L) < MAX_EVENTS THEN Len(L) + 1 ELSE MAX_EVENTS
               /\ \A i \in 1..Len(M) :
                     M[i] = IF i = Len(M) THEN e
                            ELSE IF Len(L) < MAX_EVENTS THEN L[i] ELSE L[i + 1]
<1> DEFINE A == Append(L, e)
           n == Len(L)
<1>0. MAX_EVENTS \in Nat \ {0} /\ n \in Nat
  BY DashboardAssumption
<1>1. /\ A \in Seq(EventType) /\ Len(A) = n + 1
      /\ \A i \in 1..(n + 1) : A[i] = IF i = n + 1 THEN e ELSE L[i]
  OBVIOUS
<1> HIDE DEF A
<1>2. CASE n < MAX_EVENTS
  <2>1. Last(A, MAX_EVENTS) = A
    BY <1>0, <1>1, <1>2 DEF Last
  <2> QED
    BY <1>0, <1>1, <1>2, <2>1 DEF A
<1>3. CASE ~(n < MAX_EVENTS)
  <2>0. n = MAX_EVENTS
    BY <1>0, <1>3
  <2> DEFINE M == SubSeq(A, (n + 1) - n + 1, n + 1)
  <2>1. Last(A, MAX_EVENTS) = M
    BY <1>0, <1>1, <2>0 DEF Last
  <2>2. (n + 1) - n + 1 = 2
    BY <1>0
  <2>3. \A i \in 2..(n + 1) : A[i] \in EventType
    BY <1>0, <1>1
  <2>4. /\ M \in Seq(EventType) /\ Len(M) = n
        /\ \A i \in 1..n : M[i] = A[i + 1]
    <3>1. M = SubSeq(A, 2, n + 1)
      BY <2>2
    <3>2. 2 \in Int /\ n + 1 \in Int /\ 2 <= n + 1 /\ (n + 1) - 2 + 1 = n
      BY <1>0, <2>0
    <3> HIDE DEF M
    <3>3. /\ M \in Seq(EventType) /\ Len(M) = IF 2 <= n + 1 THEN (n + 1) - 2 + 1 ELSE 0
          /\ \A i \in 1..((n + 1) - 2 + 1) : M[i] = A[2 + i - 1]
      BY <2>3, <3>1, <3>2, SubSeqProperties
    <3>4. \A i \in 1..n : 2 + i - 1 = i + 1
      BY <1>0
    <3> QED
      BY <3>2, <3>3, <3>4
  <2> HIDE DEF M
  <2>5. \A i \in 1..n : i + 1 \in 1..(n + 1) /\ (i + 1 = n + 1 <=> i = n)
    BY <1>0
  <2>6. \A i \in 1..n : M[i] = IF i = n THEN e ELSE L[i + 1]
    BY <1>1, <2>4, <2>5
  <2> QED
    BY <1>0, <1>3, <2>0, <2>1, <2>4, <2>6 DEF A
<1> QED
  BY <1>2, <1>3

\* _append_event keeps the log's type, and its ids as they should be while a run shows.
LEMMA AppendKeeps ==
    ASSUME ThreadTypes, NEW r \in 0..MaxRuns, AppendEvent(r)
    PROVE  /\ log_queue' \in Seq(EventType) /\ Len(log_queue') <= MAX_EVENTS
           /\ event_sequence' = event_sequence + 1
           /\ RunLogComplete /\ UNCHANGED <<is_running, base>> => RunLogComplete'
<1> DEFINE e == [id |-> event_sequence + 1, run |-> r]
<1>0. /\ MAX_EVENTS \in Nat \ {0} /\ event_sequence \in Nat /\ base \in 0..event_sequence
      /\ log_queue \in Seq(EventType) /\ Len(log_queue) \in Nat /\ Len(log_queue) <= MAX_EVENTS
  BY DashboardAssumption DEF ThreadTypes
<1>1. e \in EventType /\ e.id = event_sequence + 1
  BY <1>0 DEF EventType
<1>2. event_sequence' = event_sequence + 1 /\ log_queue' = Last(Append(log_queue, e), MAX_EVENTS)
  BY DEF AppendEvent
<1> HIDE DEF e
<1>3. /\ log_queue' \in Seq(EventType)
      /\ Len(log_queue') = IF Len(log_queue) < MAX_EVENTS THEN Len(log_queue) + 1 ELSE MAX_EVENTS
      /\ \A i \in 1..Len(log_queue') :
            log_queue'[i] = IF i = Len(log_queue') THEN e
                            ELSE IF Len(log_queue) < MAX_EVENTS THEN log_queue[i]
                            ELSE log_queue[i + 1]
  BY <1>0, <1>1, <1>2, LogAppended
<1>4. Len(log_queue') <= MAX_EVENTS
  BY <1>0, <1>3
<1>5. ASSUME RunLogComplete, UNCHANGED <<is_running, base>>, is_running'
      PROVE  LET n == event_sequence' - base'
             IN  /\ Len(log_queue') = IF n > MAX_EVENTS THEN MAX_EVENTS ELSE n
                 /\ \A i \in DOMAIN log_queue' :
                       log_queue'[i].id = event_sequence' - Len(log_queue') + i
  <2> DEFINE n == event_sequence - base
             len == Len(log_queue)
             len2 == Len(log_queue')
  <2>1. /\ len = IF n > MAX_EVENTS THEN MAX_EVENTS ELSE n
        /\ \A i \in 1..len : log_queue[i].id = event_sequence - len + i
    BY <1>0, <1>5 DEF RunLogComplete
  <2>2. n \in Nat /\ event_sequence' - base' = n + 1
    BY <1>0, <1>2, <1>5
  <2>3. len2 = (IF n + 1 > MAX_EVENTS THEN MAX_EVENTS ELSE n + 1) /\ len2 \in Nat
    BY <1>0, <1>3, <2>1, <2>2
  <2>4. ASSUME NEW i \in 1..len2 PROVE log_queue'[i].id = event_sequence' - len2 + i
    <3>1. CASE i = len2
      <4>1. log_queue'[i].id = event_sequence + 1
        BY <1>1, <1>3, <2>4, <3>1
      <4> QED
        BY <1>0, <1>2, <2>3, <3>1, <4>1
    <3>2. CASE i # len2 /\ len < MAX_EVENTS
      <4>1. i \in 1..len /\ len2 = len + 1
        BY <1>0, <1>3, <2>3, <2>4, <3>2
      <4>2. log_queue'[i].id = event_sequence - len + i
        BY <1>3, <2>1, <2>4, <3>2, <4>1
      <4> QED
        BY <1>0, <1>2, <4>1, <4>2
    <3>3. CASE i # len2 /\ ~(len < MAX_EVENTS)
      <4>1. i + 1 \in 1..len /\ len2 = len
        BY <1>0, <1>3, <2>3, <2>4, <3>3
      <4>2. log_queue'[i].id = event_sequence - len + (i + 1)
        BY <1>3, <2>1, <2>4, <3>3, <4>1
      <4> QED
        BY <1>0, <1>2, <4>1, <4>2
    <3> QED
      BY <3>1, <3>2, <3>3
  <2>5. DOMAIN log_queue' = 1..len2
    BY <1>3
  <2> QED
    BY <2>2, <2>3, <2>4, <2>5
<1> QED
  BY <1>2, <1>3, <1>4, <1>5 DEF RunLogComplete

-----------------------------------------------------------------------------
(* Types.                                                                      *)

LEMMA TypesInit == Init => ThreadTypes
<1> SUFFICES ASSUME Init PROVE ThreadTypes
  OBVIOUS
<1>1. NoWorker \in WorkerType
  BY DashboardAssumption DEF NoWorker, WorkerType
<1>2. 0 <= MAX_EVENTS /\ MaxRuns \in Nat /\ MaxStops \in Nat
  BY DashboardAssumption
<1> QED
  <2>1. <<>> \in Seq(EventType) /\ Len(<<>>) <= MAX_EVENTS /\ 0 \in 0..0 /\ 0 \in Nat
    BY <1>2
  <2>2. stopping \in [set : Nat, announce : Nat] /\ stopping.set + stopping.announce <= stops
    BY DEF Init
  <2>3. worker \in [Runs -> WorkerType]
    BY <1>1 DEF Init
  <2>4. /\ log_queue = <<>> /\ event_sequence = 0 /\ base = 0 /\ paths = {} /\ current = 0
        /\ file \in [Kinds -> 0..MaxRuns] /\ stops = 0 /\ starting = "idle"
        /\ last_outcome = "ready"
    BY <1>2 DEF Init
  <2>5. is_running \in BOOLEAN /\ stop_event \in BOOLEAN
    BY DEF Init
  <2> QED
    BY <1>2, <2>1, <2>2, <2>3, <2>4, <2>5 DEF ThreadTypes

LEMMA TypesStep == ThreadTypes /\ [Next]_vars => ThreadTypes'
<1> SUFFICES ASSUME ThreadTypes, [Next]_vars PROVE ThreadTypes'
  OBVIOUS
<1> USE DEF run, log
<1>a. /\ MaxRuns \in Nat \ {0} /\ MAX_EVENTS \in Nat \ {0} /\ MaxWork \in Nat /\ MaxStops \in Nat
      /\ Runs = 1..MaxRuns /\ Mode \in [Runs -> {"behavior", "scenario"}]
  BY DashboardAssumption DEF Runs
<1>b. NoWorker \in WorkerType /\ [NoWorker EXCEPT !.pc = "status"] \in WorkerType
  <2>1. NoWorker \in WorkerType
    BY <1>a DEF NoWorker, WorkerType
  <2>2. \A w \in WorkerType : [w EXCEPT !.pc = "status"] \in WorkerType
    BY DEF WorkerType
  <2> QED
    BY <2>1, <2>2
<1>c. \A r \in Runs : worker[r] \in WorkerType /\ r \in 0..MaxRuns
  BY <1>a DEF ThreadTypes
<1>e. ASSUME NEW r \in Runs, NEW w \in WorkerType,
             worker' = [s \in Runs |-> IF s = r THEN w ELSE worker[s]]
      PROVE  worker' \in [Runs -> WorkerType]
  BY <1>c, <1>e
<1>d. ASSUME NEW r \in 0..MaxRuns, AppendEvent(r), base' = base
      PROVE  /\ log_queue' \in Seq(EventType) /\ Len(log_queue') <= MAX_EVENTS
             /\ event_sequence' \in Nat /\ base' \in 0..event_sequence'
  BY <1>d, AppendKeeps DEF ThreadTypes
<1>1. CASE ClaimRun
  <2>1. <<>> \in Seq(EventType) /\ Len(<<>>) <= MAX_EVENTS
    BY <1>a
  <2>2. current' \in 0..MaxRuns
    BY <1>1, <1>a DEF ClaimRun, ThreadTypes
  <2>3. base' \in 0..event_sequence' /\ event_sequence' \in Nat
    BY <1>1 DEF ClaimRun, ThreadTypes
  <2> QED
    BY <1>1, <2>1, <2>2, <2>3 DEF ClaimRun, ThreadTypes
<1>2. CASE AnnounceRun
  BY <1>2, <1>a, <1>d DEF AnnounceRun, ThreadTypes
<1>3. CASE StartThread
  <2> DEFINE w == [worker[current] EXCEPT !.pc = "running"]
  <2>1. worker' \in [Runs -> WorkerType]
    <3>1. CASE current \in Runs
      <4>1. worker' = [s \in Runs |-> IF s = current THEN w ELSE worker[s]]
        BY <1>3, <3>1 DEF StartThread, ThreadTypes
      <4>2. w \in WorkerType
        BY <1>c, <3>1 DEF WorkerType
      <4> HIDE DEF w
      <4> QED
        BY <1>e, <3>1, <4>1, <4>2
    <3>2. CASE current \notin Runs
      <4>1. worker' = worker
        BY <1>3, <3>2 DEF StartThread, ThreadTypes
      <4> QED
        BY <4>1 DEF ThreadTypes
    <3> QED
      BY <3>1, <3>2
  <2> QED
    BY <1>3, <2>1 DEF StartThread, ThreadTypes
<1>4. CASE ThreadNotStarted
  BY <1>4 DEF ThreadNotStarted, ThreadTypes
<1>5. ASSUME NEW r \in Runs, LogWork(r) PROVE ThreadTypes'
  <2> DEFINE w == [worker[r] EXCEPT !.work = @ + 1]
  <2>2. worker' = [s \in Runs |-> IF s = r THEN w ELSE worker[s]]
    BY <1>5 DEF LogWork, ThreadTypes
  <2>3. w \in WorkerType
    <3>1. worker[r] \in WorkerType /\ worker[r].work < MaxWork
      BY <1>5, <1>c DEF LogWork
    <3>2. worker[r].work + 1 \in 0..MaxWork
      BY <1>a, <3>1 DEF WorkerType
    <3> QED
      BY <3>1, <3>2 DEF WorkerType
  <2>1. worker' \in [Runs -> WorkerType]
    <3> HIDE DEF w
    <3> QED
      BY <2>2, <2>3, <1>e
  <2> QED
    BY <1>5, <2>1, <1>c, <1>d DEF LogWork, ThreadTypes
<1>6. ASSUME NEW r \in Runs, LoopEnds(r) PROVE ThreadTypes'
  <2>0. PICK seen \in {FALSE, stop_event} :
            worker' = [worker EXCEPT ![r].pc = "export", ![r].stopped = seen]
    BY <1>6 DEF LoopEnds
  <2> DEFINE w == [worker[r] EXCEPT !.pc = "export", !.stopped = seen]
  <2>2. worker' = [s \in Runs |-> IF s = r THEN w ELSE worker[s]]
    BY <2>0 DEF ThreadTypes
  <2>4. seen \in BOOLEAN
    BY <2>0 DEF ThreadTypes
  <2>3. w \in WorkerType
    BY <2>4, <1>c DEF WorkerType
  <2>1. worker' \in [Runs -> WorkerType]
    <3> HIDE DEF w
    <3> QED
      BY <2>2, <2>3, <1>e
  <2> QED
    BY <1>6, <2>1 DEF LoopEnds, ThreadTypes
<1>7. ASSUME NEW r \in Runs, Export(r) PROVE ThreadTypes'
  <2>1. PICK k \in ExportsLeft(r) :
            /\ file' = [file EXCEPT ![k] = r]
            /\ worker' = [worker EXCEPT ![r].written = @ \union {k},
                                        ![r].stopped = IF Mode[r] = "behavior" THEN stop_event ELSE @,
                                        ![r].pc = IF ExportsLeft(r) = {k} THEN "finally" ELSE @]
    BY <1>7 DEF Export
  <2>2. k \in Kinds
    BY <2>1 DEF ExportsLeft, Artifacts, Kinds
  <2> DEFINE more  == worker[r].written \union {k}
             asked == IF Mode[r] = "behavior" THEN stop_event ELSE worker[r].stopped
             next  == IF ExportsLeft(r) = {k} THEN "finally" ELSE worker[r].pc
             w     == [worker[r] EXCEPT !.written = more, !.stopped = asked, !.pc = next]
  <2>4. worker' = [s \in Runs |-> IF s = r THEN w ELSE worker[s]]
    BY <2>1 DEF ThreadTypes
  <2>5. w \in WorkerType
    <3>1. worker[r] \in WorkerType
      BY <1>c
    <3>2. asked \in BOOLEAN
      <4>1. stop_event \in BOOLEAN /\ worker[r].stopped \in BOOLEAN
        BY <3>1 DEF ThreadTypes, WorkerType
      <4> QED
        BY <4>1
    <3>3. next \in {"none", "running", "export", "finally", "status", "done"}
      BY <3>1 DEF WorkerType
    <3>4. more \in SUBSET Kinds
      <4>1. worker[r].written \in SUBSET Kinds
        BY <3>1 DEF WorkerType
      <4> QED
        BY <2>2, <4>1
    <3> HIDE DEF more, asked, next
    <3> QED
      BY <3>1, <3>2, <3>3, <3>4 DEF WorkerType
  <2>6. worker' \in [Runs -> WorkerType]
    <3> HIDE DEF w
    <3> QED
      BY <2>4, <2>5, <1>c
  <2>7. file' \in [Kinds -> 0..MaxRuns]
    <3>1. r \in 0..MaxRuns
      BY <1>a DEF Runs
    <3> QED
      BY <2>1, <2>2, <3>1 DEF ThreadTypes
  <2>3. worker' \in [Runs -> WorkerType] /\ file' \in [Kinds -> 0..MaxRuns]
    BY <2>6, <2>7
  <2> QED
    BY <1>7, <2>3 DEF Export, ThreadTypes
<1>8. ASSUME NEW r \in Runs, WorkerRaises(r) PROVE ThreadTypes'
  <2> DEFINE w == [worker[r] EXCEPT !.pc = "finally", !.failed = TRUE]
  <2>2. worker' = [s \in Runs |-> IF s = r THEN w ELSE worker[s]]
    BY <1>8 DEF WorkerRaises, ThreadTypes
  <2>3. w \in WorkerType
    BY <1>8, <1>a, <1>c DEF WorkerRaises, ThreadTypes, WorkerType
  <2>1. worker' \in [Runs -> WorkerType]
    <3> HIDE DEF w
    <3> QED
      BY <2>2, <2>3, <1>e
  <2> QED
    BY <1>8, <2>1 DEF WorkerRaises, ThreadTypes
<1>9. ASSUME NEW r \in Runs, WorkerEnds(r) PROVE ThreadTypes'
  <2>1. worker' \in [Runs -> WorkerType] /\ paths' \subseteq Kinds
    BY <1>9, <1>b, <1>c DEF WorkerEnds, ThreadTypes, WorkerType
  <2>2. last_outcome' \in {"error", "stopped", "complete"}
    BY <1>9 DEF WorkerEnds, Outcome
  <2> QED
    BY <1>9, <2>1, <2>2 DEF WorkerEnds, ThreadTypes
<1>10. ASSUME NEW r \in Runs, LogStatus(r) PROVE ThreadTypes'
  <2>1. worker' \in [Runs -> WorkerType]
    BY <1>10, <1>a, <1>c DEF LogStatus, ThreadTypes, WorkerType
  <2> QED
    BY <1>10, <2>1, <1>c, <1>d DEF LogStatus, ThreadTypes
<1>11. CASE StopRequested
  <2>3. /\ stopping' = [set |-> stopping.set + 1, announce |-> stopping.announce]
        /\ stopping.set \in Nat /\ stopping.announce \in Nat /\ stops \in Nat
    BY <1>11 DEF StopRequested, ThreadTypes
  <2>2. /\ stopping' \in [set : Nat, announce : Nat]
        /\ stopping'.set + stopping'.announce <= stops' /\ stops' \in 0..MaxStops
    <3>1. stopping'.set = stopping.set + 1 /\ stopping'.announce = stopping.announce
      BY <2>3
    <3>2. /\ stopping'.set \in Nat /\ stopping'.announce \in Nat
          /\ stopping'.set + stopping'.announce <= stops' /\ stops' \in 0..MaxStops
      BY <1>11, <1>a, <2>3, <3>1 DEF StopRequested, ThreadTypes
    <3> QED
      BY <2>3, <3>2
  <2> QED
    BY <1>11, <2>2 DEF StopRequested, ThreadTypes
<1>12. CASE SetStop
  <2>2. stopping' \in [set : Nat, announce : Nat] /\ stopping'.set + stopping'.announce <= stops'
    BY <1>12, <1>a DEF SetStop, ThreadTypes
  <2> QED
    BY <1>12, <2>2, <1>a DEF SetStop, ThreadTypes
<1>13. CASE AnnounceStop
  <2>1. AppendEvent(0) /\ 0 \in 0..MaxRuns /\ base' = base
    BY <1>13, <1>a DEF AnnounceStop
  <2>3. /\ stopping' = [set |-> stopping.set, announce |-> stopping.announce - 1]
        /\ stopping.set \in Nat /\ stopping.announce \in Nat /\ stops \in Nat
    BY <1>13 DEF AnnounceStop, ThreadTypes
  <2>2. /\ stopping' \in [set : Nat, announce : Nat]
        /\ stopping'.set + stopping'.announce <= stops' /\ stops' \in 0..MaxStops
    <3>1. stopping'.set = stopping.set /\ stopping'.announce = stopping.announce - 1
      BY <2>3
    <3>2. /\ stopping'.set \in Nat /\ stopping'.announce \in Nat
          /\ stopping'.set + stopping'.announce <= stops' /\ stops' \in 0..MaxStops
      BY <1>13, <1>a, <2>3, <3>1 DEF AnnounceStop, ThreadTypes
    <3> QED
      BY <2>3, <3>2
  <2> QED
    BY <1>13, <2>1, <2>2, <1>a, <1>d DEF AnnounceStop, ThreadTypes
<1>14. CASE ClearEvents
  <2>1. <<>> \in Seq(EventType) /\ Len(<<>>) <= MAX_EVENTS
    BY <1>a
  <2> QED
    BY <1>14, <2>1 DEF ClearEvents, ThreadTypes
<1>15. CASE Fetch
  BY <1>15 DEF Fetch, ThreadTypes
<1>16. CASE Send
  BY <1>16 DEF Send, ThreadTypes
<1>17. CASE Reconnect
  BY <1>17 DEF Reconnect, ThreadTypes
<1>18. CASE UNCHANGED vars
  BY <1>18 DEF vars, ThreadTypes
<1> QED
  BY <1>1, <1>2, <1>3, <1>4, <1>5, <1>6, <1>7, <1>8, <1>9, <1>10, <1>11, <1>12, <1>13, <1>14, <1>15, <1>16, <1>17, <1>18 DEF Next

-----------------------------------------------------------------------------
(* One run at a time.                                                          *)

LEMMA WorkerStep == ThreadTypes /\ WorkerInv /\ [Next]_vars => WorkerInv'
<1> SUFFICES ASSUME ThreadTypes, WorkerInv, [Next]_vars PROVE WorkerInv'
  OBVIOUS
<1> USE DEF run, log
<1>a. /\ Runs = 1..MaxRuns /\ current \in 0..MaxRuns /\ MaxRuns \in Nat
      /\ worker \in [Runs -> WorkerType]
  BY DashboardAssumption DEF Runs, ThreadTypes
<1>b. ASSUME UNCHANGED <<is_running, current, starting, worker>> PROVE WorkerInv'
  BY <1>b DEF WorkerInv, Active
\* The worker of r goes on from where it is at work, or ended before.
<1>c. ASSUME NEW r \in Runs, UNCHANGED <<is_running, current, starting>>, worker[r].pc # "none",
             \A s \in Runs \ {r} : worker'[s] = worker[s],
             worker'[r].pc # "none", Active(r) \/ ~Active(r)'
      PROVE  WorkerInv'
  BY <1>a, <1>c DEF WorkerInv, Active
<1>1. CASE ClaimRun
  <2>1. /\ ~is_running /\ is_running' /\ current' = current + 1 /\ current + 1 \in Runs
        /\ starting' = "announce" /\ worker' = worker
    BY <1>1, <1>a DEF ClaimRun
  <2>2. worker[current + 1].pc = "none"
    BY <2>1, <1>a DEF WorkerInv
  <2>3. \A r \in Runs : ~Active(r)
    BY <2>1 DEF WorkerInv
  <2>4. current' # 0 /\ \A r \in Runs : r > current' => r > current
    BY <2>1, <1>a
  <2> QED
    BY <2>1, <2>2, <2>3, <2>4 DEF WorkerInv, Active
<1>2. CASE AnnounceRun
  BY <1>2 DEF AnnounceRun, WorkerInv, Active
<1>3. CASE StartThread
  <2>1. /\ starting = "thread" /\ starting' = "idle" /\ is_running' = is_running /\ current' = current
        /\ worker' = [worker EXCEPT ![current].pc = "running"]
    BY <1>3 DEF StartThread
  <2>2. is_running /\ current \in Runs
    BY <2>1, <1>a DEF WorkerInv
  <2>3. \A r \in Runs : ~Active(r)
    BY <2>1 DEF WorkerInv
  <2>4. /\ worker'[current].pc = "running"
        /\ \A r \in Runs \ {current} : worker'[r] = worker[r]
    BY <2>1, <2>2, <1>a DEF WorkerType
  <2> QED
    BY <2>1, <2>2, <2>3, <2>4, <1>a DEF WorkerInv, Active
<1>4. CASE ThreadNotStarted
  BY <1>4 DEF ThreadNotStarted, WorkerInv, Active
<1>5. ASSUME NEW r \in Runs, LogWork(r) PROVE WorkerInv'
  <2>1. /\ UNCHANGED <<is_running, current, starting>> /\ Active(r)
        /\ worker'[r].pc = "running" /\ \A s \in Runs \ {r} : worker'[s] = worker[s]
    BY <1>5, <1>a DEF LogWork, At, Active, WorkerType
  <2> QED
    BY <2>1, <1>c DEF Active
<1>6. ASSUME NEW r \in Runs, LoopEnds(r) PROVE WorkerInv'
  <2>1. /\ UNCHANGED <<is_running, current, starting>> /\ Active(r)
        /\ worker'[r].pc = "export" /\ \A s \in Runs \ {r} : worker'[s] = worker[s]
    BY <1>6, <1>a DEF LoopEnds, At, Active, WorkerType
  <2> QED
    BY <2>1, <1>c DEF Active
<1>7. ASSUME NEW r \in Runs, Export(r) PROVE WorkerInv'
  <2>1. /\ UNCHANGED <<is_running, current, starting>> /\ Active(r)
        /\ worker'[r].pc \in {"export", "finally"} /\ \A s \in Runs \ {r} : worker'[s] = worker[s]
    BY <1>7, <1>a DEF Export, At, Active, WorkerType
  <2> QED
    BY <2>1, <1>c DEF Active
<1>8. ASSUME NEW r \in Runs, WorkerRaises(r) PROVE WorkerInv'
  <2>1. /\ UNCHANGED <<is_running, current, starting>> /\ Active(r)
        /\ worker'[r].pc = "finally" /\ \A s \in Runs \ {r} : worker'[s] = worker[s]
    BY <1>8, <1>a DEF WorkerRaises, At, Active, WorkerType
  <2> QED
    BY <2>1, <1>c DEF Active
<1>9. ASSUME NEW r \in Runs, WorkerEnds(r) PROVE WorkerInv'
  <2>1. /\ UNCHANGED <<current, starting>> /\ Active(r)
        /\ worker'[r].pc = "status" /\ \A s \in Runs \ {r} : worker'[s] = worker[s]
    BY <1>9, <1>a DEF WorkerEnds, NoWorker, At, Active, WorkerType
  <2>2. starting = "idle" /\ r = current
    BY <2>1 DEF WorkerInv
  <2>3. \A s \in Runs : ~Active(s)'
    BY <2>1, <2>2 DEF WorkerInv, Active
  <2>4. \A s \in Runs : s > current => s # r
    BY <2>2, <1>a
  <2> QED
    BY <2>1, <2>2, <2>3, <2>4, <1>a DEF WorkerInv
<1>10. ASSUME NEW r \in Runs, LogStatus(r) PROVE WorkerInv'
  <2>1. /\ UNCHANGED <<is_running, current, starting>> /\ worker[r].pc = "status"
        /\ worker'[r].pc = "done" /\ \A s \in Runs \ {r} : worker'[s] = worker[s]
    BY <1>10, <1>a DEF LogStatus, At, WorkerType
  <2> QED
    BY <2>1, <1>c DEF Active
<1>11. CASE StopRequested
  BY <1>11, <1>b DEF StopRequested
<1>12. CASE SetStop
  BY <1>12, <1>b DEF SetStop
<1>13. CASE AnnounceStop
  BY <1>13, <1>b DEF AnnounceStop
<1>14. CASE ClearEvents
  BY <1>14, <1>b DEF ClearEvents
<1>15. CASE Fetch
  BY <1>15, <1>b DEF Fetch
<1>16. CASE Send
  BY <1>16, <1>b DEF Send
<1>17. CASE Reconnect
  BY <1>17, <1>b DEF Reconnect
<1>18. CASE UNCHANGED vars
  BY <1>18, <1>b DEF vars
<1> QED
  BY <1>1, <1>2, <1>3, <1>4, <1>5, <1>6, <1>7, <1>8, <1>9, <1>10, <1>11, <1>12, <1>13, <1>14, <1>15, <1>16, <1>17, <1>18 DEF Next

-----------------------------------------------------------------------------
(* The artifacts on offer.                                                     *)

LEMMA WrittenStep ==
    ThreadTypes /\ WorkerInv /\ WrittenInv /\ [Next]_vars => WrittenInv'
<1> SUFFICES ASSUME ThreadTypes, WorkerInv, WrittenInv, [Next]_vars PROVE WrittenInv'
  OBVIOUS
<1> USE DEF run, log
<1>a. /\ Runs = 1..MaxRuns /\ current \in 0..MaxRuns /\ MaxRuns \in Nat
      /\ worker \in [Runs -> WorkerType] /\ file \in [Kinds -> 0..MaxRuns]
      /\ paths \subseteq Kinds
  BY DashboardAssumption DEF Runs, ThreadTypes
<1>b. ASSUME UNCHANGED <<file, worker>>, UNCHANGED <<paths, current>> PROVE WrittenInv'
  BY <1>b DEF WrittenInv, ArtifactsOfRun, Active
\* A worker that writes nothing goes on, or one that wrote nothing does anything else.
<1>c. ASSUME NEW r \in Runs, UNCHANGED <<file, paths, current>>,
             \A s \in Runs \ {r} : worker'[s] = worker[s],
             worker'[r].written = worker[r].written, Active(r) => Active(r)'
      PROVE  WrittenInv'
  BY <1>c DEF WrittenInv, ArtifactsOfRun, Active
<1>1. CASE ClaimRun
  BY <1>1 DEF ClaimRun, WrittenInv, ArtifactsOfRun, Active
<1>2. CASE AnnounceRun
  BY <1>2, <1>b DEF AnnounceRun
<1>3. CASE StartThread
  <2>1. /\ UNCHANGED <<file, paths, current>> /\ starting = "thread"
        /\ worker' = [worker EXCEPT ![current].pc = "running"]
    BY <1>3 DEF StartThread
  <2>2. current \in Runs
    BY <2>1, <1>a DEF WorkerInv
  <2>4. /\ worker'[current].pc = "running" /\ worker'[current].written = worker[current].written
        /\ \A r \in Runs \ {current} : worker'[r] = worker[r]
    BY <2>1, <2>2, <1>a DEF WorkerType
  <2> QED
    BY <2>1, <2>2, <2>4, <1>c DEF Active
<1>4. CASE ThreadNotStarted
  BY <1>4, <1>b DEF ThreadNotStarted
<1>5. ASSUME NEW r \in Runs, LogWork(r) PROVE WrittenInv'
  <2>1. /\ UNCHANGED <<file, paths, current>> /\ worker'[r].written = worker[r].written
        /\ (Active(r) => Active(r)') /\ \A s \in Runs \ {r} : worker'[s] = worker[s]
    BY <1>5, <1>a DEF LogWork, At, Active, WorkerType
  <2> QED
    BY <2>1, <1>c
<1>6. ASSUME NEW r \in Runs, LoopEnds(r) PROVE WrittenInv'
  <2>1. /\ UNCHANGED <<file, paths, current>> /\ worker'[r].written = worker[r].written
        /\ (Active(r) => Active(r)') /\ \A s \in Runs \ {r} : worker'[s] = worker[s]
    BY <1>6, <1>a DEF LoopEnds, At, Active, WorkerType
  <2> QED
    BY <2>1, <1>c
<1>7. ASSUME NEW r \in Runs, Export(r) PROVE WrittenInv'
  <2>1. PICK k \in ExportsLeft(r) :
            /\ file' = [file EXCEPT ![k] = r]
            /\ worker' = [worker EXCEPT ![r].written = @ \union {k},
                                        ![r].stopped = IF Mode[r] = "behavior" THEN stop_event ELSE @,
                                        ![r].pc = IF ExportsLeft(r) = {k} THEN "finally" ELSE @]
    BY <1>7 DEF Export
  <2>2. k \in Kinds /\ UNCHANGED <<paths, current>> /\ Active(r)
    BY <1>7 DEF Export, ExportsLeft, Artifacts, Kinds, At, Active
  <2>3. r = current /\ \A s \in Runs \ {r} : ~Active(s)
    BY <2>2 DEF WorkerInv
  <2>4. file' \in [Kinds -> 0..MaxRuns] /\ file'[k] = r /\ \A j \in Kinds \ {k} : file'[j] = file[j]
    BY <2>1, <2>2, <1>a
  <2>5. /\ worker'[r].written = worker[r].written \union {k} /\ worker'[r].pc \in {"export", "finally"}
        /\ \A s \in Runs \ {r} : worker'[s] = worker[s]
    <3>1. worker[r] \in WorkerType
      BY <1>a
    <3>2. /\ worker'[r] = [worker[r] EXCEPT !.written = @ \union {k},
                                           !.stopped = IF Mode[r] = "behavior" THEN stop_event ELSE @,
                                           !.pc = IF ExportsLeft(r) = {k} THEN "finally" ELSE @]
          /\ \A s \in Runs \ {r} : worker'[s] = worker[s]
      BY <2>1, <1>a
    <3>3. worker[r].pc = "export"
      BY <1>7 DEF Export, At
    <3> QED
      BY <3>1, <3>2, <3>3 DEF WorkerType
  <2>6. \A s \in Runs : worker[s].written \subseteq Kinds
    BY <1>a DEF WorkerType
  <2>7. \A s \in Runs \ {r} : worker[s].written = {}
    BY <2>3 DEF WrittenInv
  <2>8. \A j \in worker'[r].written : file'[j] = r
    BY <2>4, <2>5, <2>6 DEF WrittenInv
  <2>9. ArtifactsOfRun'
    BY <2>2, <2>3, <2>4, <1>a DEF WrittenInv, ArtifactsOfRun
  <2> QED
    BY <2>5, <2>7, <2>8, <2>9 DEF WrittenInv, Active
<1>8. ASSUME NEW r \in Runs, WorkerRaises(r) PROVE WrittenInv'
  <2>1. /\ UNCHANGED <<file, paths, current>> /\ worker'[r].written = worker[r].written
        /\ (Active(r) => Active(r)') /\ \A s \in Runs \ {r} : worker'[s] = worker[s]
    BY <1>8, <1>a DEF WorkerRaises, At, Active, WorkerType
  <2> QED
    BY <2>1, <1>c
<1>9. ASSUME NEW r \in Runs, WorkerEnds(r) PROVE WrittenInv'
  <2>1. /\ UNCHANGED <<current, file>> /\ Active(r)
        /\ worker'[r].written = {} /\ \A s \in Runs \ {r} : worker'[s] = worker[s]
        /\ paths' \subseteq paths \union worker[r].written
    BY <1>9, <1>a DEF WorkerEnds, NoWorker, At, Active, WorkerType
  <2>2. r = current
    BY <2>1 DEF WorkerInv
  <2> QED
    BY <2>1, <2>2 DEF WrittenInv, ArtifactsOfRun, Active
<1>10. ASSUME NEW r \in Runs, LogStatus(r) PROVE WrittenInv'
  <2>1. /\ UNCHANGED <<file, paths, current>> /\ worker'[r].written = worker[r].written
        /\ (Active(r) => Active(r)') /\ \A s \in Runs \ {r} : worker'[s] = worker[s]
    BY <1>10, <1>a DEF LogStatus, At, Active, WorkerType
  <2> QED
    BY <2>1, <1>c
<1>11. CASE StopRequested
  BY <1>11, <1>b DEF StopRequested
<1>12. CASE SetStop
  BY <1>12, <1>b DEF SetStop
<1>13. CASE AnnounceStop
  BY <1>13, <1>b DEF AnnounceStop
<1>14. CASE ClearEvents
  BY <1>14, <1>b DEF ClearEvents
<1>15. CASE Fetch
  BY <1>15, <1>b DEF Fetch
<1>16. CASE Send
  BY <1>16, <1>b DEF Send
<1>17. CASE Reconnect
  BY <1>17, <1>b DEF Reconnect
<1>18. CASE UNCHANGED vars
  BY <1>18, <1>b DEF vars
<1> QED
  BY <1>1, <1>2, <1>3, <1>4, <1>5, <1>6, <1>7, <1>8, <1>9, <1>10, <1>11, <1>12, <1>13, <1>14, <1>15, <1>16, <1>17, <1>18 DEF Next

-----------------------------------------------------------------------------
(* The log of a run, and what the page shows.                                  *)

LEMMA LogComplete == ThreadTypes /\ RunLogComplete /\ [Next]_vars => RunLogComplete'
<1> SUFFICES ASSUME ThreadTypes, RunLogComplete, [Next]_vars PROVE RunLogComplete'
  OBVIOUS
<1> USE DEF run, log
<1>a. MaxRuns \in Nat /\ Runs = 1..MaxRuns /\ current \in 0..MaxRuns
  BY DashboardAssumption DEF Runs, ThreadTypes
<1>b. ASSUME UNCHANGED <<log, is_running, base>> PROVE RunLogComplete'
  BY <1>b DEF RunLogComplete
<1>c. ASSUME NEW r \in 0..MaxRuns, AppendEvent(r), UNCHANGED <<is_running, base>>
      PROVE  RunLogComplete'
  BY <1>c, AppendKeeps
<1>d. ASSUME ~is_running' PROVE RunLogComplete'
  BY <1>d DEF RunLogComplete
<1>1. CASE ClaimRun
  <2>1. /\ log_queue' = <<>> /\ event_sequence' = event_sequence /\ base' = event_sequence
        /\ event_sequence \in Nat /\ MAX_EVENTS \in Nat
    BY <1>1, DashboardAssumption DEF ClaimRun, ThreadTypes
  <2>2. event_sequence' - base' = 0 /\ Len(log_queue') = 0 /\ DOMAIN log_queue' = {}
    BY <2>1
  <2> QED
    BY <2>1, <2>2 DEF RunLogComplete
<1>2. CASE AnnounceRun
  BY <1>2, <1>a, <1>c DEF AnnounceRun
<1>3. CASE StartThread
  BY <1>3, <1>b DEF StartThread
<1>4. CASE ThreadNotStarted
  BY <1>4, <1>b DEF ThreadNotStarted
<1>5. ASSUME NEW r \in Runs, LogWork(r) PROVE RunLogComplete'
  BY <1>5, <1>a, <1>c DEF LogWork
<1>6. ASSUME NEW r \in Runs, LoopEnds(r) PROVE RunLogComplete'
  BY <1>6, <1>b DEF LoopEnds
<1>7. ASSUME NEW r \in Runs, Export(r) PROVE RunLogComplete'
  BY <1>7, <1>b DEF Export
<1>8. ASSUME NEW r \in Runs, WorkerRaises(r) PROVE RunLogComplete'
  BY <1>8, <1>b DEF WorkerRaises
<1>9. ASSUME NEW r \in Runs, WorkerEnds(r) PROVE RunLogComplete'
  BY <1>9, <1>d DEF WorkerEnds
<1>10. ASSUME NEW r \in Runs, LogStatus(r) PROVE RunLogComplete'
  BY <1>10, <1>a, <1>c DEF LogStatus
<1>11. CASE StopRequested
  BY <1>11, <1>b DEF StopRequested
<1>12. CASE SetStop
  BY <1>12, <1>b DEF SetStop
<1>13. CASE AnnounceStop
  <2>1. AppendEvent(0) /\ 0 \in 0..MaxRuns /\ UNCHANGED <<is_running, base>>
    BY <1>13, <1>a DEF AnnounceStop
  <2> QED
    BY <2>1, <1>c
<1>14. CASE ClearEvents
  BY <1>14, <1>d DEF ClearEvents
<1>15. CASE Fetch
  BY <1>15, <1>b DEF Fetch
<1>16. CASE Send
  BY <1>16, <1>b DEF Send
<1>17. CASE Reconnect
  BY <1>17, <1>b DEF Reconnect
<1>18. CASE UNCHANGED vars
  BY <1>18, <1>b DEF vars
<1> QED
  BY <1>1, <1>2, <1>3, <1>4, <1>5, <1>6, <1>7, <1>8, <1>9, <1>10, <1>11, <1>12, <1>13, <1>14, <1>15, <1>16, <1>17, <1>18 DEF Next

LEMMA ShownInit == Init => ShownInv
<1> SUFFICES ASSUME Init PROVE ShownInv
  OBVIOUS
<1>1. WorkerInv /\ WrittenInv /\ RunLogComplete
  BY DEF Init, WorkerInv, WrittenInv, ArtifactsOfRun, RunLogComplete, Active, NoWorker
<1> QED
  BY <1>1, TypesInit DEF ShownInv

LEMMA ShownStep == ShownInv /\ [Next]_vars => ShownInv'
  BY TypesStep, WorkerStep, WrittenStep, LogComplete DEF ShownInv

\* However requests, workers and their closing messages interleave, for any number of runs
\* and requests and any length the log is cut to: one run at a time writes the shared files,
\* the artifacts on offer are its own, and its log lacks nothing but what is cut.
THEOREM OneRunShownHolds == Spec => []OneRunShown
<1>1. ShownInv => OneRunShown
  BY DEF ShownInv, WorkerInv, WrittenInv, OneRunShown, OneWorker
<1> QED
  BY <1>1, ShownInit, ShownStep, PTL DEF Spec

=============================================================================
