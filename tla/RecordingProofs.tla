--------------------------- MODULE RecordingProofs ---------------------------
(* Proofs about the recorder for any threads, any exports and any limit, about   *)
(* what rules find in any recording, and about the gate that compares two.      *)
EXTENDS FlightRecorder, DetectionPipeline, FiniteSetTheorems, WellFoundedInduction, TLAPS

LEMMA AppendSpan ==
    ASSUME NEW S, NEW log \in Seq(S), NEW x \in S
    PROVE  /\ Append(log, x) \in Seq(S)
           /\ Len(Append(log, x)) = Len(log) + 1
           /\ Range(Append(log, x)) = Range(log) \union {x}
           /\ IsInjective(log) /\ x \notin Range(log) => IsInjective(Append(log, x))
<1> DEFINE longer == Append(log, x)
<1>1. longer \in Seq(S) /\ Len(longer) = Len(log) + 1
  OBVIOUS
<1>2. DOMAIN longer = DOMAIN log \union {Len(log) + 1}
  OBVIOUS
<1>3. longer[Len(log) + 1] = x /\ \A i \in DOMAIN log : longer[i] = log[i]
  OBVIOUS
<1>4. Range(longer) = Range(log) \union {x}
  BY <1>2, <1>3, Zenon DEF Range
<1>5. ASSUME IsInjective(log), x \notin Range(log) PROVE IsInjective(longer)
  <2>1. \A i \in DOMAIN log : log[i] # x
    BY <1>5 DEF Range
  <2> QED
    BY <1>2, <1>3, <1>5, <2>1 DEF IsInjective
<1> QED
  BY <1>1, <1>4, <1>5

-----------------------------------------------------------------------------
(* Type correctness.                                                           *)

\* Where a thread goes next does not disturb the type of its state.
LEMMA GoTyped ==
    ASSUME RecorderTypeOK, NEW t \in Threads, NEW pc \in {"idle", "ingest", "open", "write", "done"},
           NEW answer \in {"none", "200", "400"}
    PROVE  /\ Go(t, pc, answer) \in [Threads -> ThreadState]
           /\ \A u \in Threads : Go(t, pc, answer)[u].snapshot = thread[u].snapshot
<1>1. thread \in [Threads -> ThreadState]
  BY DEF RecorderTypeOK
<1>2. [thread[t] EXCEPT !.pc = pc, !.answer = answer] \in ThreadState
  BY <1>1 DEF ThreadState
<1>3. Go(t, pc, answer) = [thread EXCEPT ![t] = [thread[t] EXCEPT !.pc = pc, !.answer = answer]]
  BY <1>1 DEF Go
<1> QED
  BY <1>1, <1>2, <1>3 DEF ThreadState

\* The span that a thread is at is one of those delivered.
LEMMA SpanTyped ==
    ASSUME RecorderTypeOK, NEW t \in Threads, thread[t].next <= Len(thread[t].export)
    PROVE  Span(t) \in Spans
  BY DEF RecorderTypeOK, ThreadState, Span

LEMMA RequestsAreThreads == Requests \subseteq Threads /\ Main \in Threads
  BY DEF Threads

\* Type correctness (RecorderTypeOK): however the threads interleave, no more than
\* max_events are held, and no snapshot or file is longer.
THEOREM RecorderTypeCorrect == RecorderSpec => []RecorderTypeOK
<1>1. RecorderInit => RecorderTypeOK
  <2> SUFFICES ASSUME RecorderInit PROVE RecorderTypeOK
    OBVIOUS
  <2>1. \A pc \in {"serving", "idle"} : Fresh(pc) \in ThreadState /\ Fresh(pc).snapshot = <<>>
    BY DEF Fresh, ThreadState
  <2>2. thread \in [Threads -> ThreadState] /\ \A t \in Threads : thread[t].snapshot = <<>>
    BY <2>1 DEF RecorderInit
  <2>3. file \in [state : {"empty", "whole", "torn"}, content : Seq(Spans), length : 0..(MaxRecorded + 1)]
    BY RecorderAssumption DEF RecorderInit
  <2> QED
    BY <2>2, <2>3, RecorderAssumption DEF RecorderInit, RecorderTypeOK
<1>2. RecorderTypeOK /\ [RecorderNext]_recorderVars => RecorderTypeOK'
  <2> SUFFICES ASSUME RecorderTypeOK, [RecorderNext]_recorderVars PROVE RecorderTypeOK'
    OBVIOUS
  <2> USE RequestsAreThreads, RecorderAssumption
  <2>0. thread \in [Threads -> ThreadState]
    BY DEF RecorderTypeOK
  <2>1. ASSUME NEW t \in Requests, NEW export \in Exports, Receive(t, export) PROVE RecorderTypeOK'
    <3>1. [thread[t] EXCEPT !.pc = "ingest", !.export = export] \in ThreadState
      BY <2>0 DEF ThreadState
    <3>2. thread' = [thread EXCEPT ![t] = [thread[t] EXCEPT !.pc = "ingest", !.export = export]]
      BY <2>0, <2>1 DEF Receive
    <3>3. thread' \in [Threads -> ThreadState]
      BY <2>0, <3>1, <3>2
    <3>4. \A u \in Threads : thread'[u].snapshot = thread[u].snapshot
      BY <2>0, <3>2 DEF ThreadState
    <3> QED
      BY <2>1, <3>3, <3>4 DEF Receive, RecorderTypeOK
  <2>2. ASSUME NEW t \in Requests, RefuseExport(t) PROVE RecorderTypeOK'
    <3>1. thread' = Go(t, "done", "400")
      BY <2>2 DEF RefuseExport
    <3>2. thread' \in [Threads -> ThreadState] /\ \A u \in Threads : thread'[u].snapshot = thread[u].snapshot
      BY <3>1, GoTyped
    <3> QED
      BY <2>2, <3>2 DEF RefuseExport, RecorderTypeOK
  <2>3. ASSUME NEW t \in Requests, Record(t) PROVE RecorderTypeOK'
    <3>1. Span(t) \in Spans
      BY <2>3, SpanTyped DEF Record
    <3>2. /\ events' \in Seq(Spans) /\ Len(events') <= MaxRecorded
          /\ dropped' \in Nat
      BY <2>3, <3>1, AppendSpan DEF Record, Fate, RecorderTypeOK
    <3>3. PICK accepted \in SUBSET Spans :
             thread' = [thread EXCEPT ![t] = [thread[t] EXCEPT !.next = @ + 1, !.accepted = accepted]]
      <4> DEFINE accepted == IF Fate(Span(t)) = "recorded" THEN thread[t].accepted \union {Span(t)}
                             ELSE thread[t].accepted
      <4>1. accepted \in SUBSET Spans
        BY <2>0, <3>1 DEF ThreadState
      <4>2. thread' = [thread EXCEPT ![t] = [thread[t] EXCEPT !.next = @ + 1, !.accepted = accepted]]
        BY <2>0, <2>3 DEF Record
      <4> QED
        BY <4>1, <4>2
    <3>4. [thread[t] EXCEPT !.next = @ + 1, !.accepted = accepted] \in ThreadState
      <4>1. thread[t] \in ThreadState /\ thread[t].next + 1 \in Nat \ {0}
        BY <2>0 DEF ThreadState
      <4> QED
        BY <4>1 DEF ThreadState
    <3>5. thread' \in [Threads -> ThreadState] /\ \A u \in Threads : thread'[u].snapshot = thread[u].snapshot
      BY <2>0, <3>3, <3>4 DEF ThreadState
    <3> QED
      BY <2>3, <3>2, <3>5 DEF Record, RecorderTypeOK
  <2>4. ASSUME NEW t \in Requests, RecordError(t) PROVE RecorderTypeOK'
    <3>1. [thread[t] EXCEPT !.next = @ + 1] \in ThreadState
      <4>1. thread[t] \in ThreadState /\ thread[t].next + 1 \in Nat \ {0}
        BY <2>0 DEF ThreadState
      <4> QED
        BY <4>1 DEF ThreadState
    <3>2. CASE runtime = "receiver"
      <4>1. thread' = Go(t, "done", "400")
        BY <2>4, <3>2 DEF RecordError
      <4>2. thread' \in [Threads -> ThreadState] /\ \A u \in Threads : thread'[u].snapshot = thread[u].snapshot
        BY <4>1, GoTyped
      <4> QED
        BY <2>4, <4>2 DEF RecordError, RecorderTypeOK
    <3>3. CASE runtime # "receiver"
      <4>1. thread' = [thread EXCEPT ![t] = [thread[t] EXCEPT !.next = @ + 1]]
        BY <2>0, <2>4, <3>3 DEF RecordError
      <4>2. thread' \in [Threads -> ThreadState] /\ \A u \in Threads : thread'[u].snapshot = thread[u].snapshot
        BY <2>0, <3>1, <4>1 DEF ThreadState
      <4> QED
        BY <2>4, <4>2 DEF RecordError, RecorderTypeOK
    <3> QED
      BY <3>2, <3>3
  <2>5. ASSUME NEW t \in Threads, Snapshot(t) PROVE RecorderTypeOK'
    <3>1. [thread[t] EXCEPT !.pc = "open", !.snapshot = events] \in ThreadState
      BY <2>0 DEF ThreadState, RecorderTypeOK
    <3>2. thread' = [thread EXCEPT ![t] = [thread[t] EXCEPT !.pc = "open", !.snapshot = events]]
      BY <2>0, <2>5 DEF Snapshot
    <3>3. thread' \in [Threads -> ThreadState]
      BY <2>0, <3>1, <3>2
    <3>4. \A u \in Threads : thread'[u].snapshot = IF u = t THEN events ELSE thread[u].snapshot
      BY <2>0, <3>2 DEF ThreadState
    <3> QED
      BY <2>5, <3>3, <3>4 DEF Snapshot, RecorderTypeOK
  <2>6. ASSUME NEW t \in Threads, Truncate(t) PROVE RecorderTypeOK'
    <3>1. thread' = [thread EXCEPT ![t] = [thread[t] EXCEPT !.pc = "write"]]
      BY <2>0, <2>6 DEF Truncate
    <3>2. [thread[t] EXCEPT !.pc = "write"] \in ThreadState
      BY <2>0 DEF ThreadState
    <3>3. thread' \in [Threads -> ThreadState] /\ \A u \in Threads : thread'[u].snapshot = thread[u].snapshot
      BY <2>0, <3>1, <3>2 DEF ThreadState
    <3>4. file' \in [state : {"empty", "whole", "torn"}, content : Seq(Spans), length : 0..(MaxRecorded + 1)]
      BY <2>6 DEF Truncate
    <3> QED
      BY <2>6, <3>3, <3>4 DEF Truncate, RecorderTypeOK
  <2>7. ASSUME NEW t \in Threads, Write(t) PROVE RecorderTypeOK'
    <3>1. thread' = Go(t, "done", "200")
      BY <2>7 DEF Write
    <3>2. thread[t].snapshot \in Seq(Spans) /\ Len(thread[t].snapshot) <= MaxRecorded
      BY <2>0 DEF ThreadState, RecorderTypeOK
    <3>3. file' \in [state : {"empty", "whole", "torn"}, content : Seq(Spans), length : 0..(MaxRecorded + 1)]
      BY <2>7, <3>2 DEF Write, Overwritten, RecorderTypeOK
    <3>4. thread' \in [Threads -> ThreadState] /\ \A u \in Threads : thread'[u].snapshot = thread[u].snapshot
      BY <3>1, GoTyped
    <3> QED
      BY <2>7, <3>3, <3>4 DEF Write, RecorderTypeOK
  <2>8. ASSUME NEW t \in Threads, WriteError(t) PROVE RecorderTypeOK'
    <3>1. thread' = Go(t, "done", "none")
      BY <2>8 DEF WriteError
    <3>2. thread' \in [Threads -> ThreadState] /\ \A u \in Threads : thread'[u].snapshot = thread[u].snapshot
      BY <3>1, GoTyped
    <3>3. failures' \in 0..MaxFailures /\ errors' \in Nat
      BY <2>8 DEF WriteError, RecorderTypeOK
    <3> QED
      BY <2>8, <3>2, <3>3 DEF WriteError, RecorderTypeOK
  <2>9. CASE Close
    <3>1. thread' = [thread EXCEPT ![Main] = [thread[Main] EXCEPT !.pc = "ingest"]]
      BY <2>0, <2>9 DEF Close
    <3>2. [thread[Main] EXCEPT !.pc = "ingest"] \in ThreadState
      BY <2>0 DEF ThreadState
    <3>3. thread' \in [Threads -> ThreadState] /\ \A u \in Threads : thread'[u].snapshot = thread[u].snapshot
      BY <2>0, <3>1, <3>2 DEF ThreadState
    <3> QED
      BY <2>9, <3>3 DEF Close, RecorderTypeOK
  <2>10. CASE UNCHANGED recorderVars
    BY <2>10 DEF recorderVars, RecorderTypeOK
  <2> QED
    BY <2>1, <2>2, <2>3, <2>4, <2>5, <2>6, <2>7, <2>8, <2>9, <2>10 DEF RecorderNext
<1> QED
  BY <1>1, <1>2, PTL DEF RecorderSpec

-----------------------------------------------------------------------------
(* Each span is accepted once.                                                 *)

\* Only Record changes the recording and what has been accepted of it.
LEMMA OthersAcceptNothing ==
    ASSUME RecorderTypeOK, [RecorderNext]_recorderVars, ~\E t \in Requests : Record(t)
    PROVE  events' = events /\ \A u \in Threads : thread'[u].accepted = thread[u].accepted
<1> USE RequestsAreThreads
<1>0. thread \in [Threads -> ThreadState]
  BY DEF RecorderTypeOK
<1>1. ASSUME NEW t \in Threads, NEW pc, NEW answer, thread' = Go(t, pc, answer)
      PROVE  \A u \in Threads : thread'[u].accepted = thread[u].accepted
  BY <1>0, <1>1 DEF Go, ThreadState
<1>2. ASSUME NEW t \in Requests, NEW export \in Exports, Receive(t, export)
      PROVE  events' = events /\ \A u \in Threads : thread'[u].accepted = thread[u].accepted
  BY <1>0, <1>2 DEF Receive, ThreadState
<1>3. ASSUME NEW t \in Requests, RefuseExport(t) \/ RecordError(t)
      PROVE  events' = events /\ \A u \in Threads : thread'[u].accepted = thread[u].accepted
  <2>1. events' = events
    BY <1>3 DEF RefuseExport, RecordError
  <2>2. CASE thread' = Go(t, "done", "400")
    BY <1>1, <2>1, <2>2
  <2>3. CASE thread' = [thread EXCEPT ![t].next = @ + 1]
    BY <1>0, <2>1, <2>3 DEF ThreadState
  <2> QED
    BY <1>3, <2>2, <2>3 DEF RefuseExport, RecordError
<1>4. ASSUME NEW t \in Threads, Snapshot(t) \/ Truncate(t)
      PROVE  events' = events /\ \A u \in Threads : thread'[u].accepted = thread[u].accepted
  <2>1. CASE Snapshot(t)
    BY <1>0, <2>1 DEF Snapshot, ThreadState
  <2>2. CASE Truncate(t)
    BY <1>0, <2>2 DEF Truncate, ThreadState
  <2> QED
    BY <1>4, <2>1, <2>2
<1>5. ASSUME NEW t \in Threads, Write(t) \/ WriteError(t)
      PROVE  events' = events /\ \A u \in Threads : thread'[u].accepted = thread[u].accepted
  <2>1. events' = events /\ \E answer : thread' = Go(t, "done", answer)
    BY <1>5 DEF Write, WriteError
  <2> QED
    BY <1>1, <2>1
<1>6. CASE Close
  BY <1>0, <1>6 DEF Close, ThreadState
<1>7. CASE UNCHANGED recorderVars
  BY <1>7 DEF recorderVars
<1> QED
  BY <1>2, <1>3, <1>4, <1>5, <1>6, <1>7 DEF RecorderNext

\* A span recorded is one that no thread has accepted before.
LEMMA RecordAccepts ==
    ASSUME RecorderTypeOK, AcceptedOnce, NEW t \in Requests, Record(t)
    PROVE  AcceptedOnce'
<1> USE RequestsAreThreads
<1>0. thread \in [Threads -> ThreadState] /\ events \in Seq(Spans)
  BY DEF RecorderTypeOK
<1>1. Span(t) \in Spans
  BY SpanTyped DEF Record
<1>2. CASE Fate(Span(t)) = "recorded"
  <2>1. Span(t) \notin Recorded
    BY <1>2 DEF Fate
  <2>2. events' = Append(events, Span(t))
    BY <1>2 DEF Record
  <2>3. \A u \in Threads :
           thread'[u].accepted = IF u = t THEN thread[u].accepted \union {Span(t)} ELSE thread[u].accepted
    BY <1>0, <1>2 DEF Record, ThreadState
  <2>4. Recorded' = Recorded \union {Span(t)} /\ IsInjective(events')
    BY <1>0, <1>1, <2>1, <2>2, AppendSpan DEF Recorded, AcceptedOnce
  <2>5. Recorded' = UNION {thread'[u].accepted : u \in Threads}
    <3>1. Recorded = UNION {thread[u].accepted : u \in Threads}
      BY DEF AcceptedOnce
    <3>2. ASSUME NEW x PROVE (x \in Recorded \union {Span(t)})
                             <=> (\E u \in Threads : x \in thread'[u].accepted)
      BY <2>3, <3>1
    <3> QED
      BY <2>4, <3>2
  <2>6. \A u \in Threads : Span(t) \notin thread[u].accepted
    BY <2>1 DEF AcceptedOnce
  <2>7. \A u, v \in Threads : u # v => thread'[u].accepted \intersect thread'[v].accepted = {}
    BY <2>3, <2>6 DEF AcceptedOnce
  <2> QED
    BY <2>4, <2>5, <2>7 DEF AcceptedOnce
<1>3. CASE Fate(Span(t)) # "recorded"
  <2>1. events' = events /\ \A u \in Threads : thread'[u].accepted = thread[u].accepted
    BY <1>0, <1>3 DEF Record, ThreadState
  <2> QED
    BY <2>1 DEF AcceptedOnce, Recorded
<1> QED
  BY <1>2, <1>3

\* AcceptedOnce: the recording is without repetition, and the answers of all exports count
\* every span of it exactly once, however many threads deliver it.
THEOREM SpansAcceptedOnce == RecorderSpec => []AcceptedOnce
<1>1. RecorderInit => AcceptedOnce
  <2> SUFFICES ASSUME RecorderInit PROVE AcceptedOnce
    OBVIOUS
  <2>1. \A t \in Threads : thread[t].accepted = {}
    BY DEF RecorderInit, Fresh
  <2>2. Recorded = {} /\ IsInjective(events)
    BY DEF RecorderInit, Recorded, Range, IsInjective
  <2> QED
    BY <2>1, <2>2 DEF AcceptedOnce
<1>2. RecorderTypeOK /\ AcceptedOnce /\ [RecorderNext]_recorderVars => AcceptedOnce'
  <2> SUFFICES ASSUME RecorderTypeOK, AcceptedOnce, [RecorderNext]_recorderVars PROVE AcceptedOnce'
    OBVIOUS
  <2>1. CASE \E t \in Requests : Record(t)
    BY <2>1, RecordAccepts
  <2>2. CASE ~\E t \in Requests : Record(t)
    BY <2>2, OthersAcceptNothing DEF AcceptedOnce, Recorded
  <2> QED
    BY <2>1, <2>2
<1> QED
  BY <1>1, <1>2, RecorderTypeCorrect, PTL DEF RecorderSpec
-----------------------------------------------------------------------------
(* No silent loss.                                                             *)

\* What is counted: a set that is finite and no larger than its counter.
AtMost(S, n) == IsFiniteSet(S) /\ Cardinality(S) <= n

\* A set that does not grow stays counted, and one that grows by one by a counter that does.
LEMMA StaysBounded ==
    ASSUME NEW S, NEW T, NEW m \in Nat, NEW n \in Nat, AtMost(S, m), T \subseteq S, n >= m
    PROVE  AtMost(T, n)
<1>1. IsFiniteSet(S) /\ Cardinality(S) \in Nat /\ Cardinality(S) <= m
  BY FS_CardinalityType DEF AtMost
<1>2. IsFiniteSet(T) /\ Cardinality(T) <= Cardinality(S)
  BY <1>1, FS_Subset
<1>3. Cardinality(T) \in Nat
  BY <1>2, FS_CardinalityType
<1> QED
  BY <1>1, <1>2, <1>3 DEF AtMost

LEMMA GrowsByOne ==
    ASSUME NEW S, NEW T, NEW n \in Nat, NEW x, AtMost(S, n), T \subseteq S \union {x}
    PROVE  AtMost(T, n + 1)
<1>1. IsFiniteSet(S) /\ Cardinality(S) \in Nat /\ Cardinality(S) <= n
  BY FS_CardinalityType DEF AtMost
<1>2. /\ IsFiniteSet(S \union {x})
      /\ Cardinality(S \union {x}) = IF x \in S THEN Cardinality(S) ELSE Cardinality(S) + 1
  BY <1>1, FS_AddElement
<1>3. AtMost(S \union {x}, n + 1)
  BY <1>1, <1>2 DEF AtMost
<1> QED
  BY <1>3, StaysBounded

\* A span is lost if a request has delivered it and it is neither recorded nor bad.
LEMMA LostSpan ==
    ASSUME NEW x
    PROVE  /\ x \in Lost <=> (\E u \in Requests : x \in Delivered(u)) /\ x \notin Recorded /\ x \notin Bad
           /\ x \in Lost' <=> (\E u \in Requests : x \in Delivered(u)') /\ x \notin Recorded' /\ x \notin Bad
BY DEF Lost

\* A request that has not begun has delivered nothing and has no answer.
NotBegun == \A t \in Requests : thread[t].pc = "idle" => thread[t].next = 1 /\ thread[t].answer = "none"

LossInv ==
    /\ NotBegun
    /\ AtMost(Lost, dropped) /\ AtMost(Failing, errors)
    /\ dropped > 0 => Len(events) = MaxRecorded

\* A step that delivers nothing new and answers nobody with an error.
Quiet ==
    /\ events' = events /\ dropped' = dropped /\ errors' \in Nat /\ errors' >= errors
    /\ \A u \in Requests :
          /\ thread'[u].next = thread[u].next
          /\ thread'[u].export = thread[u].export \/ thread[u].next = 1
          /\ thread'[u].answer = "400" => thread[u].answer = "400"
          /\ thread'[u].pc = "idle" => thread[u].pc = "idle" /\ thread'[u].answer = thread[u].answer

LEMMA QuietLosesNothing == ASSUME RecorderTypeOK, LossInv, Quiet PROVE LossInv'
<1>0. dropped \in Nat /\ errors \in Nat
  BY DEF RecorderTypeOK
<1>1. \A u \in Requests : Delivered(u)' = Delivered(u)
  BY DEF Quiet, Delivered
<1>2. Lost' = Lost
  BY <1>1 DEF Lost, Quiet, Recorded
<1>3. Failing' \subseteq Failing
  BY <1>1 DEF Failing, Quiet
<1>4. AtMost(Lost', dropped') /\ AtMost(Failing', errors')
  BY <1>0, <1>2, <1>3, StaysBounded DEF LossInv, Quiet
<1>5. NotBegun'
  BY DEF LossInv, NotBegun, Quiet
<1> QED
  BY <1>4, <1>5 DEF LossInv, Quiet, AtMost

\* All steps but those that take a span, or refuse an export, are quiet.
LEMMA OthersAreQuiet ==
    ASSUME RecorderTypeOK, LossInv, [RecorderNext]_recorderVars,
           ~\E t \in Requests : Record(t) \/ RecordError(t) \/ RefuseExport(t)
    PROVE  Quiet
<1> USE RequestsAreThreads
<1>0. thread \in [Threads -> ThreadState] /\ errors \in Nat
  BY DEF RecorderTypeOK
<1>1. ASSUME NEW t \in Requests, NEW export \in Exports, Receive(t, export) PROVE Quiet
  <2>1. thread[t].pc = "idle" /\ thread[t].next = 1
    BY <1>1 DEF Receive, Is, LossInv, NotBegun
  <2> QED
    BY <1>0, <1>1, <2>1 DEF Receive, ThreadState, Quiet
<1>2. ASSUME NEW t \in Threads, Snapshot(t) PROVE Quiet
  BY <1>0, <1>2 DEF Snapshot, ThreadState, Quiet
<1>3. ASSUME NEW t \in Threads, Truncate(t) PROVE Quiet
  BY <1>0, <1>3 DEF Truncate, ThreadState, Quiet
<1>4. ASSUME NEW t \in Threads, Write(t) PROVE Quiet
  BY <1>0, <1>4 DEF Write, Go, ThreadState, Quiet
<1>5. ASSUME NEW t \in Threads, WriteError(t) PROVE Quiet
  BY <1>0, <1>5 DEF WriteError, Go, ThreadState, Quiet
<1>6. CASE Close
  BY <1>0, <1>6 DEF Close, ThreadState, Quiet
<1>7. CASE UNCHANGED recorderVars
  BY <1>0, <1>7 DEF recorderVars, Quiet
<1> QED
  BY <1>1, <1>2, <1>3, <1>4, <1>5, <1>6, <1>7 DEF RecorderNext

\* A thread that goes on to its next span has delivered the one it is at.
LEMMA DeliversNext ==
    ASSUME RecorderTypeOK, NEW t \in Requests,
           \A u \in Requests : thread'[u].export = thread[u].export
                               /\ thread'[u].next = IF u = t THEN thread[u].next + 1 ELSE thread[u].next
    PROVE  \A u \in Requests : Delivered(u)' = IF u = t THEN Delivered(u) \union {Span(t)} ELSE Delivered(u)
<1>1. thread[t].next \in Nat \ {0}
  BY RequestsAreThreads DEF RecorderTypeOK, ThreadState
<1>2. 1..(thread'[t].next - 1) = 1..(thread[t].next - 1) \union {thread[t].next}
  BY <1>1
<1>3. Delivered(t)' = Delivered(t) \union {Span(t)}
  <2>1. Delivered(t)' = {thread'[t].export[k] : k \in 1..(thread'[t].next - 1)}
    BY DEF Delivered
  <2>2. Delivered(t)' = {thread[t].export[k] : k \in 1..(thread[t].next - 1) \union {thread[t].next}}
    BY <1>2, <2>1, Zenon
  <2> QED
    BY <2>2, Zenon DEF Delivered, Span
<1>4. \A u \in Requests \ {t} : Delivered(u)' = Delivered(u)
  BY DEF Delivered
<1> QED
  BY <1>3, <1>4

\* A span that is taken is recorded, was recorded before, or is counted as dropped.
LEMMA RecordLosesNothing ==
    ASSUME RecorderTypeOK, LossInv, NEW t \in Requests, Record(t)
    PROVE  LossInv'
<1> USE RequestsAreThreads, RecorderAssumption
<1>0. /\ thread \in [Threads -> ThreadState] /\ events \in Seq(Spans) /\ Len(events) <= MaxRecorded
      /\ dropped \in Nat /\ errors \in Nat
  BY DEF RecorderTypeOK
<1>1. Span(t) \in Spans
  BY SpanTyped DEF Record
<1>2. \A u \in Requests : /\ thread'[u].export = thread[u].export
                          /\ thread'[u].next = IF u = t THEN thread[u].next + 1 ELSE thread[u].next
                          /\ thread'[u].answer = thread[u].answer /\ thread'[u].pc = thread[u].pc
  BY <1>0 DEF Record, ThreadState
<1>3. \A u \in Requests : Delivered(u)' = IF u = t THEN Delivered(u) \union {Span(t)} ELSE Delivered(u)
  BY <1>2, DeliversNext
<1>4. thread[t].pc = "ingest" /\ Span(t) \notin Bad /\ errors' = errors
  BY DEF Record, Is
<1>5. NotBegun'
  BY <1>2, <1>4 DEF LossInv, NotBegun
<1>6. Failing' = Failing
  BY <1>2, <1>3, <1>4 DEF Failing
<1>7. AtMost(Failing, errors)' 
  BY <1>4, <1>6 DEF LossInv, AtMost
<1>8. ASSUME NEW x, x \in Lost'
      PROVE  /\ x = Span(t) \/ \E u \in Requests : x \in Delivered(u)
             /\ x \notin Recorded' /\ x \notin Bad
  BY <1>3, <1>8, LostSpan
<1>9. CASE Fate(Span(t)) = "recorded"
  <2>1. events' = Append(events, Span(t)) /\ dropped' = dropped /\ Len(events) < MaxRecorded
    BY <1>0, <1>9 DEF Record, Fate
  <2>2. Recorded' = Recorded \union {Span(t)}
    BY <1>0, <1>1, <2>1, AppendSpan DEF Recorded
  <2>3. Lost' \subseteq Lost
    BY <1>8, <2>2, LostSpan
  <2>4. dropped = 0
    BY <1>0, <2>1 DEF LossInv
  <2>5. AtMost(Lost', dropped')
    BY <1>0, <2>1, <2>3, StaysBounded DEF LossInv
  <2> QED
    BY <1>5, <1>7, <2>1, <2>4, <2>5 DEF LossInv, AtMost
<1>10. CASE Fate(Span(t)) = "repeated"
  <2>1. events' = events /\ dropped' = dropped /\ Span(t) \in Recorded
    BY <1>10 DEF Record, Fate
  <2>2. Lost' \subseteq Lost
    BY <1>8, <2>1, LostSpan DEF Recorded
  <2>3. AtMost(Lost', dropped')
    BY <1>0, <2>1, <2>2, StaysBounded DEF LossInv
  <2> QED
    BY <1>5, <1>7, <2>1, <2>3 DEF LossInv, AtMost
<1>11. CASE Fate(Span(t)) = "dropped"
  <2>1. events' = events /\ dropped' = dropped + 1 /\ Len(events) = MaxRecorded
    BY <1>0, <1>11 DEF Record, Fate
  <2>2. Lost' \subseteq Lost \union {Span(t)}
    BY <1>8, <2>1, LostSpan DEF Recorded
  <2>3. AtMost(Lost', dropped')
    BY <1>0, <2>1, <2>2, GrowsByOne DEF LossInv
  <2> QED
    BY <1>5, <1>7, <2>1, <2>3 DEF LossInv, AtMost
<1> QED
  BY <1>9, <1>10, <1>11 DEF Fate

\* A bad span is counted as an error, and is in no sense lost.
LEMMA RecordErrorLosesNothing ==
    ASSUME RecorderTypeOK, LossInv, NEW t \in Requests, RecordError(t)
    PROVE  LossInv'
<1> USE RequestsAreThreads
<1>0. thread \in [Threads -> ThreadState] /\ dropped \in Nat /\ errors \in Nat
  BY DEF RecorderTypeOK
<1>1. /\ events' = events /\ dropped' = dropped /\ errors' = errors + 1
      /\ Span(t) \in Bad /\ thread[t].pc = "ingest"
  BY DEF RecordError, Is
<1>2. \A u \in Requests : thread'[u].export = thread[u].export
  BY <1>0 DEF RecordError, Go, ThreadState
<1>3. \A u \in Requests \ {t} : thread'[u] = thread[u]
  BY <1>0 DEF RecordError, Go
<1>4. thread'[t].pc # "idle" /\ thread'[t].next \in {thread[t].next, thread[t].next + 1}
  BY <1>0, <1>1 DEF RecordError, Go, ThreadState
<1>5. \A u \in Requests : Delivered(u) \subseteq Delivered(u)' /\ Delivered(u)' \subseteq Delivered(u) \union Bad
  <2>1. CASE thread'[t].next = thread[t].next
    BY <1>2, <1>3, <2>1 DEF Delivered
  <2>2. CASE thread'[t].next = thread[t].next + 1
    <3>1. \A u \in Requests : Delivered(u)' = IF u = t THEN Delivered(u) \union {Span(t)} ELSE Delivered(u)
      BY <1>2, <1>3, <2>2, DeliversNext
    <3> QED
      BY <1>1, <3>1
  <2> QED
    BY <1>4, <2>1, <2>2
<1>6. Lost' = Lost
  <2>1. Recorded' = Recorded
    BY <1>1 DEF Recorded
  <2>2. \A x : x \in Lost' <=> x \in Lost
    BY <1>5, <2>1, LostSpan
  <2>3. Lost' \subseteq Lost /\ Lost \subseteq Lost'
    BY <2>2
  <2> QED
    BY <2>3
<1>7. Failing' \subseteq Failing \union {t}
  <2>1. \A u \in Requests \ {t} : Delivered(u)' = Delivered(u)
    BY <1>3 DEF Delivered
  <2> QED
    BY <1>3, <2>1 DEF Failing
<1>8. AtMost(Failing', errors')
  BY <1>0, <1>1, <1>7, GrowsByOne DEF LossInv
<1>9. NotBegun'
  BY <1>3, <1>4 DEF LossInv, NotBegun
<1> QED
  BY <1>1, <1>6, <1>8, <1>9 DEF LossInv, AtMost

\* An export that is refused whole is counted as an error.
LEMMA RefusalLosesNothing ==
    ASSUME RecorderTypeOK, LossInv, NEW t \in Requests, RefuseExport(t)
    PROVE  LossInv'
<1> USE RequestsAreThreads
<1>0. thread \in [Threads -> ThreadState] /\ dropped \in Nat /\ errors \in Nat
  BY DEF RecorderTypeOK
<1>1. events' = events /\ dropped' = dropped /\ errors' = errors + 1
  BY DEF RefuseExport
<1>2. \A u \in Requests \ {t} : thread'[u] = thread[u]
  BY <1>0 DEF RefuseExport, Go
<1>3. thread'[t].pc # "idle" /\ thread'[t].next = thread[t].next /\ thread'[t].export = thread[t].export
  BY <1>0 DEF RefuseExport, Go, ThreadState
<1>4. \A u \in Requests : Delivered(u)' = Delivered(u)
  BY <1>2, <1>3 DEF Delivered
<1>5. Lost' = Lost
  BY <1>1, <1>4 DEF Lost, Recorded
<1>6. Failing' \subseteq Failing \union {t}
  BY <1>2, <1>4 DEF Failing
<1>7. AtMost(Failing', errors')
  BY <1>0, <1>1, <1>6, GrowsByOne DEF LossInv
<1>8. NotBegun'
  BY <1>2, <1>3 DEF LossInv, NotBegun
<1> QED
  BY <1>1, <1>5, <1>7, <1>8 DEF LossInv, AtMost

\* NoSilentLoss: whatever threads deliver, and in whatever order, a span that is not in the
\* recording was counted, as a drop of a full recorder or as an error, and never two as one.
THEOREM NothingLostSilently == RecorderSpec => []NoSilentLoss
<1>1. RecorderInit => LossInv
  <2> SUFFICES ASSUME RecorderInit PROVE LossInv
    OBVIOUS
  <2>1. \A t \in Requests : thread[t].next = 1 /\ thread[t].answer = "none"
    BY RequestsAreThreads DEF RecorderInit, Fresh
  <2>2. \A t \in Requests : Delivered(t) = {}
    BY <2>1 DEF Delivered
  <2>3. Lost = {} /\ Failing = {}
    BY <2>1, <2>2 DEF Lost, Failing
  <2>4. AtMost({}, 0)
    BY FS_EmptySet DEF AtMost
  <2>5. dropped = 0 /\ errors = 0
    BY DEF RecorderInit
  <2> QED
    BY <2>1, <2>3, <2>4, <2>5 DEF LossInv, NotBegun
<1>2. RecorderTypeOK /\ LossInv /\ [RecorderNext]_recorderVars => LossInv'
  <2> SUFFICES ASSUME RecorderTypeOK, LossInv, [RecorderNext]_recorderVars PROVE LossInv'
    OBVIOUS
  <2>1. CASE \E t \in Requests : Record(t) \/ RecordError(t) \/ RefuseExport(t)
    BY <2>1, RecordLosesNothing, RecordErrorLosesNothing, RefusalLosesNothing
  <2>2. CASE ~\E t \in Requests : Record(t) \/ RecordError(t) \/ RefuseExport(t)
    BY <2>2, OthersAreQuiet, QuietLosesNothing
  <2> QED
    BY <2>1, <2>2
<1>3. LossInv => NoSilentLoss
  BY DEF LossInv, NoSilentLoss, AtMost
<1> QED
  BY <1>1, <1>2, <1>3, RecorderTypeCorrect, PTL DEF RecorderSpec

-----------------------------------------------------------------------------
(* The file at the end.                                                        *)

\* A receiver that closes alone: nothing comes any more, so that its snapshot is the whole
\* recording, and nobody writes between its truncation and its write.
ClosingAlone ==
    /\ runtime = "receiver"
    /\ thread[Main].pc \in {"ingest", "open", "write", "done"}
    /\ \A t \in Requests : thread[t].pc \in {"idle", "done"}
    /\ thread[Main].pc \in {"open", "write"} => thread[Main].snapshot = events
    /\ thread[Main].pc = "write" => file.length = 0
    /\ EndsComplete

\* Requests that are not in progress stay so, and only the main thread takes a step.
LEMMA OnlyMainMoves ==
    ASSUME ClosingAlone, RecorderNext
    PROVE  Snapshot(Main) \/ Truncate(Main) \/ Write(Main) \/ WriteError(Main)
<1>1. \A t \in Requests : \A pc \in {"ingest", "open", "write"} : thread[t].pc # pc
  BY DEF ClosingAlone
<1>2. thread[Main].pc # "serving"
  BY DEF ClosingAlone
<1>3. ASSUME NEW t \in Requests, NEW export \in Exports, Receive(t, export) PROVE FALSE
  BY <1>2, <1>3 DEF Receive, ClosingAlone
<1>4. ASSUME NEW t \in Requests, RefuseExport(t) \/ Record(t) \/ RecordError(t) PROVE FALSE
  BY <1>1, <1>2, <1>4 DEF RefuseExport, Record, RecordError, Is
<1>5. ~Close
  BY <1>2 DEF Close, Is
<1>6. ASSUME NEW t \in Requests, Snapshot(t) \/ Truncate(t) \/ Write(t) \/ WriteError(t) PROVE FALSE
  BY <1>1, <1>6 DEF Snapshot, Truncate, Write, WriteError, Is
<1> QED
  BY <1>3, <1>4, <1>5, <1>6 DEF RecorderNext, Threads

\* ClosedFileComplete: however the requests before left the file, a receiver that closes
\* alone and gets its write through leaves one that loads and holds the whole recording.
THEOREM ClosedFileIsComplete == RecorderSpec => ClosedFileComplete
<1>1. ClosesAlone => ClosingAlone
  BY DEF ClosesAlone, ClosingAlone, EndsComplete
<1>2. RecorderTypeOK /\ ClosingAlone /\ [RecorderNext]_recorderVars => ClosingAlone'
  <2> SUFFICES ASSUME RecorderTypeOK, ClosingAlone, [RecorderNext]_recorderVars PROVE ClosingAlone'
    OBVIOUS
  <2> USE RequestsAreThreads, RecorderAssumption
  <2>0. thread \in [Threads -> ThreadState] /\ events \in Seq(Spans)
    BY DEF RecorderTypeOK
  <2>2. CASE Snapshot(Main)
    <3>1. /\ runtime' = runtime /\ events' = events /\ file' = file
          /\ thread'[Main].pc = "open" /\ thread'[Main].snapshot = events
          /\ \A t \in Requests : thread'[t] = thread[t]
      BY <2>0, <2>2 DEF Snapshot, ThreadState
    <3> QED
      BY <3>1 DEF ClosingAlone, EndsComplete
  <2>3. CASE Truncate(Main)
    <3>1. /\ runtime' = runtime /\ events' = events /\ file'.length = 0
          /\ thread[Main].pc = "open" /\ thread'[Main].pc = "write"
          /\ thread'[Main].snapshot = thread[Main].snapshot
          /\ \A t \in Requests : thread'[t] = thread[t]
      BY <2>0, <2>3 DEF Truncate, Is, ThreadState
    <3> QED
      BY <3>1 DEF ClosingAlone, EndsComplete
  <2>4. CASE Write(Main)
    <3>1. /\ runtime' = runtime /\ events' = events /\ thread[Main].pc = "write"
          /\ file' = Overwritten(thread[Main].snapshot)
          /\ thread'[Main].pc = "done"
          /\ \A t \in Requests : thread'[t] = thread[t]
      BY <2>0, <2>4 DEF Write, Go, Is, ThreadState
    <3>2. file.length = 0 /\ thread[Main].snapshot = events /\ Len(events) + 1 >= 0
      BY <2>0, <3>1 DEF ClosingAlone
    <3>3. file'.state = "whole" /\ file'.content = events
      BY <3>1, <3>2 DEF Overwritten
    <3> QED
      BY <3>1, <3>3 DEF ClosingAlone, EndsComplete, Loads
  <2>5. CASE WriteError(Main)
    <3>1. /\ runtime' = runtime /\ events' = events
          /\ thread'[Main].pc = "done" /\ thread'[Main].answer = "none"
          /\ \A t \in Requests : thread'[t] = thread[t]
      BY <2>0, <2>5 DEF WriteError, Go, ThreadState
    <3> QED
      BY <3>1 DEF ClosingAlone, EndsComplete
  <2>6. CASE UNCHANGED recorderVars
    BY <2>6 DEF recorderVars, ClosingAlone, EndsComplete, Loads
  <2> QED
    BY <2>2, <2>3, <2>4, <2>5, <2>6, OnlyMainMoves
<1>3. ClosingAlone => EndsComplete
  BY DEF ClosingAlone
<1> QED
  BY <1>1, <1>2, <1>3, RecorderTypeCorrect, PTL DEF RecorderSpec, ClosedFileComplete

-----------------------------------------------------------------------------
(* The gate, for every pack, every limit and every pair of recordings.          *)

RecordingType ==
    [events : Nat, outcome : [Rules -> Statuses], assurance : Int,
     investigation : {"clean", "review", "elevated", "critical"}]

\* A finding that blocks by itself makes the gate block (detection_ci.py, the last
\* test of evaluate_detection_ci).
LEMMA OneFindingBlocks ==
    ASSUME NEW findings, NEW f \in findings, f.severity \in {"critical", "high"}
    PROVE  GateStatus(findings) = "block"
  BY DEF GateStatus

\* A rule that detected something and no longer does has a finding that blocks: its loss
\* or the gap that took its place.
LEMMA LossIsFound ==
    ASSUME NEW after \in Statuses, after # "detected"
    PROVE  \E f \in RuleFindings("malicious", "detected", after) :
                f.severity \in {"critical", "high"}
  <1>1. CASE after = "visibility_gap"
    <2>1. Change("malicious", "detected", after) = "regressed"
      BY <1>1 DEF Change
    <2>2. RuleFindings("malicious", "detected", after)
              = {[code |-> "new_visibility_gap", severity |-> "high"]}
      BY <1>1, <2>1 DEF RuleFindings
    <2>3. [code |-> "new_visibility_gap", severity |-> "high"].severity \in {"critical", "high"}
      OBVIOUS
    <2> QED
      BY <2>2, <2>3
  <1>2. CASE after = "not_detected"
    <2>1. Change("malicious", "detected", after) = "regressed"
      BY <1>2 DEF Change
    <2>2. RuleFindings("malicious", "detected", after)
              = {[code |-> "malicious_detection_lost", severity |-> "critical"]}
      BY <1>2, <2>1 DEF RuleFindings
    <2>3. [code |-> "malicious_detection_lost", severity |-> "critical"].severity \in {"critical", "high"}
      OBVIOUS
    <2> QED
      BY <2>2, <2>3
  <1> QED
    BY <1>1, <1>2 DEF Statuses

\* However many rules improve and however good the telemetry, a change that loses one
\* malicious detection of the baseline is blocked (test_v16.py,
\* test_detection_ci_blocks_lost_malicious_signals, for every pack and recording).
THEOREM LostDetectionBlocks ==
    ASSUME NEW before \in RecordingType, NEW after \in RecordingType,
           NEW r \in Rules,
           before.outcome[r] = "detected", after.outcome[r] # "detected"
    PROVE  GateStatus(Findings("malicious", before, after)) = "block"
  <1>1. after.outcome[r] \in Statuses
    BY DEF RecordingType
  <1>2. PICK f \in RuleFindings("malicious", before.outcome[r], after.outcome[r]) :
            f.severity \in {"critical", "high"}
    BY <1>1, LossIsFound
  <1>3. f \in Findings("malicious", before, after)
    BY <1>2 DEF Findings
  <1> QED
    BY <1>2, <1>3, OneFindingBlocks

\* A recording compared with itself passes, under every classification and every limit
\* (test_v16.py, test_detection_ci_passes_identical_baseline_and_exports_artifacts).
THEOREM IdenticalPasses ==
    ASSUME NEW recording \in RecordingType, NEW class \in Classifications
    PROVE  GateStatus(Findings(class, recording, recording)) = "pass"
  <1>1. ASSUME NEW r \in Rules
        PROVE  RuleFindings(class, recording.outcome[r], recording.outcome[r]) = {}
    <2>1. Change(class, recording.outcome[r], recording.outcome[r]) = "unchanged"
      BY DEF Change
    <2> QED
      BY <2>1 DEF RuleFindings
  <1>2. TelemetryFindings(recording, recording) = {}
    <2> DEFINE n    == recording.events
               rank == InvestigationRank(recording.investigation)
    <2>1. /\ n \in Nat /\ recording.assurance \in Int
          /\ MaxAssuranceDrop \in Nat /\ MinRetention \in 0..100
      BY GateAssumption DEF RecordingType
    <2>2. ~(recording.assurance - recording.assurance > MaxAssuranceDrop)
      BY <2>1
    <2>3. ~(rank > rank)
      <3>1. rank \in Int
        BY DEF RecordingType, InvestigationRank
      <3> QED
        BY <3>1
    <2>4. ~(n > 0 /\ 100 * n < MinRetention * n)
      <3>1. MinRetention * n <= 100 * n
        BY <2>1
      <3> QED
        BY <2>1, <3>1
    <2> QED
      BY <2>2, <2>3, <2>4 DEF TelemetryFindings
  <1>3. Findings(class, recording, recording) = {}
    BY <1>1, <1>2 DEF Findings
  <1> QED
    BY <1>3 DEF GateStatus

-----------------------------------------------------------------------------
(* Detection CI as recordings grow.                                            *)

\* What has been made of the events is what the sweeps make of them now.
SweptInv ==
    /\ baseline \in Baselines /\ candidate \in Seq(Records) /\ Len(candidate) <= MaxEvents
    /\ swept = [baseline |-> Outcomes(baseline), candidate |-> Outcomes(candidate),
                live |-> LiveOutcomes(candidate)]

THEOREM SweptIsCurrent == Spec => []SweptInv
<1>1. Init => SweptInv
  BY IterationAssumption DEF Init, SweptInv, IterationAssumption
<1>2. SweptInv /\ [Next]_vars => SweptInv'
  <2> SUFFICES ASSUME SweptInv, [Next]_vars PROVE SweptInv'
    OBVIOUS
  <2>1. ASSUME NEW e \in Records, Collect(e) PROVE SweptInv'
    <3>1. candidate' \in Seq(Records) /\ baseline' = baseline /\ Len(candidate') <= MaxEvents
      <4>1. MaxEvents \in Nat
        BY IterationAssumption DEF IterationAssumption
      <4> QED
        BY <2>1, <4>1 DEF Collect, SweptInv
    <3>2. swept' = [swept EXCEPT !.candidate = Outcomes(candidate'), !.live = LiveOutcomes(candidate')]
      BY <2>1 DEF Collect
    <3>3. swept' = [baseline |-> Outcomes(baseline), candidate |-> Outcomes(candidate'),
                    live |-> LiveOutcomes(candidate')]
      BY <3>2 DEF SweptInv
    <3>4. Outcomes(baseline)' = Outcomes(baseline')
      OBVIOUS
    <3> QED
      BY <3>1, <3>3 DEF SweptInv, Outcomes, LiveOutcomes
  <2>2. ASSUME NEW class \in Comparisons, NEW score \in Scores, NEW assessment \in Assessments,
               Compare(class, score, assessment)
        PROVE  SweptInv'
    BY <2>2 DEF Compare, SweptInv, Outcomes, LiveOutcomes
  <2>3. CASE UNCHANGED vars
    BY <2>3 DEF vars, SweptInv, Outcomes, LiveOutcomes
  <2> QED
    BY <2>1, <2>2, <2>3 DEF Next
<1> QED
  BY <1>1, <1>2, PTL DEF Spec

\* GapsExplainVerdict: for every ability, rule and recording, the verdict of the live query
\* and the findings of the gap analysis, which look at the telemetry in ways of their own, agree.
THEOREM GapsAlwaysExplain == Spec => []GapsExplainVerdict
<1>1. SweptInv => GapsExplainVerdict
  <2> SUFFICES ASSUME SweptInv, NEW r \in Rules
               PROVE  LET categories == {f.category : f \in GapFindings(Pack[r], candidate)}
                      IN  /\ swept.live[r] = "missed" <=> categories = {"detection"}
                          /\ swept.live[r] = "visibility_gap" <=>
                                "detection" \in categories /\ categories # {"detection"}
    BY DEF GapsExplainVerdict
  <2> DEFINE found      == GapFindings(Pack[r], candidate)
             categories == {f.category : f \in found}
             noSource   == \E p \in Pack[r].requirements : Matching(p, candidate) = {}
             noField    == \E p \in Pack[r].requirements :
                              Matching(p, candidate) # {} /\ Unseen(p, candidate) # {}
             matched    == Matched(Pack[r], candidate)
  <2>1. swept.live[r] = LiveStatus(Pack[r], candidate)
    BY DEF SweptInv, LiveOutcomes
  <2>2. (\A q \in Pack[r].requirements : Covered(q, candidate)) <=> ~noSource /\ ~noField
    BY DEF Covered
  <2>3. /\ \A f \in found : \/ f.category = "telemetry_source" /\ noSource
                            \/ f.category = "telemetry_fields" /\ noField
                            \/ f.category = "detection" /\ ~matched
        /\ noSource => [category |-> "telemetry_source", severity |-> "high"] \in found
        /\ noField => [category |-> "telemetry_fields", severity |-> "medium"] \in found
        /\ ~matched => [category |-> "detection",
                       severity |-> IF Pack[r].risk = "high" THEN "high" ELSE "medium"] \in found
    BY DEF GapFindings
  <2> HIDE DEF found, noSource, noField, matched
  <2>4. "telemetry_source" \in categories <=> noSource
    BY <2>3
  <2>5. "telemetry_fields" \in categories <=> noField
    BY <2>3
  <2>6. /\ "detection" \in categories <=> ~matched
        /\ categories \subseteq {"telemetry_source", "telemetry_fields", "detection"}
    BY <2>3
  <2>7. swept.live[r] = IF matched THEN "detected"
                        ELSE IF ~noSource /\ ~noField THEN "missed" ELSE "visibility_gap"
    BY <2>1, <2>2 DEF LiveStatus, noSource, noField, matched
  <2> HIDE DEF categories
  <2>8. categories = {"detection"} <=> ~matched /\ ~noSource /\ ~noField
    BY <2>4, <2>5, <2>6
  <2>9. /\ swept.live[r] = "missed" <=> categories = {"detection"}
        /\ swept.live[r] = "visibility_gap" <=> "detection" \in categories /\ categories # {"detection"}
    BY <2>6, <2>7, <2>8
  <2> QED
    BY <2>9 DEF categories, found
<1> QED
  BY <1>1, SweptIsCurrent, PTL

\* Sweeps give each rule one of the three outcomes.
LEMMA OutcomesTyped == ASSUME NEW es PROVE Outcomes(es) \in [Rules -> Statuses]
  BY DEF Outcomes, SweepStatus, Statuses

\* The report is one of two recordings, as long as there is one.
GateInv ==
    gate # NoReport =>
        /\ gate.before \in RecordingType /\ gate.after \in RecordingType
        /\ gate.status = GateStatus(Findings(gate.class, gate.before, gate.after))

\* A rule that still detects, or was never in sight, and is no worse to see has no finding.
LEMMA NoLossNoFinding ==
    ASSUME NEW before \in Statuses, NEW after \in Statuses,
           before = "detected" => after = "detected",
           after = "visibility_gap" => before = "visibility_gap"
    PROVE  RuleFindings("malicious", before, after) = {}
<1>1. CASE before = after
  <2>1. Change("malicious", before, after) = "unchanged"
    BY <1>1 DEF Change
  <2> QED
    BY <2>1 DEF RuleFindings
<1>2. CASE before # after
  <2>1. after # "visibility_gap" /\ before # "detected"
    BY <1>2
  <2>2. Change("malicious", before, after) = "improved"
    <3>1. CASE before = "visibility_gap"
      BY <1>2, <2>1, <3>1 DEF Change
    <3>2. CASE before = "not_detected"
      <4>1. after = "detected"
        BY <1>2, <2>1, <3>2 DEF Statuses
      <4>2. {before, after} = {"detected", "not_detected"}
        BY <3>2, <4>1
      <4> QED
        BY <1>2, <3>2, <4>1, <4>2 DEF Change
    <3> QED
      BY <2>1, <3>1, <3>2 DEF Statuses
  <2> QED
    BY <2>2 DEF RuleFindings
<1> QED
  BY <1>1, <1>2

\* Telemetry of the same standing, and no less of it, has no finding.
LEMMA SameTelemetryNoFinding ==
    ASSUME NEW before \in RecordingType, NEW after \in RecordingType,
           after.assurance = before.assurance, after.investigation = before.investigation,
           after.events >= before.events
    PROVE  TelemetryFindings(before, after) = {}
<1>1. /\ before.events \in Nat /\ after.events \in Nat /\ before.assurance \in Int
      /\ MaxAssuranceDrop \in Nat /\ MinRetention \in 0..100
  BY GateAssumption DEF RecordingType
<1>2. ~(before.assurance - after.assurance > MaxAssuranceDrop)
  BY <1>1
<1>3. ~(InvestigationRank(after.investigation) > InvestigationRank(before.investigation))
  <2>1. InvestigationRank(before.investigation) \in Int
    BY DEF RecordingType, InvestigationRank
  <2> QED
    BY <2>1
<1>4. ~(100 * after.events < MinRetention * before.events)
  <2>1. MinRetention * before.events <= 100 * before.events
    BY <1>1
  <2>2. 100 * before.events <= 100 * after.events
    BY <1>1
  <2>3. MinRetention * before.events \in Int
    BY <1>1
  <2> QED
    BY <1>1, <2>1, <2>2, <2>3
<1> QED
  BY <1>2, <1>3, <1>4 DEF TelemetryFindings

\* GateIsFair: for every pack, limits and recordings, at any point of the collection, the gate
\* fails a candidate that lost a detection and passes one that lost nothing.
THEOREM GateIsAlwaysFair == Spec => []GateIsFair
<1>1. Init => GateInv
  BY DEF Init, GateInv
<1>2. SweptInv /\ GateInv /\ [Next]_vars => GateInv'
  <2> SUFFICES ASSUME SweptInv, GateInv, [Next]_vars PROVE GateInv'
    OBVIOUS
  <2>1. ASSUME NEW e \in Records, Collect(e) PROVE GateInv'
    BY <2>1 DEF Collect, GateInv, NoReport
  <2>2. ASSUME NEW class \in Comparisons, NEW score \in Scores, NEW assessment \in Assessments,
               Compare(class, score, assessment)
        PROVE  GateInv'
    <3> DEFINE before == Recording(baseline, swept.baseline, 100, "clean")
               after  == Recording(candidate, swept.candidate, score, assessment)
    <3>1. gate' = [class |-> class, before |-> before, after |-> after,
                   status |-> GateStatus(Findings(class, before, after))]
      BY <2>2 DEF Compare
    <3>2. swept.baseline \in [Rules -> Statuses] /\ swept.candidate \in [Rules -> Statuses]
      BY OutcomesTyped DEF SweptInv
    <3>3. Len(baseline) \in Nat /\ Len(candidate) \in Nat
      BY RecordingAssumption DEF SweptInv, RecordingAssumption
    <3>4. score \in Int /\ assessment \in {"clean", "review", "elevated", "critical"}
      <4>1. Scores \subseteq 0..100 /\ Assessments \subseteq {"clean", "review", "elevated", "critical"}
        BY RecordingAssumption, Zenon DEF RecordingAssumption
      <4> QED
        BY <4>1
    <3>5. before \in RecordingType
      BY <3>2, <3>3 DEF Recording, RecordingType
    <3>6. after \in RecordingType
      BY <3>2, <3>3, <3>4 DEF Recording, RecordingType
    <3> HIDE DEF before, after
    <3>7. /\ gate'.class = class /\ gate'.before = before /\ gate'.after = after
          /\ gate'.status = GateStatus(Findings(class, before, after))
      BY <3>1
    <3> QED
      BY <3>5, <3>6, <3>7 DEF GateInv
  <2>3. CASE UNCHANGED vars
    BY <2>3 DEF vars, GateInv
  <2> QED
    BY <2>1, <2>2, <2>3 DEF Next
<1>3. GateInv => GateCatchesLoss
  <2> SUFFICES ASSUME GateInv, gate.class = "malicious", NEW r \in Rules,
                      gate.before.outcome[r] = "detected", gate.after.outcome[r] # "detected",
                      NEW failOn \in {"block", "review"}
               PROVE  ExitCode(failOn, gate.status) = 1
    BY DEF GateCatchesLoss
  <2>1. gate # NoReport
    BY DEF NoReport
  <2>2. gate.status = "block"
    BY <2>1, LostDetectionBlocks DEF GateInv
  <2> QED
    BY <2>2 DEF ExitCode
<1>4. GateInv => NoFalseAlarm
  <2> SUFFICES ASSUME GateInv, gate.class = "malicious",
                      \A r \in Rules :
                          /\ gate.before.outcome[r] = "detected" => gate.after.outcome[r] = "detected"
                          /\ gate.after.outcome[r] = "visibility_gap"
                                => gate.before.outcome[r] = "visibility_gap",
                      gate.after.assurance = gate.before.assurance,
                      gate.after.investigation = gate.before.investigation,
                      gate.after.events >= gate.before.events
               PROVE  gate.status = "pass"
    BY DEF NoFalseAlarm
  <2>1. gate # NoReport
    BY DEF NoReport
  <2>2. gate.before \in RecordingType /\ gate.after \in RecordingType
    BY <2>1 DEF GateInv
  <2>3. \A r \in Rules : RuleFindings("malicious", gate.before.outcome[r], gate.after.outcome[r]) = {}
    BY <2>2, NoLossNoFinding DEF RecordingType
  <2>4. TelemetryFindings(gate.before, gate.after) = {}
    BY <2>2, SameTelemetryNoFinding
  <2>5. Findings("malicious", gate.before, gate.after) = {}
    BY <2>3, <2>4 DEF Findings
  <2> QED
    BY <2>1, <2>5 DEF GateInv, GateStatus
<1> QED
  BY <1>1, <1>2, <1>3, <1>4, SweptIsCurrent, PTL DEF Spec, GateIsFair

\* The new event is the last one, and those before it stay where they are.
LEMMA CollectAppends ==
    ASSUME SweptInv, NEW e \in Records, Collect(e)
    PROVE  /\ DOMAIN candidate \subseteq DOMAIN candidate'
           /\ \A i \in DOMAIN candidate : candidate'[i] = candidate[i]
           /\ DOMAIN candidate' = DOMAIN candidate \union {Len(candidate')}
  BY DEF SweptInv, Collect

\* GroupsIndependent: a rule finds in a group what it found, whatever is collected for the
\* other groups, for every rule and expression.
THEOREM GroupsAreIndependent == Spec => GroupsIndependent
<1> DEFINE Kept == \A r \in Rules : \A key \in Keys(Pack[r], candidate) :
                      (candidate' # candidate
                         /\ key # GroupKey(candidate'[Len(candidate')], Pack[r].group_by))
                      => GroupMatches(Pack[r], candidate', key) = GroupMatches(Pack[r], candidate, key)
<1>1. SweptInv /\ [Next]_vars => Kept
  <2> SUFFICES ASSUME SweptInv, [Next]_vars, NEW r \in Rules, NEW key,
                      candidate' # candidate,
                      key # GroupKey(candidate'[Len(candidate')], Pack[r].group_by)
               PROVE  GroupMatches(Pack[r], candidate', key) = GroupMatches(Pack[r], candidate, key)
    OBVIOUS
  <2>1. PICK e \in Records : Collect(e)
    BY DEF Next, Compare, vars
  <2>2. \A i \in DOMAIN candidate : candidate'[i] = candidate[i]
    BY <2>1, CollectAppends
  <2>3. Group(Pack[r], candidate', key) = Group(Pack[r], candidate, key)
    BY <2>1, CollectAppends DEF Group
  <2>4. Restrict(candidate', Group(Pack[r], candidate, key))
            = Restrict(candidate, Group(Pack[r], candidate, key))
    BY <2>2 DEF Restrict, Group
  <2> QED
    BY <2>3, <2>4 DEF GroupMatches
<1> QED
  BY <1>1, SweptIsCurrent, PTL DEF Spec, GroupsIndependent

\* Fields and sources that were seen stay seen, and so does what covers a requirement.
LEMMA SightStays ==
    ASSUME SweptInv, NEW e \in Records, Collect(e), NEW rule
    PROVE  /\ MissingFields(rule, candidate') \subseteq MissingFields(rule, candidate)
           /\ MissingSources(rule, candidate) = {} => MissingSources(rule, candidate') = {}
           /\ \A q \in rule.requirements : Covered(q, candidate) => Covered(q, candidate')
<1> USE CollectAppends
<1>1. AvailableFields(candidate) \subseteq AvailableFields(candidate')
  BY DEF AvailableFields
<1>2. Sources(candidate) \subseteq Sources(candidate')
  BY DEF Sources
<1>3. ASSUME NEW q \in rule.requirements
      PROVE  /\ Matching(q, candidate) \subseteq Matching(q, candidate')
             /\ Unseen(q, candidate') \subseteq Unseen(q, candidate)
  <2>1. Matching(q, candidate) \subseteq Matching(q, candidate')
    BY DEF Matching
  <2>2. Matching(q, candidate) \subseteq DOMAIN candidate
    BY DEF Matching
  <2> QED
    BY <2>1, <2>2 DEF Unseen
<1> QED
  BY <1>1, <1>2, <1>3 DEF MissingFields, MissingSources, Covered

\* VisibilityGrows: for every pack and in every order of collection, a rule that was in sight
\* is never out of it because of more events.
THEOREM VisibilityAlwaysGrows == Spec => VisibilityGrows
<1> DEFINE Kept == \A r \in Rules : candidate' # candidate =>
                   /\ swept.candidate[r] = "not_detected" => swept'.candidate[r] # "visibility_gap"
                   /\ swept.live[r] = "missed" => swept'.live[r] # "visibility_gap"
<1>1. SweptInv /\ SweptInv' /\ [Next]_vars => Kept
  <2> SUFFICES ASSUME SweptInv, SweptInv', [Next]_vars, NEW r \in Rules, candidate' # candidate
               PROVE  /\ swept.candidate[r] = "not_detected" => swept'.candidate[r] # "visibility_gap"
                      /\ swept.live[r] = "missed" => swept'.live[r] # "visibility_gap"
    OBVIOUS
  <2>1. PICK e \in Records : Collect(e)
    BY DEF Next, Compare, vars
  <2>2. /\ swept.candidate[r] = SweepStatus(Pack[r], candidate)
        /\ swept'.candidate[r] = SweepStatus(Pack[r], candidate')
        /\ swept.live[r] = LiveStatus(Pack[r], candidate)
        /\ swept'.live[r] = LiveStatus(Pack[r], candidate')
    BY DEF SweptInv, Outcomes, LiveOutcomes
  <2>3. SweepStatus(Pack[r], candidate) = "not_detected" => SweepStatus(Pack[r], candidate') # "visibility_gap"
    BY <2>1, SightStays DEF SweepStatus
  <2>4. LiveStatus(Pack[r], candidate) = "missed" => LiveStatus(Pack[r], candidate') # "visibility_gap"
    BY <2>1, SightStays DEF LiveStatus
  <2> QED
    BY <2>2, <2>3, <2>4
<1> QED
  BY <1>1, SweptIsCurrent, PTL DEF Spec, VisibilityGrows

-----------------------------------------------------------------------------
(* Induction.                                                                  *)

Below == {p \in Nat \X Nat : p[1] < p[2]}

LEMMA SetInduction ==
    ASSUME NEW S, 0 \in S, \A n \in Nat : n \in S => n + 1 \in S
    PROVE  Nat \subseteq S
<1> SUFFICES ASSUME Nat \ S # {} PROVE FALSE
  OBVIOUS
<1> DEFINE T == Nat \ S
<1>1. IsWellFoundedOn(Below, Nat)
  BY NatLessThanWellFounded DEF OpToRel, Below
<1>2. PICK x \in T : \A y \in T : ~(<<y, x>> \in Below)
  <2>1. T \subseteq Nat /\ T # {}
    OBVIOUS
  <2> HIDE DEF T
  <2> QED
    BY <1>1, <2>1, WFMin
<1>3. x \in Nat /\ x # 0 /\ x - 1 \in Nat /\ x - 1 < x
  OBVIOUS
<1>4. x - 1 \in S
  BY <1>2, <1>3 DEF Below
<1>5. (x - 1) + 1 \in S
  BY <1>3, <1>4
<1> QED
  BY <1>3, <1>5

\* Of some numbers one is the least.
LEMMA SmallestNumber ==
    ASSUME NEW T \in SUBSET Nat, T # {}
    PROVE  \E m \in T : \A n \in T : m <= n
<1>1. IsWellFoundedOn(Below, Nat)
  BY NatLessThanWellFounded DEF OpToRel, Below
<1>2. PICK m \in T : \A n \in T : ~(<<n, m>> \in Below)
  BY <1>1, WFMin
<1>3. ASSUME NEW n \in T PROVE m <= n
  <2>1. <<n, m>> \notin Below /\ <<n, m>> \in Nat \X Nat
    BY <1>2
  <2>2. ~(n < m)
    BY <2>1 DEF Below
  <2> QED
    BY <2>2
<1> QED
  BY <1>3

\* The results of so many steps.
Iterates(X, x, g, N, f) ==
    f \in [0 .. N -> X] /\ f[0] = x /\ \A n \in 1 .. N : f[n] = g[<<f[n - 1], n>>]

LEMMA Recursion ==
    ASSUME NEW X, NEW x \in X, NEW g \in [X \X Nat -> X], NEW N \in Nat
    PROVE  \E f : Iterates(X, x, g, N, f)
<1> DEFINE Upto(f, m) == f[0] = x /\ \A n \in 1 .. m : f[n] = g[<<f[n - 1], n>>]
           Exists(m) == \E f \in [0 .. m -> X] : Upto(f, m)
           T == {m \in Nat : Exists(m)}
<1>1. 0 \in T
  <2> DEFINE f == [n \in 0 .. 0 |-> x]
  <2>1. f \in [0 .. 0 -> X] /\ Upto(f, 0)
    OBVIOUS
  <2> HIDE DEF f, Upto
  <2> QED
    BY <2>1
<1>2. ASSUME NEW m \in Nat, m \in T PROVE m + 1 \in T
  <2>1. PICK f \in [0 .. m -> X] : Upto(f, m)
    <3> HIDE DEF Upto
    <3> QED
      BY <1>2
  <2> DEFINE h == [n \in 0 .. m + 1 |-> IF n <= m THEN f[n] ELSE g[<<f[m], m + 1>>]]
  <2>2. f[m] \in X /\ g[<<f[m], m + 1>>] \in X
    OBVIOUS
  <2>3. h \in [0 .. m + 1 -> X]
    BY <2>2
  <2>4. \A n \in 0 .. m : h[n] = f[n]
    OBVIOUS
  <2>5. h[m + 1] = g[<<f[m], m + 1>>]
    OBVIOUS
  <2> HIDE DEF h
  <2>6. ASSUME NEW n \in 1 .. m + 1 PROVE h[n] = g[<<h[n - 1], n>>]
    <3>1. CASE n = m + 1
      <4>1. n - 1 = m /\ m \in 0 .. m
        BY <3>1
      <4>2. h[n - 1] = f[m]
        BY <2>4, <4>1
      <4> QED
        BY <2>5, <3>1, <4>2
    <3>2. CASE n # m + 1
      <4>1. n \in 1 .. m /\ n - 1 \in 0 .. m /\ n \in 0 .. m
        BY <3>2
      <4> QED
        BY <2>1, <2>4, <4>1
    <3> QED
      BY <3>1, <3>2
  <2>7. h[0] = x
    BY <2>1, <2>4
  <2>8. Upto(h, m + 1)
    BY <2>6, <2>7
  <2> HIDE DEF Upto
  <2> QED
    BY <2>3, <2>8
<1>3. N \in T
  <2> HIDE DEF T
  <2> QED
    BY <1>1, <1>2, SetInduction
<1> QED
  BY <1>3 DEF Iterates

\* The results from the first one on.
Goes(X, x, g, n, c) ==
    c \in [1 .. n -> X] /\ c[1] = x /\ \A k \in 2 .. n : c[k] = g[<<c[k - 1], k>>]

LEMMA GoesOn ==
    ASSUME NEW X, NEW x \in X, NEW g \in [X \X Nat -> X], NEW n \in Nat \ {0}
    PROVE  \E c : Goes(X, x, g, n, c)
<1> DEFINE h == [p \in X \X Nat |-> g[<<p[1], p[2] + 1>>]]
<1>1. h \in [X \X Nat -> X] /\ n - 1 \in Nat
  OBVIOUS
<1>2. \A y \in X, k \in Nat : h[<<y, k>>] = g[<<y, k + 1>>]
  OBVIOUS
<1> HIDE DEF h
<1>3. PICK r : Iterates(X, x, h, n - 1, r)
  BY <1>1, Recursion
<1>4. r \in [0 .. n - 1 -> X] /\ r[0] = x /\ \A k \in 1 .. n - 1 : r[k] = h[<<r[k - 1], k>>]
  BY <1>3 DEF Iterates
<1> DEFINE c == [k \in 1 .. n |-> r[k - 1]]
<1>5. c \in [1 .. n -> X] /\ c[1] = x
  <2>1. \A k \in 1 .. n : k - 1 \in 0 .. n - 1
    OBVIOUS
  <2>2. c \in [1 .. n -> X]
    BY <1>4, <2>1
  <2> QED
    BY <1>4, <2>2
<1>6. ASSUME NEW k \in 2 .. n PROVE c[k] = g[<<c[k - 1], k>>]
  <2>1. k - 1 \in 1 .. n - 1 /\ k - 1 \in 1 .. n /\ k \in 1 .. n /\ (k - 1) + 1 = k
        /\ (k - 1) - 1 \in 0 .. n - 1 /\ k - 1 \in Nat
    OBVIOUS
  <2>2. c[k] = r[k - 1] /\ c[k - 1] = r[(k - 1) - 1]
    BY <2>1
  <2>3. r[k - 1] = h[<<r[(k - 1) - 1], k - 1>>] /\ r[(k - 1) - 1] \in X
    BY <1>4, <2>1
  <2>4. h[<<r[(k - 1) - 1], k - 1>>] = g[<<r[(k - 1) - 1], k>>]
    BY <1>2, <2>1, <2>3
  <2> QED
    BY <2>2, <2>3, <2>4
<1> HIDE DEF c
<1>7. Goes(X, x, g, n, c)
  BY <1>5, <1>6 DEF Goes
<1> QED
  BY <1>7

-----------------------------------------------------------------------------
(* Sequences.                                                                  *)

\* The events of a group: indices that count from one, and times.
Indexed(es) ==
    /\ DOMAIN es \subseteq Nat \ {0} /\ DOMAIN es \subseteq 1 .. MaxEvents /\ IsFiniteSet(DOMAIN es)
    /\ \A i \in DOMAIN es : es[i].timestamp \in Nat

\* Before orders events.
LEMMA BeforeOrders ==
    ASSUME NEW es, Indexed(es), NEW i \in DOMAIN es, NEW j \in DOMAIN es, NEW k \in DOMAIN es
    PROVE  /\ Before(es, i, j) /\ Before(es, j, k) => Before(es, i, k)
           /\ i = j \/ Before(es, i, j) \/ Before(es, j, i)
           /\ Before(es, i, j) => es[i].timestamp <= es[j].timestamp
<1>1. /\ i \in Nat /\ j \in Nat /\ k \in Nat
      /\ es[i].timestamp \in Nat /\ es[j].timestamp \in Nat /\ es[k].timestamp \in Nat
  BY DEF Indexed
<1> QED
  BY <1>1 DEF Before

LEMMA EarliestIs ==
    ASSUME NEW es, Indexed(es), NEW S \in SUBSET DOMAIN es, S # {}
    PROVE  /\ Earliest(es, S) \in S
           /\ \A j \in S \ {Earliest(es, S)} : Before(es, Earliest(es, S), j)
<1> DEFINE T == {es[i].timestamp : i \in S}
<1>1. T \in SUBSET Nat /\ T # {}
  BY DEF Indexed
<1>2. PICK t \in T : \A u \in T : t <= u
  BY <1>1, SmallestNumber
<1> DEFINE U == {i \in S : es[i].timestamp = t}
<1>3. U \in SUBSET Nat /\ U # {}
  BY <1>2 DEF Indexed
<1>4. PICK i \in U : \A j \in U : i <= j
  BY <1>3, SmallestNumber
<1>5. ASSUME NEW j \in S \ {i} PROVE Before(es, i, j)
  <2>1. es[i].timestamp = t /\ t <= es[j].timestamp /\ t \in Nat /\ es[j].timestamp \in Nat
    BY <1>1, <1>2, <1>4
  <2>2. i \in Nat /\ j \in Nat
    BY <1>4 DEF Indexed
  <2>3. CASE es[j].timestamp = t
    BY <1>4, <2>1, <2>2, <2>3 DEF Before
  <2>4. CASE es[j].timestamp # t
    BY <2>1, <2>4 DEF Before
  <2> QED
    BY <2>3, <2>4
<1>6. i \in S
  BY <1>4
<1> QED
  BY <1>5, <1>6 DEF Earliest

\* What a chain goes on with.
Later(es, found, last, k) ==
    LET left == {j \in found[k] : last # 0 /\ Before(es, last, j)}
    IN  IF left = {} THEN 0 ELSE Earliest(es, left)

LEMMA LaterIs ==
    ASSUME NEW es, Indexed(es), NEW found \in Seq(SUBSET DOMAIN es), NEW k \in 1 .. Len(found),
           NEW last \in DOMAIN es \union {0}
    PROVE  /\ Later(es, found, last, k) \in found[k] \union {0}
           /\ Later(es, found, last, k) # 0 =>
                 last # 0 /\ Before(es, last, Later(es, found, last, k))
           /\ \A j \in found[k] : last # 0 /\ Before(es, last, j) =>
                 /\ Later(es, found, last, k) # 0
                 /\ Later(es, found, last, k) = j \/ Before(es, Later(es, found, last, k), j)
<1> DEFINE left == {j \in found[k] : last # 0 /\ Before(es, last, j)}
<1>1. left \in SUBSET DOMAIN es /\ 0 \notin DOMAIN es
  BY DEF Indexed
<1>2. CASE left = {}
  BY <1>2 DEF Later
<1>3. CASE left # {}
  <2>1. Later(es, found, last, k) = Earliest(es, left)
    BY <1>3 DEF Later
  <2>2. /\ Earliest(es, left) \in left
        /\ \A j \in left \ {Earliest(es, left)} : Before(es, Earliest(es, left), j)
    <3> HIDE DEF left
    <3> QED
      BY <1>1, <1>3, EarliestIs
  <2> QED
    BY <1>1, <2>1, <2>2
<1> QED
  BY <1>2, <1>3

LEMMA GreedyIs ==
    ASSUME NEW es, Indexed(es), NEW found \in Seq(SUBSET DOMAIN es), found # <<>>, NEW first \in found[1]
    PROVE  LET c == GreedyChain(es, found, first)
           IN  /\ c \in [1 .. Len(found) -> DOMAIN es \union {0}] /\ c[1] = first
               /\ \A k \in 2 .. Len(found) : c[k] = Later(es, found, c[k - 1], k)
<1> DEFINE n == Len(found)
           X == DOMAIN es \union {0}
           g == [p \in X \X Nat |-> IF p[2] \in 1 .. n THEN Later(es, found, p[1], p[2]) ELSE 0]
           Body(h) == [k \in 1 .. n |->
                          LET left == {j \in found[k] : h[k - 1] # 0 /\ Before(es, h[k - 1], j)}
                          IN  IF k = 1 THEN first ELSE IF left = {} THEN 0 ELSE Earliest(es, left)]
           c == CHOOSE h : h = Body(h)
<1>1. n \in Nat \ {0} /\ first \in X /\ \A k \in 1 .. n : found[k] \subseteq DOMAIN es
  OBVIOUS
<1>2. \A x \in X, k \in 1 .. n : Later(es, found, x, k) \in X
  BY <1>1, LaterIs
<1>3. g \in [X \X Nat -> X]
  BY <1>2
<1>4. \A x \in X, k \in 1 .. n : g[<<x, k>>] = Later(es, found, x, k)
  OBVIOUS
<1>5. GreedyChain(es, found, first) = c
  BY DEF GreedyChain
<1>6. \A h : Body(h) = [k \in 1 .. n |-> IF k = 1 THEN first ELSE Later(es, found, h[k - 1], k)]
  BY DEF Later
<1> HIDE DEF n, X, g, Body
<1>7. PICK r : Goes(X, first, g, n, r)
  BY <1>1, <1>3, GoesOn
<1>8. r \in [1 .. n -> X] /\ r[1] = first /\ \A k \in 2 .. n : r[k] = Later(es, found, r[k - 1], k)
  <2>1. r \in [1 .. n -> X] /\ r[1] = first /\ \A k \in 2 .. n : r[k] = g[<<r[k - 1], k>>]
    BY <1>7 DEF Goes
  <2>2. \A k \in 2 .. n : k \in 1 .. n /\ k - 1 \in 1 .. n
    BY <1>1
  <2> QED
    BY <1>4, <2>1, <2>2
<1>9. r = Body(r)
  <2> DEFINE h == [k \in 1 .. n |-> IF k = 1 THEN first ELSE Later(es, found, r[k - 1], k)]
  <2>1. \A k \in 1 .. n : k = 1 \/ k \in 2 .. n
    BY <1>1
  <2>2. \A k \in 1 .. n : r[k] = h[k]
    BY <1>8, <2>1
  <2>3. r = h
    BY <1>8, <2>2
  <2> QED
    BY <1>6, <2>3
<1>10. c = Body(c)
  BY <1>9
<1> HIDE DEF c
<1>11. /\ DOMAIN c = 1 .. n /\ c = [k \in 1 .. n |-> c[k]]
       /\ \A k \in 1 .. n : c[k] = IF k = 1 THEN first ELSE Later(es, found, c[k - 1], k)
  BY <1>6, <1>10
<1>12. c[1] = first /\ \A k \in 2 .. n : c[k] = Later(es, found, c[k - 1], k)
  <2>1. 1 \in 1 .. n /\ \A k \in 2 .. n : k \in 1 .. n /\ k # 1
    BY <1>1
  <2> QED
    BY <1>11, <2>1
<1>13. \A k \in 1 .. n : c[k] \in X
  <2> DEFINE I == {k \in Nat : k + 1 <= n => c[k + 1] \in X}
  <2>1. 0 \in I
    BY <1>1, <1>12
  <2>2. ASSUME NEW k \in Nat, k \in I PROVE k + 1 \in I
    <3> SUFFICES ASSUME (k + 1) + 1 <= n PROVE c[(k + 1) + 1] \in X
      OBVIOUS
    <3>1. (k + 1) + 1 \in 2 .. n /\ (k + 1) + 1 \in 1 .. n /\ ((k + 1) + 1) - 1 = k + 1 /\ c[k + 1] \in X
      BY <1>1, <2>2
    <3> QED
      BY <1>2, <1>12, <3>1
  <2>3. Nat \subseteq I
    <3> HIDE DEF I
    <3> QED
      BY <2>1, <2>2, SetInduction
  <2>4. \A k \in 1 .. n : k - 1 \in Nat /\ (k - 1) + 1 = k /\ k <= n
    BY <1>1
  <2> QED
    BY <2>3, <2>4
<1>14. c \in [1 .. n -> X]
  BY <1>11, <1>13
<1> QED
  BY <1>5, <1>12, <1>14 DEF n, X

\* Events that satisfy the steps of a sequence one after the other.
Follows(es, found, d) ==
    /\ d \in [1 .. Len(found) -> DOMAIN es]
    /\ \A k \in 1 .. Len(found) : d[k] \in found[k]
    /\ \A k \in 1 .. (Len(found) - 1) : Before(es, d[k], d[k + 1])

\* A chain that gets to its end has lost its way nowhere.
LEMMA GreedyFollows ==
    ASSUME NEW es, Indexed(es), NEW found \in Seq(SUBSET DOMAIN es), found # <<>>, NEW first \in found[1],
           GreedyChain(es, found, first)[Len(found)] # 0
    PROVE  Follows(es, found, GreedyChain(es, found, first))
<1> DEFINE n == Len(found)
           c == GreedyChain(es, found, first)
           X == DOMAIN es \union {0}
<1>1. /\ c \in [1 .. n -> X] /\ c[1] = first
      /\ \A k \in 2 .. n : c[k] = Later(es, found, c[k - 1], k)
  BY GreedyIs
<1>2. n \in Nat \ {0} /\ c[n] # 0 /\ first \in DOMAIN es
  OBVIOUS
<1> HIDE DEF n, c, X
<1>3. \A k \in 2 .. n :
         /\ c[k] \in found[k] \union {0}
         /\ c[k] # 0 => c[k - 1] # 0 /\ Before(es, c[k - 1], c[k])
  <2> SUFFICES ASSUME NEW k \in 2 .. n
               PROVE  /\ c[k] \in found[k] \union {0}
                      /\ c[k] # 0 => c[k - 1] # 0 /\ Before(es, c[k - 1], c[k])
    OBVIOUS
  <2>1. k \in 1 .. n /\ k - 1 \in 1 .. n
    BY <1>2
  <2>2. c[k - 1] \in DOMAIN es \union {0} /\ k \in 1 .. Len(found)
    BY <1>1, <2>1 DEF X, n
  <2> QED
    BY <1>1, <2>2, LaterIs
<1>4. \A k \in 1 .. n : c[k] # 0
  <2> DEFINE I == {k \in Nat : k < n => c[n - k] # 0}
  <2>1. 0 \in I
    BY <1>2
  <2>2. ASSUME NEW k \in Nat, k \in I PROVE k + 1 \in I
    <3> SUFFICES ASSUME k + 1 < n PROVE c[n - (k + 1)] # 0
      OBVIOUS
    <3>1. n - k \in 2 .. n /\ (n - k) - 1 = n - (k + 1) /\ c[n - k] # 0
      BY <1>2, <2>2
    <3> QED
      BY <1>3, <3>1
  <2>3. Nat \subseteq I
    <3> HIDE DEF I
    <3> QED
      BY <2>1, <2>2, SetInduction
  <2>4. \A k \in 1 .. n : n - k \in Nat /\ n - k < n /\ n - (n - k) = k
    BY <1>2
  <2> QED
    BY <2>3, <2>4
<1>5. c \in [1 .. n -> DOMAIN es]
  BY <1>1, <1>4 DEF X
<1>6. \A k \in 1 .. n : c[k] \in found[k]
  <2>1. \A k \in 1 .. n : k = 1 \/ k \in 2 .. n
    BY <1>2
  <2> QED
    BY <1>1, <1>3, <1>4, <2>1
<1>7. \A k \in 1 .. (n - 1) : Before(es, c[k], c[k + 1])
  <2>1. \A k \in 1 .. (n - 1) : k + 1 \in 2 .. n /\ k + 1 \in 1 .. n /\ (k + 1) - 1 = k
    BY <1>2
  <2> QED
    BY <1>3, <1>4, <2>1
<1> QED
  BY <1>5, <1>6, <1>7 DEF Follows, n, c

\* The chain from the same first event is never behind another.
LEMMA GreedyIsFirst ==
    ASSUME NEW es, Indexed(es), NEW found \in Seq(SUBSET DOMAIN es), found # <<>>,
           NEW d, Follows(es, found, d)
    PROVE  LET e == GreedyChain(es, found, d[1])[Len(found)]
           IN  e \in DOMAIN es /\ es[e].timestamp <= es[d[Len(found)]].timestamp
<1> DEFINE n == Len(found)
           c == GreedyChain(es, found, d[1])
<1>1. n \in Nat \ {0} /\ d[1] \in found[1]
  BY DEF Follows
<1>2. /\ c \in [1 .. n -> DOMAIN es \union {0}] /\ c[1] = d[1]
      /\ \A k \in 2 .. n : c[k] = Later(es, found, c[k - 1], k)
  BY <1>1, GreedyIs
<1>3. /\ \A k \in 1 .. n : d[k] \in DOMAIN es /\ d[k] \in found[k]
      /\ \A k \in 1 .. (n - 1) : Before(es, d[k], d[k + 1])
      /\ 0 \notin DOMAIN es
  BY DEF Follows, Indexed
<1> HIDE DEF n, c
<1> DEFINE Ahead(k) == c[k] # 0 /\ (c[k] = d[k] \/ Before(es, c[k], d[k]))
           I == {k \in Nat : k + 1 <= n => Ahead(k + 1)}
<1>4. 0 \in I
  BY <1>1, <1>2, <1>3
<1>5. ASSUME NEW k \in Nat, k \in I PROVE k + 1 \in I
  <2> SUFFICES ASSUME (k + 1) + 1 <= n PROVE Ahead((k + 1) + 1)
    OBVIOUS
  <2> DEFINE m == k + 1
  <2>1. /\ m \in 1 .. n /\ m + 1 \in 2 .. n /\ m + 1 \in 1 .. n /\ m \in 1 .. (n - 1)
        /\ (m + 1) - 1 = m /\ m + 1 \in 1 .. Len(found)
    BY <1>1 DEF n
  <2>2. Ahead(m)
    BY <1>5, <2>1
  <2> HIDE DEF m
  <2>3. c[m] \in DOMAIN es /\ d[m] \in DOMAIN es /\ d[m + 1] \in found[m + 1] /\ d[m + 1] \in DOMAIN es
    BY <1>2, <1>3, <2>1, <2>2
  <2>4. Before(es, d[m], d[m + 1])
    BY <1>3, <2>1
  <2>5. Before(es, c[m], d[m + 1])
    BY <2>2, <2>3, <2>4, BeforeOrders
  <2>6. c[m + 1] = Later(es, found, c[m], m + 1)
    BY <1>2, <2>1
  <2>7. Ahead(m + 1)
    BY <2>1, <2>2, <2>3, <2>5, <2>6, LaterIs
  <2> QED
    BY <2>7 DEF m
<1>6. Nat \subseteq I
  <2> HIDE DEF I
  <2> QED
    BY <1>4, <1>5, SetInduction
<1>7. Ahead(n)
  <2>1. n - 1 \in Nat /\ (n - 1) + 1 = n /\ n <= n
    BY <1>1
  <2>2. n - 1 \in I
    BY <1>6, <2>1
  <2> QED
    BY <2>1, <2>2
<1>8. c[n] \in DOMAIN es /\ d[n] \in DOMAIN es
  BY <1>1, <1>2, <1>3, <1>7
<1>9. es[c[n]].timestamp <= es[d[n]].timestamp
  <2>1. es[d[n]].timestamp \in Nat
    BY <1>8 DEF Indexed
  <2>2. CASE c[n] = d[n]
    BY <2>1, <2>2
  <2>3. CASE Before(es, c[n], d[n])
    BY <1>8, <2>3, BeforeOrders
  <2> QED
    BY <1>7, <2>2, <2>3
<1> QED
  BY <1>8, <1>9 DEF n, c

\* A sequence node finds something exactly when its steps are followed within the span.
LEMMA SequenceFindsExactly ==
    ASSUME NEW es, Indexed(es), NEW found \in Seq(SUBSET DOMAIN es), found # <<>>, NEW span \in Nat
    PROVE  /\ SequenceFinds(es, found, span) \subseteq DOMAIN es
           /\ SequenceFinds(es, found, span) # {} <=>
                 \E d \in [1 .. Len(found) -> DOMAIN es] :
                    Follows(es, found, d) /\ es[d[Len(found)]].timestamp - es[d[1]].timestamp <= span
<1> DEFINE n == Len(found)
           Kept(c) == c[n] # 0 /\ es[c[n]].timestamp <= es[c[1]].timestamp + span
           Chains == {c \in {GreedyChain(es, found, first) : first \in found[1]} : Kept(c)}
<1>1. n \in Nat \ {0}
  OBVIOUS
<1>2. SequenceFinds(es, found, span) = UNION {{c[k] : k \in 1 .. n} : c \in Chains}
  BY DEF SequenceFinds
<1>3. \A c \in Chains : Follows(es, found, c)
  BY GreedyFollows
<1>4. \A i, j \in DOMAIN es : es[i].timestamp <= es[j].timestamp + span
                              <=> es[i].timestamp - es[j].timestamp <= span
  <2> SUFFICES ASSUME NEW i \in DOMAIN es, NEW j \in DOMAIN es
               PROVE  es[i].timestamp <= es[j].timestamp + span <=> es[i].timestamp - es[j].timestamp <= span
    OBVIOUS
  <2>1. es[i].timestamp \in Nat /\ es[j].timestamp \in Nat
    BY DEF Indexed
  <2> QED
    BY <2>1
<1>5. \A c \in Chains : \A k \in 1 .. n : c[k] \in DOMAIN es
  BY <1>3 DEF Follows
<1>6. SequenceFinds(es, found, span) \subseteq DOMAIN es
  <2> HIDE DEF n, Chains
  <2> QED
    BY <1>2, <1>5
<1>7. ASSUME NEW c \in Chains
      PROVE  \E d \in [1 .. n -> DOMAIN es] :
                Follows(es, found, d) /\ es[d[n]].timestamp - es[d[1]].timestamp <= span
  <2>1. Follows(es, found, c) /\ c \in [1 .. n -> DOMAIN es] /\ c[n] \in DOMAIN es /\ c[1] \in DOMAIN es
    BY <1>1, <1>3, <1>5 DEF Follows
  <2>2. es[c[n]].timestamp - es[c[1]].timestamp <= span
    BY <1>4, <2>1
  <2> QED
    BY <2>1, <2>2
<1>8. ASSUME NEW d \in [1 .. n -> DOMAIN es], Follows(es, found, d),
             es[d[n]].timestamp - es[d[1]].timestamp <= span
      PROVE  Chains # {}
  <2> DEFINE c == GreedyChain(es, found, d[1])
  <2>1. d[1] \in found[1]
    BY <1>1, <1>8 DEF Follows
  <2>2. c[n] \in DOMAIN es /\ es[c[n]].timestamp <= es[d[n]].timestamp /\ c[1] = d[1]
    BY <1>8, <2>1, GreedyIsFirst, GreedyIs
  <2>3. c[n] # 0
    BY <2>2 DEF Indexed
  <2>4. d[1] \in DOMAIN es /\ d[n] \in DOMAIN es
    BY <1>1
  <2>5. es[c[n]].timestamp <= es[c[1]].timestamp + span
    <3>1. /\ es[c[n]].timestamp \in Nat /\ es[d[n]].timestamp \in Nat /\ es[d[1]].timestamp \in Nat
      BY <2>2, <2>4 DEF Indexed
    <3>2. es[d[n]].timestamp <= es[d[1]].timestamp + span
      BY <1>4, <1>8, <2>4
    <3> HIDE DEF c, n
    <3> QED
      BY <2>2, <3>1, <3>2
  <2>6. c \in Chains
    BY <2>1, <2>3, <2>5
  <2> QED
    BY <2>6
<1>9. SequenceFinds(es, found, span) # {} <=> Chains # {}
  <2>1. ASSUME NEW c \in Chains PROVE c[1] \in SequenceFinds(es, found, span)
    <3>1. 1 \in 1 .. n
      BY <1>1
    <3>2. c[1] \in {c[k] : k \in 1 .. n}
      BY <3>1
    <3> QED
      BY <1>2, <3>2
  <2>2. Chains = {} => SequenceFinds(es, found, span) = {}
    BY <1>2
  <2> QED
    BY <2>1, <2>2
<1> HIDE DEF Chains
<1> QED
  BY <1>6, <1>7, <1>8, <1>9

-----------------------------------------------------------------------------
(* Links.                                                                      *)

\* A path along the children.
Leads(children, i, j, len, p) ==
    /\ p \in [0 .. len -> DOMAIN children] /\ p[0] = i /\ p[len] = j
    /\ \A k \in 1 .. len : p[k] \in children[p[k - 1]]

Within(children, i, j, depth) ==
    \E len \in 1 .. depth : \E p \in [0 .. len -> DOMAIN children] : Leads(children, i, j, len, p)

\* What is within a depth is a child of the start or of what is within one less.
LEMMA WithinNext ==
    ASSUME NEW D, NEW children \in [D -> SUBSET D], NEW i \in D, NEW j \in D, NEW depth \in Nat
    PROVE  Within(children, i, j, depth + 1) <=>
              \E q \in D : (q = i \/ Within(children, i, q, depth)) /\ j \in children[q]
<1>1. ASSUME Within(children, i, j, depth + 1)
      PROVE  \E q \in D : (q = i \/ Within(children, i, q, depth)) /\ j \in children[q]
  <2>0. PICK len \in 1 .. (depth + 1) : \E p \in [0 .. len -> D] : Leads(children, i, j, len, p)
    BY <1>1 DEF Within
  <2>1. PICK p \in [0 .. len -> D] : Leads(children, i, j, len, p)
    BY <2>0
  <2>2. len - 1 \in 0 .. len /\ len \in 1 .. len
    OBVIOUS
  <2>3. p[len - 1] \in D /\ j \in children[p[len - 1]]
    BY <2>1, <2>2 DEF Leads
  <2>4. CASE len = 1
    <3>1. p[len - 1] = i
      BY <2>1, <2>4 DEF Leads
    <3> QED
      BY <2>3, <3>1
  <2>5. CASE len # 1
    <3> DEFINE h == [k \in 0 .. (len - 1) |-> p[k]]
    <3>1. len - 1 \in 1 .. depth /\ \A k \in 0 .. (len - 1) : k \in 0 .. len
      BY <2>5
    <3>2. h \in [0 .. (len - 1) -> D] /\ \A k \in 0 .. (len - 1) : h[k] = p[k]
      BY <3>1
    <3>3. h[0] = i /\ h[len - 1] = p[len - 1]
      BY <2>1, <3>1, <3>2 DEF Leads
    <3>4. ASSUME NEW k \in 1 .. (len - 1) PROVE h[k] \in children[h[k - 1]]
      <4>1. k \in 0 .. (len - 1) /\ k - 1 \in 0 .. (len - 1) /\ k \in 1 .. len
        OBVIOUS
      <4> QED
        BY <2>1, <3>2, <4>1 DEF Leads
    <3> HIDE DEF h
    <3>5. Leads(children, i, p[len - 1], len - 1, h)
      BY <3>2, <3>3, <3>4 DEF Leads
    <3>6. Within(children, i, p[len - 1], depth)
      BY <3>1, <3>2, <3>5 DEF Within
    <3> QED
      BY <2>3, <3>6
  <2> QED
    BY <2>4, <2>5
<1>2. ASSUME NEW q \in D, q = i, j \in children[q] PROVE Within(children, i, j, depth + 1)
  <2> DEFINE h == [k \in 0 .. 1 |-> IF k = 0 THEN i ELSE j]
  <2>1. h \in [0 .. 1 -> D] /\ h[0] = i /\ h[1] = j
    OBVIOUS
  <2>2. \A k \in 1 .. 1 : h[k] \in children[h[k - 1]]
    BY <1>2, <2>1
  <2> HIDE DEF h
  <2>3. Leads(children, i, j, 1, h) /\ 1 \in 1 .. (depth + 1)
    BY <2>1, <2>2 DEF Leads
  <2> QED
    BY <2>1, <2>3 DEF Within
<1>3. ASSUME NEW q \in D, Within(children, i, q, depth), j \in children[q]
      PROVE  Within(children, i, j, depth + 1)
  <2>0. PICK len \in 1 .. depth : \E p \in [0 .. len -> D] : Leads(children, i, q, len, p)
    BY <1>3 DEF Within
  <2>1. PICK p \in [0 .. len -> D] : Leads(children, i, q, len, p)
    BY <2>0
  <2> DEFINE h == [k \in 0 .. (len + 1) |-> IF k = len + 1 THEN j ELSE p[k]]
  <2>2. len + 1 \in 1 .. (depth + 1) /\ \A k \in 0 .. (len + 1) : k = len + 1 \/ k \in 0 .. len
    OBVIOUS
  <2>3. h \in [0 .. (len + 1) -> D] /\ h[len + 1] = j /\ \A k \in 0 .. len : h[k] = p[k]
    BY <2>2
  <2> HIDE DEF h
  <2>4. h[0] = i
    BY <2>1, <2>3 DEF Leads
  <2>5. ASSUME NEW k \in 1 .. (len + 1) PROVE h[k] \in children[h[k - 1]]
    <3>1. CASE k = len + 1
      <4>1. k - 1 = len /\ len \in 0 .. len
        BY <3>1
      <4> QED
        BY <1>3, <2>1, <2>3, <3>1, <4>1 DEF Leads
    <3>2. CASE k # len + 1
      <4>1. k \in 1 .. len /\ k \in 0 .. len /\ k - 1 \in 0 .. len
        BY <3>2
      <4> QED
        BY <2>1, <2>3, <4>1 DEF Leads
    <3> QED
      BY <3>1, <3>2
  <2>6. Leads(children, i, j, len + 1, h)
    BY <2>3, <2>4, <2>5 DEF Leads
  <2> QED
    BY <2>2, <2>3, <2>6 DEF Within
<1> QED
  BY <1>1, <1>2, <1>3

LEMMA WithinMore ==
    ASSUME NEW children, NEW i, NEW j, NEW depth \in Nat
    PROVE  /\ ~Within(children, i, j, 0)
           /\ Within(children, i, j, depth) => Within(children, i, j, depth + 1)
<1>1. 1 .. 0 = {} /\ 1 .. depth \subseteq 1 .. (depth + 1)
  OBVIOUS
<1> QED
  BY <1>1 DEF Within

\* The walk of Descendants, depth by depth.
Walks(D, root, children, n, w) ==
    /\ w \in [0 .. n -> [frontier : SUBSET D, observed : SUBSET D]]
    /\ w[0] = [frontier |-> {root}, observed |-> {}]
    /\ \A d \in 1 .. n :
          LET next == (UNION {children[p] : p \in w[d - 1].frontier}) \ w[d - 1].observed
          IN  w[d] = [frontier |-> next, observed |-> w[d - 1].observed \union next]

LEMMA DescendantsAre ==
    ASSUME NEW D, NEW children \in [D -> SUBSET D], NEW root \in D, NEW n \in Nat
    PROVE  \E w : Walks(D, root, children, n, w) /\ Descendants(root, children, n) = w[n].observed
<1> DEFINE X == [frontier : SUBSET D, observed : SUBSET D]
           start == [frontier |-> {root}, observed |-> {}]
           Next1(x) == LET next == (UNION {children[p] : p \in x.frontier}) \ x.observed
                       IN  [frontier |-> next, observed |-> x.observed \union next]
           g == [p \in X \X Nat |-> Next1(p[1])]
           Body(h) == [d \in 0 .. n |->
                          IF d = 0 THEN [frontier |-> {root}, observed |-> {}]
                          ELSE LET next == (UNION {children[p] : p \in h[d - 1].frontier}) \ h[d - 1].observed
                               IN  [frontier |-> next, observed |-> h[d - 1].observed \union next]]
           walk == CHOOSE h : h = Body(h)
<1>1. start \in X
  OBVIOUS
<1>2. \A x \in X : Next1(x) \in X
  <2> SUFFICES ASSUME NEW x \in X PROVE Next1(x) \in X
    OBVIOUS
  <2>1. \A p \in x.frontier : children[p] \subseteq D
    OBVIOUS
  <2>2. (UNION {children[p] : p \in x.frontier}) \ x.observed \in SUBSET D
    BY <2>1
  <2> QED
    BY <2>2
<1>3. g \in [X \X Nat -> X] /\ \A x \in X, d \in Nat : g[<<x, d>>] = Next1(x)
  BY <1>2
<1>4. Descendants(root, children, n) = walk[n].observed
  BY DEF Descendants
<1>5. \A h : Body(h) = [d \in 0 .. n |-> IF d = 0 THEN start ELSE Next1(h[d - 1])]
  OBVIOUS
<1> HIDE DEF Next1, start, g, Body
<1>6. PICK r : Iterates(X, start, g, n, r)
  <2> HIDE DEF X
  <2> QED
    BY <1>1, <1>3, Recursion
<1>7. r \in [0 .. n -> X] /\ r[0] = start /\ \A d \in 1 .. n : r[d] = Next1(r[d - 1])
  <2> HIDE DEF X
  <2>1. r \in [0 .. n -> X] /\ r[0] = start /\ \A d \in 1 .. n : r[d] = g[<<r[d - 1], d>>]
    BY <1>6 DEF Iterates
  <2>2. \A d \in 1 .. n : d - 1 \in 0 .. n /\ d \in Nat
    OBVIOUS
  <2> QED
    BY <1>3, <2>1, <2>2
<1>8. r = Body(r)
  <2> DEFINE h == [d \in 0 .. n |-> IF d = 0 THEN start ELSE Next1(r[d - 1])]
  <2>1. \A d \in 0 .. n : d = 0 \/ d \in 1 .. n
    OBVIOUS
  <2>2. \A d \in 0 .. n : r[d] = h[d]
    BY <1>7, <2>1
  <2>3. r = h
    BY <1>7, <2>2
  <2> QED
    BY <1>5, <2>3
<1>9. walk = Body(walk)
  BY <1>8
<1> HIDE DEF walk
<1>10. /\ DOMAIN walk = 0 .. n /\ walk = [d \in 0 .. n |-> walk[d]]
       /\ \A d \in 0 .. n : walk[d] = IF d = 0 THEN start ELSE Next1(walk[d - 1])
  BY <1>5, <1>9
<1>11. walk[0] = start /\ \A d \in 1 .. n : walk[d] = Next1(walk[d - 1])
  <2>1. 0 \in 0 .. n /\ \A d \in 1 .. n : d \in 0 .. n /\ d # 0
    OBVIOUS
  <2> QED
    BY <1>10, <2>1
<1>12. \A d \in 0 .. n : walk[d] \in X
  <2> HIDE DEF X
  <2> DEFINE I == {d \in Nat : d <= n => walk[d] \in X}
  <2>1. 0 \in I
    BY <1>1, <1>11
  <2>2. ASSUME NEW d \in Nat, d \in I PROVE d + 1 \in I
    <3> SUFFICES ASSUME d + 1 <= n PROVE walk[d + 1] \in X
      OBVIOUS
    <3>1. d + 1 \in 1 .. n /\ (d + 1) - 1 = d /\ walk[d] \in X
      BY <2>2
    <3> QED
      BY <1>2, <1>11, <3>1
  <2>3. Nat \subseteq I
    <3> HIDE DEF I
    <3> QED
      BY <2>1, <2>2, SetInduction
  <2> QED
    BY <2>3
<1>13. Walks(D, root, children, n, walk)
  <2>1. walk \in [0 .. n -> X]
    BY <1>10, <1>12
  <2> QED
    BY <1>11, <2>1 DEF Walks, start, Next1
<1> QED
  BY <1>4, <1>13

\* Breadth first or not: the descendants are what is within the depth.
LEMMA DescendantsExactly ==
    ASSUME NEW D, NEW children \in [D -> SUBSET D], NEW root \in D, NEW n \in Nat
    PROVE  Descendants(root, children, n) = {j \in D : Within(children, root, j, n)}
<1> DEFINE R(d) == {j \in D : Within(children, root, j, d)}
<1>1. PICK w : Walks(D, root, children, n, w) /\ Descendants(root, children, n) = w[n].observed
  BY DescendantsAre
<1>2. R(0) = {} /\ \A d \in Nat : R(d) \subseteq R(d + 1)
  BY WithinMore
<1>3. \A d \in Nat : \A j \in D : j \in R(d + 1) <=> \E q \in R(d) \union {root} : j \in children[q]
  <2> SUFFICES ASSUME NEW d \in Nat, NEW j \in D
               PROVE  Within(children, root, j, d + 1) <=> \E q \in R(d) \union {root} : j \in children[q]
    OBVIOUS
  <2>1. Within(children, root, j, d + 1) <=>
           \E q \in D : (q = root \/ Within(children, root, q, d)) /\ j \in children[q]
    BY WithinNext
  <2> QED
    BY <2>1
<1>4. \A d \in Nat : R(d) \subseteq D
  OBVIOUS
<1> HIDE DEF R
<1> DEFINE Right(d) == /\ w[d].observed = R(d)
                       /\ w[d].frontier = IF d = 0 THEN {root} ELSE R(d) \ R(d - 1)
           I == {d \in Nat : d <= n => Right(d)}
<1>5. 0 \in I
  <2>1. w[0].observed = {} /\ w[0].frontier = {root}
    BY <1>1 DEF Walks
  <2> QED
    BY <1>2, <2>1
<1>6. ASSUME NEW d \in Nat, d \in I PROVE d + 1 \in I
  <2> SUFFICES ASSUME d + 1 <= n PROVE Right(d + 1)
    OBVIOUS
  <2> DEFINE next == (UNION {children[p] : p \in w[d].frontier}) \ w[d].observed
  <2>1. Right(d) /\ d + 1 \in 1 .. n /\ (d + 1) - 1 = d /\ d + 1 # 0
    BY <1>6
  <2>2. w[d + 1].frontier = next /\ w[d + 1].observed = w[d].observed \union next
    <3>1. \A m \in 1 .. n :
             LET new == (UNION {children[p] : p \in w[m - 1].frontier}) \ w[m - 1].observed
             IN  w[m] = [frontier |-> new, observed |-> w[m - 1].observed \union new]
      BY <1>1 DEF Walks
    <3>2. w[d + 1] = [frontier |-> next, observed |-> w[d].observed \union next]
      BY <2>1, <3>1
    <3> HIDE DEF next
    <3> QED
      BY <3>2
  <2>3. next \subseteq R(d + 1) \ R(d)
    <3> SUFFICES ASSUME NEW p \in w[d].frontier, NEW j \in children[p], j \notin R(d) PROVE j \in R(d + 1)
      BY <2>1
    <3>1. p \in R(d) \union {root}
      BY <2>1
    <3>2. p \in D
      BY <1>4, <3>1
    <3> QED
      BY <1>3, <3>1, <3>2
  <2>4. R(d + 1) \ R(d) \subseteq next
    <3> SUFFICES ASSUME NEW j \in R(d + 1), j \notin R(d) PROVE \E p \in w[d].frontier : j \in children[p]
      BY <2>1
    <3>1. j \in D
      BY <1>4, <2>1
    <3>2. PICK q \in R(d) \union {root} : j \in children[q]
      BY <1>3, <3>1
    <3>3. CASE d = 0
      BY <1>2, <2>1, <3>2, <3>3
    <3>4. CASE d # 0
      <4>1. d - 1 \in Nat /\ (d - 1) + 1 = d
        BY <3>4
      <4>2. q \notin R(d - 1) \union {root}
        BY <1>3, <3>1, <3>2, <4>1
      <4> QED
        BY <2>1, <3>2, <3>4, <4>2
    <3> QED
      BY <3>3, <3>4
  <2> HIDE DEF next
  <2>5. next = R(d + 1) \ R(d)
    BY <2>3, <2>4
  <2> QED
    BY <1>2, <2>1, <2>2, <2>5
<1>7. n \in I
  <2> HIDE DEF I
  <2> QED
    BY <1>5, <1>6, SetInduction
<1>8. w[n].observed = R(n)
  BY <1>7
<1> QED
  BY <1>1, <1>8 DEF R

\* What goes on from each result goes on from all of them.
LEMMA GoesFrom ==
    ASSUME NEW X, NEW x \in X, NEW g \in [X \X Nat -> X], NEW n \in Nat \ {0},
           NEW c, c = [k \in 1 .. n |-> c[k]], c[1] = x,
           \A k \in 2 .. n : c[k - 1] \in X => c[k] = g[<<c[k - 1], k>>]
    PROVE  Goes(X, x, g, n, c)
<1> DEFINE I == {k \in Nat : k + 1 <= n => c[k + 1] \in X}
<1>1. 0 \in I
  OBVIOUS
<1>2. ASSUME NEW k \in Nat, k \in I PROVE k + 1 \in I
  <2> SUFFICES ASSUME (k + 1) + 1 <= n PROVE c[(k + 1) + 1] \in X
    OBVIOUS
  <2>1. (k + 1) + 1 \in 2 .. n /\ (k + 1) + 1 \in Nat /\ ((k + 1) + 1) - 1 = k + 1 /\ c[k + 1] \in X
    BY <1>2
  <2> QED
    BY <2>1
<1>3. Nat \subseteq I
  <2> HIDE DEF I
  <2> QED
    BY <1>1, <1>2, SetInduction
<1>4. \A k \in 1 .. n : c[k] \in X
  <2>1. \A k \in 1 .. n : k - 1 \in Nat /\ (k - 1) + 1 = k /\ k <= n
    OBVIOUS
  <2> QED
    BY <1>3, <2>1
<1>5. \A k \in 2 .. n : c[k] = g[<<c[k - 1], k>>]
  <2>1. \A k \in 2 .. n : k - 1 \in 1 .. n
    OBVIOUS
  <2> QED
    BY <1>4, <2>1
<1>6. c \in [1 .. n -> X]
  BY <1>4
<1> QED
  BY <1>5, <1>6 DEF Goes

-----------------------------------------------------------------------------
(* graph_path.                                                                 *)

LEMMA ChildrenAre == ASSUME NEW es, NEW links
                     PROVE  ChildrenOf(es, links) \in [DOMAIN es -> SUBSET DOMAIN es]
BY DEF ChildrenOf

\* The frontier that follows.
Reach(found, children, maxDepth, frontier, k) ==
    UNION {Descendants(p, children, maxDepth) \intersect found[k] : p \in frontier}

Reached(D, found, children, depth, root, f) ==
    /\ f \in [1 .. Len(found) -> SUBSET D] /\ f[1] = {root}
    /\ \A k \in 2 .. Len(found) : f[k] = Reach(found, children, depth, f[k - 1], k)

LEMMA FrontiersAre ==
    ASSUME NEW D, NEW found \in Seq(SUBSET D), found # <<>>, NEW children, NEW depth, NEW root \in found[1]
    PROVE  Reached(D, found, children, depth, root, Frontiers(found, children, depth, root))
<1> DEFINE n == Len(found)
           X == SUBSET D
           g == [p \in X \X Nat |-> IF p[2] \in 1 .. n THEN Reach(found, children, depth, p[1], p[2]) ELSE {}]
           Body(h) == [k \in 1 .. n |->
                          IF k = 1 THEN {root}
                          ELSE UNION {Descendants(p, children, depth) \intersect found[k] : p \in h[k - 1]}]
           f == CHOOSE h : h = Body(h)
<1>1. n \in Nat \ {0} /\ {root} \in X /\ \A k \in 1 .. n : found[k] \subseteq D
  OBVIOUS
<1>2. \A x \in X, k \in 1 .. n : Reach(found, children, depth, x, k) \in X
  BY <1>1 DEF Reach
<1>3. g \in [X \X Nat -> X]
  BY <1>2
<1>4. \A x \in X, k \in 1 .. n : g[<<x, k>>] = Reach(found, children, depth, x, k)
  OBVIOUS
<1>5. Frontiers(found, children, depth, root) = f
  BY DEF Frontiers
<1>6. \A h : Body(h) = [k \in 1 .. n |-> IF k = 1 THEN {root} ELSE Reach(found, children, depth, h[k - 1], k)]
  BY DEF Reach
<1>7. /\ \A k \in 1 .. n : k = 1 \/ k \in 2 .. n
      /\ \A k \in 2 .. n : k \in 1 .. n /\ k # 1 /\ k - 1 \in 1 .. n
      /\ 1 \in 1 .. n
  BY <1>1
<1> HIDE DEF n, X, g, Body
<1>8. PICK r : Goes(X, {root}, g, n, r)
  BY <1>1, <1>3, GoesOn
<1>9. r \in [1 .. n -> X] /\ r[1] = {root} /\ \A k \in 2 .. n : r[k] = g[<<r[k - 1], k>>]
  BY <1>8 DEF Goes
<1>10. \A k \in 2 .. n : r[k] = Reach(found, children, depth, r[k - 1], k)
  BY <1>4, <1>7, <1>9
<1>11. r = Body(r)
  <2> DEFINE h == [k \in 1 .. n |-> IF k = 1 THEN {root} ELSE Reach(found, children, depth, r[k - 1], k)]
  <2>1. \A k \in 1 .. n : r[k] = h[k]
    BY <1>7, <1>9, <1>10
  <2>2. r = h
    BY <1>9, <2>1
  <2> QED
    BY <1>6, <2>2
<1>12. f = Body(f)
  BY <1>11
<1> HIDE DEF f
<1>13. /\ f = [k \in 1 .. n |-> f[k]]
       /\ \A k \in 1 .. n : f[k] = IF k = 1 THEN {root} ELSE Reach(found, children, depth, f[k - 1], k)
  BY <1>6, <1>12
<1>14. f[1] = {root} /\ \A k \in 2 .. n : f[k] = Reach(found, children, depth, f[k - 1], k)
  BY <1>7, <1>13
<1>15. Goes(X, {root}, g, n, f)
  <2>1. \A k \in 2 .. n : f[k - 1] \in X => f[k] = g[<<f[k - 1], k>>]
    BY <1>4, <1>7, <1>14
  <2> QED
    BY <1>1, <1>3, <1>13, <1>14, <2>1, GoesFrom
<1>16. f \in [1 .. n -> X]
  BY <1>15 DEF Goes
<1> QED
  BY <1>5, <1>14, <1>16 DEF n, X, Reached

\* Events for each step, each within the depth of the one before.
Links(D, found, children, depth, n, c) ==
    /\ c \in [1 .. n -> D]
    /\ \A k \in 1 .. n : c[k] \in found[k]
    /\ \A k \in 1 .. (n - 1) : Within(children, c[k], c[k + 1], depth)

\* Whatever is linked from the root is in its frontiers.
LEMMA FrontiersHold ==
    ASSUME NEW D, NEW children \in [D -> SUBSET D], NEW depth \in Nat,
           NEW found \in Seq(SUBSET D), found # <<>>,
           NEW c, Links(D, found, children, depth, Len(found), c)
    PROVE  \A k \in 1 .. Len(found) : c[k] \in Frontiers(found, children, depth, c[1])[k]
<1> DEFINE n == Len(found)
           f == Frontiers(found, children, depth, c[1])
           I == {k \in Nat : k + 1 <= n => c[k + 1] \in f[k + 1]}
<1>1. n \in Nat \ {0} /\ c[1] \in found[1]
  BY DEF Links
<1>2. f[1] = {c[1]} /\ \A k \in 2 .. n : f[k] = Reach(found, children, depth, f[k - 1], k)
  <2>1. Reached(D, found, children, depth, c[1], f)
    BY <1>1, FrontiersAre
  <2> QED
    BY <2>1 DEF Reached
<1>3. /\ \A k \in 1 .. n : c[k] \in D /\ c[k] \in found[k]
      /\ \A k \in 1 .. (n - 1) : Within(children, c[k], c[k + 1], depth)
  BY DEF Links
<1> HIDE DEF n, f
<1>4. 0 \in I
  BY <1>2
<1>5. ASSUME NEW k \in Nat, k \in I PROVE k + 1 \in I
  <2> SUFFICES ASSUME (k + 1) + 1 <= n PROVE c[(k + 1) + 1] \in f[(k + 1) + 1]
    OBVIOUS
  <2>1. /\ (k + 1) + 1 \in 2 .. n /\ (k + 1) + 1 \in 1 .. n /\ ((k + 1) + 1) - 1 = k + 1
        /\ k + 1 \in 1 .. (n - 1) /\ k + 1 \in 1 .. n /\ c[k + 1] \in f[k + 1]
    BY <1>1, <1>5
  <2>2. c[(k + 1) + 1] \in Descendants(c[k + 1], children, depth)
    BY <1>3, <2>1, DescendantsExactly
  <2> QED
    BY <1>2, <1>3, <2>1, <2>2 DEF Reach
<1>6. Nat \subseteq I
  <2> HIDE DEF I
  <2> QED
    BY <1>4, <1>5, SetInduction
<1>7. \A k \in 1 .. n : k - 1 \in Nat /\ (k - 1) + 1 = k /\ k <= n
  BY <1>1
<1>8. \A k \in 1 .. n : c[k] \in f[k]
  BY <1>6, <1>7
<1> QED
  BY <1>8 DEF n, f

\* Whatever is in a frontier is linked from the root.
LEMMA FrontiersAreLinked ==
    ASSUME NEW D, NEW children \in [D -> SUBSET D], NEW depth \in Nat,
           NEW found \in Seq(SUBSET D), found # <<>>, NEW root \in found[1],
           NEW j \in Frontiers(found, children, depth, root)[Len(found)]
    PROVE  \E c \in [1 .. Len(found) -> D] : Links(D, found, children, depth, Len(found), c)
<1> DEFINE n == Len(found)
           f == Frontiers(found, children, depth, root)
           Linked(k, i) == \E c \in [1 .. k -> D] : Links(D, found, children, depth, k, c) /\ c[k] = i
           I == {k \in Nat : k + 1 <= n => \A i \in f[k + 1] : Linked(k + 1, i)}
<1>1. n \in Nat \ {0} /\ \A k \in 1 .. n : found[k] \subseteq D
  OBVIOUS
<1>2. /\ f \in [1 .. n -> SUBSET D] /\ f[1] = {root}
      /\ \A k \in 2 .. n : f[k] = Reach(found, children, depth, f[k - 1], k)
  <2>1. Reached(D, found, children, depth, root, f)
    BY FrontiersAre
  <2> QED
    BY <2>1 DEF Reached
<1> HIDE DEF n, f
<1>3. 0 \in I
  <2> DEFINE c == [k \in 1 .. 1 |-> root]
  <2>1. root \in D
    BY <1>1
  <2>2. c \in [1 .. 1 -> D] /\ c[1] = root /\ 1 .. (1 - 1) = {}
    BY <2>1
  <2>3. \A k \in 1 .. 1 : k = 1
    OBVIOUS
  <2> HIDE DEF c
  <2>4. Links(D, found, children, depth, 1, c)
    BY <2>2, <2>3 DEF Links
  <2> QED
    BY <1>2, <2>2, <2>4
<1>4. ASSUME NEW k \in Nat, k \in I PROVE k + 1 \in I
  <2> DEFINE m == k + 1
  <2> SUFFICES ASSUME m + 1 <= n, NEW i \in f[m + 1] PROVE Linked(m + 1, i)
    OBVIOUS
  <2>1. /\ m \in Nat \ {0} /\ m + 1 \in 2 .. n /\ m + 1 \in 1 .. n /\ m \in 1 .. n /\ (m + 1) - 1 = m
    BY <1>1
  <2>2. \A q \in f[m] : Linked(m, q)
    BY <1>1, <1>4, <2>1
  <2> HIDE DEF m, Linked
  <2>3. PICK q \in f[m] : i \in Descendants(q, children, depth) \intersect found[m + 1]
    BY <1>2, <2>1 DEF Reach
  <2>4. q \in D /\ i \in D /\ i \in found[m + 1]
    BY <1>1, <1>2, <2>1, <2>3
  <2>5. Within(children, q, i, depth)
    BY <2>3, <2>4, DescendantsExactly
  <2>6. PICK c \in [1 .. m -> D] : Links(D, found, children, depth, m, c) /\ c[m] = q
    BY <2>2 DEF Linked
  <2> DEFINE h == [l \in 1 .. (m + 1) |-> IF l = m + 1 THEN i ELSE c[l]]
  <2>7. \A l \in 1 .. (m + 1) : l = m + 1 \/ l \in 1 .. m
    BY <2>1
  <2>8. h \in [1 .. (m + 1) -> D] /\ h[m + 1] = i /\ \A l \in 1 .. m : h[l] = c[l]
    BY <2>1, <2>4, <2>7
  <2> HIDE DEF h
  <2>9. \A l \in 1 .. (m + 1) : h[l] \in found[l]
    BY <2>4, <2>6, <2>7, <2>8 DEF Links
  <2>10. ASSUME NEW l \in 1 .. ((m + 1) - 1) PROVE Within(children, h[l], h[l + 1], depth)
    <3>1. l \in 1 .. m /\ m \in 1 .. m
      BY <2>1
    <3>2. CASE l = m
      BY <2>5, <2>6, <2>8, <3>1, <3>2
    <3>3. CASE l # m
      <4>1. l \in 1 .. (m - 1) /\ l + 1 \in 1 .. m
        BY <2>1, <3>3
      <4> QED
        BY <2>6, <2>8, <3>1, <4>1 DEF Links
    <3> QED
      BY <3>2, <3>3
  <2>11. Links(D, found, children, depth, m + 1, h)
    BY <2>8, <2>9, <2>10 DEF Links
  <2> QED
    BY <2>8, <2>11 DEF Linked
<1>5. n - 1 \in I
  <2>1. Nat \subseteq I
    <3> HIDE DEF I
    <3> QED
      BY <1>3, <1>4, SetInduction
  <2>2. n - 1 \in Nat
    BY <1>1
  <2> HIDE DEF I
  <2> QED
    BY <2>1, <2>2
<1>6. (n - 1) + 1 = n /\ n <= n
  BY <1>1
<1>7. Linked(n, j)
  BY <1>5, <1>6 DEF f, n
<1> QED
  BY <1>7 DEF n

\* A graph_path node finds something exactly when its steps are linked.
LEMMA PathFindsExactly ==
    ASSUME NEW es, NEW found \in Seq(SUBSET DOMAIN es), found # <<>>, NEW links, NEW depth \in Nat
    PROVE  /\ PathFinds(es, found, links, depth) \subseteq DOMAIN es
           /\ PathFinds(es, found, links, depth) # {} <=>
                 \E c \in [1 .. Len(found) -> DOMAIN es] :
                    Links(DOMAIN es, found, ChildrenOf(es, links), depth, Len(found), c)
           /\ \A c : Links(DOMAIN es, found, ChildrenOf(es, links), depth, Len(found), c) =>
                 \A k \in 1 .. Len(found) : c[k] \in PathFinds(es, found, links, depth)
<1> DEFINE n == Len(found)
           D == DOMAIN es
           children == ChildrenOf(es, links)
           F(r) == Frontiers(found, children, depth, r)
           All == {f \in {F(r) : r \in found[1]} : f[n] # {}}
<1>1. n \in Nat \ {0} /\ n \in 1 .. n /\ 1 \in 1 .. n
  OBVIOUS
<1>2. children \in [D -> SUBSET D]
  BY ChildrenAre
<1>3. PathFinds(es, found, links, depth) = UNION {UNION {f[k] : k \in 1 .. n} : f \in All}
  BY DEF PathFinds
<1>4. \A r \in found[1] : F(r) \in [1 .. n -> SUBSET D]
  <2>1. \A r \in found[1] : Reached(D, found, children, depth, r, F(r))
    BY FrontiersAre
  <2> QED
    BY <2>1 DEF Reached
<1>5. ASSUME NEW c, Links(D, found, children, depth, n, c)
      PROVE  F(c[1]) \in All /\ \A k \in 1 .. n : c[k] \in F(c[1])[k]
  <2>1. c[1] \in found[1]
    BY <1>1, <1>5 DEF Links
  <2>2. \A k \in 1 .. n : c[k] \in F(c[1])[k]
    BY <1>2, <1>5, FrontiersHold
  <2> QED
    BY <1>1, <2>1, <2>2
<1>6. ASSUME NEW f \in All PROVE \E c \in [1 .. n -> D] : Links(D, found, children, depth, n, c)
  <2>1. PICK r \in found[1] : f = F(r)
    OBVIOUS
  <2>2. PICK j : j \in F(r)[n]
    BY <2>1
  <2> QED
    BY <1>2, <2>2, FrontiersAreLinked
<1>7. \A f \in All : f[n] # {} /\ f \in [1 .. n -> SUBSET D]
  BY <1>4
<1> HIDE DEF n, D, children, F, All
<1>8. PathFinds(es, found, links, depth) \subseteq D
  <2>1. \A f \in All, k \in 1 .. n : f[k] \subseteq D
    BY <1>7
  <2> QED
    BY <1>3, <2>1
<1>9. ASSUME NEW f \in All, NEW k \in 1 .. n, NEW i \in f[k] PROVE i \in PathFinds(es, found, links, depth)
  BY <1>3, <1>9
<1>10. PathFinds(es, found, links, depth) # {} <=> All # {}
  <2>1. All = {} => PathFinds(es, found, links, depth) = {}
    BY <1>3
  <2>2. ASSUME NEW f \in All PROVE PathFinds(es, found, links, depth) # {}
    <3>1. PICK i : i \in f[n]
      BY <1>7
    <3> QED
      BY <1>1, <1>9, <3>1
  <2> QED
    BY <2>1, <2>2
<1>11. All # {} <=> \E c \in [1 .. n -> D] : Links(D, found, children, depth, n, c)
  BY <1>5, <1>6
<1> QED
  BY <1>5, <1>8, <1>9, <1>10, <1>11 DEF n, D, children

-----------------------------------------------------------------------------
(* causal_graph.                                                               *)

\* The child that a chain goes on from.
Kid(es, found, link, last, k) ==
    LET kids == {j \in found[k] : /\ link # "caused_by_event_ids" /\ last # 0
                                  /\ es[last].source_record_id # None
                                  /\ es[j][link] = es[last].source_record_id}
    IN  IF kids = {} THEN 0 ELSE First(found[k], kids)

IsKid(es, link, p, c) ==
    /\ link # "caused_by_event_ids" /\ p # 0 /\ es[p].source_record_id # None
    /\ es[c][link] = es[p].source_record_id

\* The first of some members is one of them.
LEMMA FirstIs ==
    ASSUME NEW S \in SUBSET (1 .. MaxEvents), NEW some \in SUBSET S, some # {}
    PROVE  First(S, some) \in some
<1> DEFINE place == Iterated[S]
           places == {place[i] : i \in some}
<1>1. place \in [S -> Nat]
  BY IterationAssumption DEF IterationAssumption
<1> HIDE DEF place
<1>2. places \in SUBSET Nat /\ places # {}
  BY <1>1
<1>3. PICK p \in places : \A q \in places : p <= q
  <2> HIDE DEF places
  <2> QED
    BY <1>2, SmallestNumber
<1>4. \E i \in some : \A j \in some : place[i] <= place[j]
  BY <1>3
<1> QED
  BY <1>4 DEF First, place

LEMMA KidIs ==
    ASSUME NEW es, Indexed(es), NEW found \in Seq(SUBSET DOMAIN es), NEW link, NEW k \in 1 .. Len(found),
           NEW last \in DOMAIN es \union {0}
    PROVE  /\ Kid(es, found, link, last, k) \in found[k] \union {0}
           /\ Kid(es, found, link, last, k) # 0 => IsKid(es, link, last, Kid(es, found, link, last, k))
           /\ \A j \in found[k] : IsKid(es, link, last, j) => Kid(es, found, link, last, k) # 0
<1> DEFINE kids == {j \in found[k] : IsKid(es, link, last, j)}
<1>1. 0 \notin kids /\ kids \subseteq found[k] /\ found[k] \subseteq DOMAIN es
  BY DEF Indexed
<1>2. CASE kids = {}
  BY <1>2 DEF Kid, IsKid
<1>3. CASE kids # {}
  <2>1. Kid(es, found, link, last, k) = First(found[k], kids)
    BY <1>3 DEF Kid, IsKid
  <2>2. found[k] \in SUBSET (1 .. MaxEvents)
    BY <1>1 DEF Indexed
  <2>3. First(found[k], kids) \in kids
    <3> HIDE DEF kids
    <3> QED
      BY <1>1, <1>3, <2>2, FirstIs
  <2> QED
    BY <1>1, <2>1, <2>3
<1> QED
  BY <1>2, <1>3

LEMMA CausalIs ==
    ASSUME NEW es, Indexed(es), NEW found \in Seq(SUBSET DOMAIN es), found # <<>>, NEW link, NEW root \in found[1]
    PROVE  LET c == CausalChain(es, found, root, link)
           IN  /\ c \in [1 .. Len(found) -> DOMAIN es \union {0}] /\ c[1] = root
               /\ \A k \in 2 .. Len(found) : c[k] = Kid(es, found, link, c[k - 1], k)
<1> DEFINE n == Len(found)
           X == DOMAIN es \union {0}
           g == [p \in X \X Nat |-> IF p[2] \in 1 .. n THEN Kid(es, found, link, p[1], p[2]) ELSE 0]
           Body(h) == [k \in 1 .. n |->
                          LET kids == {j \in found[k] : /\ link # "caused_by_event_ids" /\ h[k - 1] # 0
                                                        /\ es[h[k - 1]].source_record_id # None
                                                        /\ es[j][link] = es[h[k - 1]].source_record_id}
                          IN  IF k = 1 THEN root ELSE IF kids = {} THEN 0 ELSE First(found[k], kids)]
           c == CHOOSE h : h = Body(h)
<1>1. n \in Nat \ {0} /\ root \in X /\ \A k \in 1 .. n : found[k] \subseteq DOMAIN es
  OBVIOUS
<1>2. \A x \in X, k \in 1 .. n : Kid(es, found, link, x, k) \in X
  BY <1>1, KidIs
<1>3. g \in [X \X Nat -> X]
  BY <1>2
<1>4. \A x \in X, k \in 1 .. n : g[<<x, k>>] = Kid(es, found, link, x, k)
  OBVIOUS
<1>5. CausalChain(es, found, root, link) = c
  BY DEF CausalChain
<1>6. \A h : Body(h) = [k \in 1 .. n |-> IF k = 1 THEN root ELSE Kid(es, found, link, h[k - 1], k)]
  BY DEF Kid
<1>7. /\ \A k \in 1 .. n : k = 1 \/ k \in 2 .. n
      /\ \A k \in 2 .. n : k \in 1 .. n /\ k # 1 /\ k - 1 \in 1 .. n
      /\ 1 \in 1 .. n
  BY <1>1
<1> HIDE DEF n, X, g, Body
<1>8. PICK r : Goes(X, root, g, n, r)
  BY <1>1, <1>3, GoesOn
<1>9. r \in [1 .. n -> X] /\ r[1] = root /\ \A k \in 2 .. n : r[k] = g[<<r[k - 1], k>>]
  BY <1>8 DEF Goes
<1>10. \A k \in 2 .. n : r[k] = Kid(es, found, link, r[k - 1], k)
  BY <1>4, <1>7, <1>9
<1>11. r = Body(r)
  <2> DEFINE h == [k \in 1 .. n |-> IF k = 1 THEN root ELSE Kid(es, found, link, r[k - 1], k)]
  <2>1. \A k \in 1 .. n : r[k] = h[k]
    BY <1>7, <1>9, <1>10
  <2>2. r = h
    BY <1>9, <2>1
  <2> QED
    BY <1>6, <2>2
<1>12. c = Body(c)
  BY <1>11
<1> HIDE DEF c
<1>13. /\ c = [k \in 1 .. n |-> c[k]]
       /\ \A k \in 1 .. n : c[k] = IF k = 1 THEN root ELSE Kid(es, found, link, c[k - 1], k)
  BY <1>6, <1>12
<1>14. c[1] = root /\ \A k \in 2 .. n : c[k] = Kid(es, found, link, c[k - 1], k)
  BY <1>7, <1>13
<1>15. Goes(X, root, g, n, c)
  <2>1. \A k \in 2 .. n : c[k - 1] \in X => c[k] = g[<<c[k - 1], k>>]
    BY <1>4, <1>7, <1>14
  <2> QED
    BY <1>1, <1>3, <1>13, <1>14, <2>1, GoesFrom
<1>16. c \in [1 .. n -> X]
  BY <1>15 DEF Goes
<1> QED
  BY <1>5, <1>14, <1>16 DEF n, X

\* A chain that gets to its end is one of parents and children.
LEMMA ChainHolds ==
    ASSUME NEW es, Indexed(es), NEW found \in Seq(SUBSET DOMAIN es), found # <<>>, NEW link,
           NEW root \in found[1], CausalChain(es, found, root, link)[Len(found)] # 0
    PROVE  LET c == CausalChain(es, found, root, link)
           IN  /\ c \in [1 .. Len(found) -> DOMAIN es]
               /\ \A k \in 1 .. Len(found) : c[k] \in found[k]
               /\ \A k \in 1 .. (Len(found) - 1) : IsKid(es, link, c[k], c[k + 1])
<1> DEFINE n == Len(found)
           c == CausalChain(es, found, root, link)
           X == DOMAIN es \union {0}
<1>1. /\ c \in [1 .. n -> X] /\ c[1] = root
      /\ \A k \in 2 .. n : c[k] = Kid(es, found, link, c[k - 1], k)
  BY CausalIs
<1>2. n \in Nat \ {0} /\ c[n] # 0 /\ root \in DOMAIN es
  OBVIOUS
<1> HIDE DEF n, c, X
<1>3. \A k \in 2 .. n : c[k] \in found[k] \union {0} /\ (c[k] # 0 => IsKid(es, link, c[k - 1], c[k]))
  <2> SUFFICES ASSUME NEW k \in 2 .. n
               PROVE  c[k] \in found[k] \union {0} /\ (c[k] # 0 => IsKid(es, link, c[k - 1], c[k]))
    OBVIOUS
  <2>1. k \in 1 .. Len(found) /\ c[k - 1] \in DOMAIN es \union {0}
    <3>1. k \in 1 .. n /\ k - 1 \in 1 .. n
      BY <1>2
    <3> QED
      BY <1>1, <3>1 DEF n, X
  <2>2. c[k] = Kid(es, found, link, c[k - 1], k)
    BY <1>1
  <2>3. Kid(es, found, link, c[k - 1], k) \in found[k] \union {0}
    BY <2>1, KidIs
  <2>4. Kid(es, found, link, c[k - 1], k) # 0 => IsKid(es, link, c[k - 1], Kid(es, found, link, c[k - 1], k))
    BY <2>1, KidIs
  <2> QED
    BY <2>2, <2>3, <2>4
<1>4. \A k \in 1 .. n : c[k] # 0
  <2> DEFINE I == {k \in Nat : k < n => c[n - k] # 0}
  <2>1. 0 \in I
    BY <1>2
  <2>2. ASSUME NEW k \in Nat, k \in I PROVE k + 1 \in I
    <3> SUFFICES ASSUME k + 1 < n PROVE c[n - (k + 1)] # 0
      OBVIOUS
    <3>1. n - k \in 2 .. n /\ (n - k) - 1 = n - (k + 1) /\ c[n - k] # 0
      BY <1>2, <2>2
    <3> QED
      BY <1>3, <3>1 DEF IsKid
  <2>3. Nat \subseteq I
    <3> HIDE DEF I
    <3> QED
      BY <2>1, <2>2, SetInduction
  <2>4. \A k \in 1 .. n : n - k \in Nat /\ n - k < n /\ n - (n - k) = k
    BY <1>2
  <2> QED
    BY <2>3, <2>4
<1>5. c \in [1 .. n -> DOMAIN es]
  BY <1>1, <1>4 DEF X
<1>6. \A k \in 1 .. n : c[k] \in found[k]
  <2>1. \A k \in 1 .. n : k = 1 \/ k \in 2 .. n
    BY <1>2
  <2> QED
    BY <1>1, <1>3, <1>4, <2>1
<1>7. \A k \in 1 .. (n - 1) : IsKid(es, link, c[k], c[k + 1])
  <2>1. \A k \in 1 .. (n - 1) : k + 1 \in 2 .. n /\ k + 1 \in 1 .. n /\ (k + 1) - 1 = k
    BY <1>2
  <2> QED
    BY <1>3, <1>4, <2>1
<1> QED
  BY <1>5, <1>6, <1>7 DEF n, c

\* With ids of their own and no event its own parent, a chain is a path.
LEMMA ChainsArePaths ==
    ASSUME NEW es, Indexed(es), NEW found \in Seq(SUBSET DOMAIN es), found # <<>>, NEW link,
           \A i, j \in DOMAIN es : es[i].source_record_id = es[j].source_record_id => i = j,
           \A i \in DOMAIN es : ~(es[i].source_record_id # None /\ es[i][link] = es[i].source_record_id)
    PROVE  CausalFinds(es, found, link) \subseteq PathFinds(es, found, {link}, 1)
<1> DEFINE n == Len(found)
           D == DOMAIN es
           children == ChildrenOf(es, {link})
           Chain(r) == CausalChain(es, found, r, link)
           All == {d \in {Chain(r) : r \in found[1]} : d[n] # 0}
<1>1. CausalFinds(es, found, link) = UNION {{c[k] : k \in 1 .. n} : c \in All}
  BY DEF CausalFinds
<1>2. n \in Nat \ {0}
  OBVIOUS
<1>3. ASSUME NEW c \in All PROVE Links(D, found, children, 1, n, c)
  <2>1. PICK r \in found[1] : c = Chain(r) /\ Chain(r)[n] # 0
    OBVIOUS
  <2>2. /\ c \in [1 .. n -> D]
        /\ \A k \in 1 .. n : c[k] \in found[k]
        /\ \A k \in 1 .. (n - 1) : IsKid(es, link, c[k], c[k + 1])
    BY <2>1, ChainHolds
  <2> HIDE DEF n, children, Chain, All
  <2>3. ASSUME NEW k \in 1 .. (n - 1) PROVE Within(children, c[k], c[k + 1], 1)
    <3>1. k \in 1 .. n /\ k + 1 \in 1 .. n
      BY <1>2
    <3> DEFINE p == c[k]
               q == c[k + 1]
    <3>2. /\ p \in D /\ q \in D /\ link # "caused_by_event_ids"
          /\ es[p].source_record_id # None /\ es[q][link] = es[p].source_record_id
      BY <2>2, <2>3, <3>1 DEF IsKid
    <3> HIDE DEF p, q
    <3>3. p # q /\ Bearer(es, p)
      BY <3>2 DEF Bearer, Indexed, D
    <3>4. es[p].source_record_id \in LinkedIds(es[q], link) \ {None}
      BY <3>2 DEF LinkedIds
    <3>5. q \in children[p]
      BY <3>2, <3>3, <3>4 DEF children, ChildrenOf
    <3>6. Within(children, p, q, 0 + 1)
      BY <3>2, <3>5, ChildrenAre, WithinNext DEF children
    <3>7. Within(children, p, q, 1)
      BY <3>6
    <3> QED
      BY <3>7 DEF p, q
  <2> QED
    BY <2>2, <2>3 DEF Links
<1>4. ASSUME NEW c \in All PROVE \A k \in 1 .. n : c[k] \in PathFinds(es, found, {link}, 1)
  BY <1>3, PathFindsExactly
<1>5. ASSUME NEW c \in All, NEW k \in 1 .. n PROVE c[k] \in PathFinds(es, found, {link}, 1)
  BY <1>4
<1> SUFFICES ASSUME NEW i \in CausalFinds(es, found, link) PROVE i \in PathFinds(es, found, {link}, 1)
  OBVIOUS
<1>6. PICK c \in All : i \in {c[k] : k \in 1 .. n}
  <2> HIDE DEF All
  <2> QED
    BY <1>1
<1> HIDE DEF All, n
<1> QED
  BY <1>5, <1>6

-----------------------------------------------------------------------------
(* Expressions.                                                                *)

\* What is found for the steps of a node.
EachOf(steps, found) == [k \in DOMAIN steps |-> found[steps[k]]]

\* What a node finds, by its type.
LEMMA NodeFindsIs ==
    ASSUME NEW x, NEW es, NEW found
    PROVE  /\ x.type = "match" => NodeFinds(x, es, found) =
                 {i \in DOMAIN es : \A p \in x.predicates : PredicateMatches(es[i], p)}
           /\ x.type = "all" => NodeFinds(x, es, found) = {i \in DOMAIN es : \A y \in x.children : i \in found[y]}
           /\ x.type = "any" => NodeFinds(x, es, found) = UNION {found[y] : y \in x.children}
           /\ x.type = "not" => NodeFinds(x, es, found) = DOMAIN es \ found[x.child]
           /\ x.type = "sequence" => NodeFinds(x, es, found) =
                 SequenceFinds(es, EachOf(x.steps, found), x.max_span_seconds)
           /\ x.type = "threshold" => NodeFinds(x, es, found) =
                 ThresholdFinds(es, found[x.child], x.count, x.window_seconds, x.distinct_field)
           /\ x.type = "parent_child" => NodeFinds(x, es, found) =
                 ParentChildFinds(es, found[x.parent], found[x.child])
           /\ x.type = "causal_graph" => NodeFinds(x, es, found) =
                 CausalFinds(es, EachOf(x.steps, found), x.link_field)
           /\ x.type = "graph_path" => NodeFinds(x, es, found) =
                 PathFinds(es, EachOf(x.steps, found), x.link_fields, x.max_depth)
           /\ x.type = "graph_fanout" => NodeFinds(x, es, found) =
                 FanoutFinds(es, found[x.root], found[x.descendant], x.count,
                             x.distinct_field, x.link_fields, x.max_depth)
BY DEF NodeFinds, EachOf

LEMMA PartsAre ==
    ASSUME NEW x
    PROVE  /\ x.type = "match" => Parts(x) = {}
           /\ x.type \in {"all", "any"} => Parts(x) = x.children
           /\ x.type \in {"not", "threshold"} => Parts(x) = {x.child}
           /\ x.type = "parent_child" => Parts(x) = {x.parent, x.child}
           /\ x.type = "graph_fanout" => Parts(x) = {x.root, x.descendant}
           /\ x.type \in {"sequence", "causal_graph", "graph_path"} => Parts(x) = {x.steps[k] : k \in DOMAIN x.steps}
BY DEF Parts, Range

LEMMA FormedIs ==
    ASSUME NEW x, Formed(x)
    PROVE  /\ x.type = "sequence" => x.steps # <<>> /\ x.max_span_seconds \in Nat
           /\ x.type = "causal_graph" => x.steps # <<>>
           /\ x.type = "graph_path" => Len(x.steps) >= 2 /\ x.max_depth \in Nat
           /\ x.type = "graph_fanout" => x.count \in Nat /\ x.max_depth \in Nat
<1>1. ASSUME x.type = "sequence" PROVE x.steps # <<>> /\ x.max_span_seconds \in Nat
  BY <1>1 DEF Formed
<1>2. ASSUME x.type = "causal_graph" PROVE x.steps # <<>>
  BY <1>2 DEF Formed
<1>3. ASSUME x.type = "graph_path" PROVE Len(x.steps) >= 2 /\ x.max_depth \in Nat
  <2>1. Len(x.steps) >= 2
    BY <1>3 DEF Formed
  <2>2. x.max_depth \in 1 .. 50
    BY <1>3 DEF Formed
  <2>3. x.max_depth \in Nat
    BY <2>2
  <2> QED
    BY <2>1, <2>3
<1>4. ASSUME x.type = "graph_fanout" PROVE x.count \in Nat /\ x.max_depth \in Nat
  <2>1. x.count \in Nat \ {0} /\ x.max_depth \in 1 .. 50
    BY <1>4 DEF Formed
  <2> QED
    BY <2>1
<1> QED
  BY <1>1, <1>2, <1>3, <1>4

\* A node sees nothing but what its parts find.
LEMMA NodeFindsAlike ==
    ASSUME NEW x, x.type \in Conditions \union Relations, NEW es, NEW g, NEW h,
           \A y \in Parts(x) : g[y] = h[y]
    PROVE  NodeFinds(x, es, g) = NodeFinds(x, es, h)
<1>1. CASE x.type = "match"
  BY <1>1, NodeFindsIs
<1>2. CASE x.type = "all"
  BY <1>2, NodeFindsIs, PartsAre
<1>3. CASE x.type = "any"
  <2>1. /\ NodeFinds(x, es, g) = UNION {g[y] : y \in x.children}
        /\ NodeFinds(x, es, h) = UNION {h[y] : y \in x.children}
        /\ Parts(x) = x.children
    BY <1>3, NodeFindsIs, PartsAre
  <2> QED
    BY <2>1
<1>4. CASE x.type = "not"
  <2>1. /\ NodeFinds(x, es, g) = DOMAIN es \ g[x.child] /\ NodeFinds(x, es, h) = DOMAIN es \ h[x.child]
        /\ Parts(x) = {x.child}
    BY <1>4, NodeFindsIs, PartsAre
  <2> QED
    BY <2>1
<1>5. CASE x.type = "threshold"
  BY <1>5, NodeFindsIs, PartsAre
<1>6. CASE x.type = "parent_child"
  BY <1>6, NodeFindsIs, PartsAre
<1>7. CASE x.type = "graph_fanout"
  BY <1>7, NodeFindsIs, PartsAre
<1>8. CASE x.type \in {"sequence", "causal_graph", "graph_path"}
  <2>1. \A k \in DOMAIN x.steps : g[x.steps[k]] = h[x.steps[k]]
    BY <1>8, PartsAre
  <2>2. EachOf(x.steps, g) = EachOf(x.steps, h)
    BY <2>1 DEF EachOf
  <2> QED
    BY <1>8, <2>2, NodeFindsIs
<1> QED
  BY <1>1, <1>2, <1>3, <1>4, <1>5, <1>6, <1>7, <1>8 DEF Conditions, Relations

\* The nodes of an expression, and how far each is from its leaves.
Ranked(x, height) ==
    /\ height \in [Nested(x) -> 0 .. MaxNesting]
    /\ \A y \in Nested(x) : \A z \in Parts(y) : z \in Nested(x) /\ height[z] < height[y]

LEMMA TreeIs ==
    ASSUME NEW x, Tree(x)
    PROVE  /\ x \in Nested(x)
           /\ \A y \in Nested(x) :
                 /\ y.type \in Conditions \union Relations /\ Formed(y)
                 /\ y.type \in {"sequence", "causal_graph", "graph_path"} => y.steps \in Seq(Nested(x))
           /\ \E height : Ranked(x, height)
BY DEF Tree, Ranked

\* What is found is right up to a height.
RightUpto(x, es, height, n, h) ==
    /\ h = [y \in Nested(x) |-> h[y]]
    /\ \A y \in Nested(x) : height[y] < n => h[y] = NodeFinds(y, es, h)

LEMMA FoundIs ==
    ASSUME NEW x, Tree(x), NEW es
    PROVE  \A y \in Nested(x) : Found(x, es)[y] = NodeFinds(y, es, Found(x, es))
<1> DEFINE N == Nested(x)
           Body(h) == [y \in N |-> NodeFinds(y, es, h)]
           found == CHOOSE h : h = Body(h)
<1>1. PICK height : Ranked(x, height)
  BY TreeIs
<1>2. /\ \A y \in N : height[y] \in 0 .. MaxNesting /\ y.type \in Conditions \union Relations
      /\ \A y \in N : \A z \in Parts(y) : z \in N /\ height[z] < height[y]
  BY <1>1, TreeIs DEF Ranked
<1> DEFINE Exists(n) == \E h : RightUpto(x, es, height, n, h)
           I == {n \in Nat : Exists(n)}
<1>3. 0 \in I
  <2> DEFINE h == [y \in N |-> {}]
  <2>1. h = [y \in N |-> h[y]]
    OBVIOUS
  <2>2. RightUpto(x, es, height, 0, h)
    BY <1>2, <2>1, EngineAssumption DEF RightUpto
  <2> QED
    BY <2>2
<1>4. ASSUME NEW n \in Nat, n \in I PROVE n + 1 \in I
  <2>1. PICK h : RightUpto(x, es, height, n, h)
    BY <1>4
  <2> DEFINE g == Body(h)
  <2>2. \A y \in N : g[y] = NodeFinds(y, es, h)
    OBVIOUS
  <2>3. g = [y \in N |-> g[y]]
    OBVIOUS
  <2> HIDE DEF g
  <2>4. ASSUME NEW y \in N, height[y] < n + 1 PROVE g[y] = NodeFinds(y, es, g)
    <3>1. ASSUME NEW z \in Parts(y) PROVE g[z] = h[z]
      <4>1. z \in N /\ height[z] < n
        <5>1. height[z] < height[y] /\ z \in N
          BY <1>2, <3>1
        <5>2. height[y] \in Nat /\ height[z] \in Nat
          BY <1>2, <5>1
        <5> QED
          BY <2>4, <5>1, <5>2
      <4>2. h[z] = NodeFinds(z, es, h)
        BY <2>1, <4>1 DEF RightUpto
      <4> QED
        BY <2>2, <4>1, <4>2
    <3>2. NodeFinds(y, es, g) = NodeFinds(y, es, h)
      BY <1>2, <3>1, NodeFindsAlike
    <3> QED
      BY <2>2, <3>2
  <2>5. RightUpto(x, es, height, n + 1, g)
    BY <2>3, <2>4 DEF RightUpto
  <2> QED
    BY <2>5
<1>5. MaxNesting + 1 \in I
  <2>1. Nat \subseteq I
    <3> HIDE DEF I
    <3> QED
      BY <1>3, <1>4, SetInduction
  <2> HIDE DEF I
  <2> QED
    BY <2>1, EngineAssumption DEF EngineAssumption
<1>6. PICK h : RightUpto(x, es, height, MaxNesting + 1, h)
  BY <1>5
<1>7. \A y \in N : height[y] < MaxNesting + 1
  BY <1>2, EngineAssumption DEF EngineAssumption
<1>8. h = Body(h)
  <2>1. \A y \in N : h[y] = Body(h)[y]
    BY <1>6, <1>7 DEF RightUpto
  <2>2. h = [y \in N |-> h[y]]
    BY <1>6 DEF RightUpto
  <2> HIDE DEF N
  <2> QED
    BY <2>1, <2>2
<1>9. found = Body(found)
  <2> HIDE DEF Body
  <2> QED
    BY <1>8
<1>10. Found(x, es) = found
  BY DEF Found
<1> HIDE DEF found
<1>11. \A y \in N : found[y] = NodeFinds(y, es, found)
  BY <1>9
<1> QED
  BY <1>10, <1>11

-----------------------------------------------------------------------------
(* What is found is among the events.                                          *)

LEMMA CausalFindsWithin ==
    ASSUME NEW es, Indexed(es), NEW found \in Seq(SUBSET DOMAIN es), found # <<>>, NEW link
    PROVE  CausalFinds(es, found, link) \subseteq DOMAIN es
<1> DEFINE n == Len(found)
           Chain(r) == CausalChain(es, found, r, link)
           All == {d \in {Chain(r) : r \in found[1]} : d[n] # 0}
<1>1. CausalFinds(es, found, link) = UNION {{c[k] : k \in 1 .. n} : c \in All}
  BY DEF CausalFinds
<1>2. ASSUME NEW c \in All, NEW k \in 1 .. n PROVE c[k] \in DOMAIN es
  <2>1. PICK r \in found[1] : c = Chain(r) /\ Chain(r)[n] # 0
    OBVIOUS
  <2>2. c \in [1 .. n -> DOMAIN es]
    BY <2>1, ChainHolds
  <2> QED
    BY <2>2
<1> HIDE DEF All, n
<1> SUFFICES ASSUME NEW i \in CausalFinds(es, found, link) PROVE i \in DOMAIN es
  OBVIOUS
<1>3. PICK c \in All : i \in {c[k] : k \in 1 .. n}
  BY <1>1
<1> QED
  BY <1>2, <1>3

LEMMA EachOfIs ==
    ASSUME NEW N, NEW steps \in Seq(N), NEW found
    PROVE  /\ EachOf(steps, found) = [k \in 1 .. Len(steps) |-> found[steps[k]]]
           /\ Len(EachOf(steps, found)) = Len(steps)
<1>1. DOMAIN steps = 1 .. Len(steps) /\ Len(steps) \in Nat
  OBVIOUS
<1> QED
  BY <1>1 DEF EachOf

LEMMA EachOfWithin ==
    ASSUME NEW N, NEW steps \in Seq(N), NEW D, NEW found, \A y \in N : found[y] \subseteq D
    PROVE  EachOf(steps, found) \in Seq(SUBSET D)
<1>1. Len(steps) \in Nat /\ \A k \in 1 .. Len(steps) : steps[k] \in N
  OBVIOUS
<1>2. EachOf(steps, found) = [k \in 1 .. Len(steps) |-> found[steps[k]]]
  BY EachOfIs
<1>3. \A k \in 1 .. Len(steps) : found[steps[k]] \in SUBSET D
  BY <1>1
<1> QED
  BY <1>1, <1>2, <1>3

LEMMA NodeFindsWithin ==
    ASSUME NEW N, NEW x, x.type \in Conditions \union Relations, Formed(x),
           x.type \in {"sequence", "causal_graph", "graph_path"} => x.steps \in Seq(N),
           NEW es, Indexed(es), NEW found,
           \A y \in Parts(x) : found[y] \subseteq DOMAIN es
    PROVE  NodeFinds(x, es, found) \subseteq DOMAIN es
<1>1. CASE x.type = "match"
  BY <1>1, NodeFindsIs
<1>2. CASE x.type = "all"
  BY <1>2, NodeFindsIs
<1>3. CASE x.type = "any"
  <2>1. NodeFinds(x, es, found) = UNION {found[y] : y \in x.children} /\ Parts(x) = x.children
    BY <1>3, NodeFindsIs, PartsAre
  <2> QED
    BY <2>1
<1>4. CASE x.type = "not"
  BY <1>4, NodeFindsIs
<1>5. CASE x.type = "threshold"
  <2>1. found[x.child] \subseteq DOMAIN es
    BY <1>5, PartsAre
  <2>2. \A S, count, seconds, field : ThresholdFinds(es, S, count, seconds, field) \subseteq S
    BY DEF ThresholdFinds
  <2>3. NodeFinds(x, es, found) \subseteq found[x.child]
    BY <1>5, <2>2, NodeFindsIs
  <2> QED
    BY <2>1, <2>3
<1>6. CASE x.type = "parent_child"
  <2>1. found[x.child] \subseteq DOMAIN es /\ found[x.parent] \subseteq DOMAIN es
    BY <1>6, PartsAre
  <2>2. \A S, T : ParentChildFinds(es, S, T) \subseteq S \union T
    BY DEF ParentChildFinds
  <2>3. NodeFinds(x, es, found) \subseteq found[x.parent] \union found[x.child]
    BY <1>6, <2>2, NodeFindsIs
  <2> QED
    BY <2>1, <2>3
<1>7. CASE x.type = "graph_fanout"
  <2>1. found[x.root] \subseteq DOMAIN es /\ found[x.descendant] \subseteq DOMAIN es
    BY <1>7, PartsAre
  <2>2. \A S, T, count, field, links, depth : FanoutFinds(es, S, T, count, field, links, depth) \subseteq S \union T
    BY DEF FanoutFinds
  <2>3. NodeFinds(x, es, found) \subseteq found[x.root] \union found[x.descendant]
    BY <1>7, <2>2, NodeFindsIs
  <2> QED
    BY <2>1, <2>3
<1>8. CASE x.type \in {"sequence", "causal_graph", "graph_path"}
  <2> DEFINE R == {x.steps[k] : k \in 1 .. Len(x.steps)}
             each == EachOf(x.steps, found)
  <2>1. x.steps \in Seq(R) /\ Parts(x) = R /\ x.steps # <<>>
    <3>1. x.steps \in Seq(N)
      BY <1>8
    <3>2. Parts(x) = {x.steps[k] : k \in DOMAIN x.steps}
      BY <1>8, PartsAre
    <3>3. x.steps # <<>>
      <4>1. Len(<<>>) = 0
        OBVIOUS
      <4> QED
        BY <1>8, <4>1, FormedIs
    <3> QED
      BY <3>1, <3>2, <3>3
  <2> HIDE DEF R
  <2>2. each \in Seq(SUBSET DOMAIN es) /\ Len(each) = Len(x.steps)
    <3>1. \A y \in R : found[y] \subseteq DOMAIN es
      BY <2>1
    <3>2. each \in Seq(SUBSET DOMAIN es)
      BY <2>1, <3>1, EachOfWithin
    <3>3. Len(each) = Len(x.steps)
      BY <2>1, EachOfIs
    <3> QED
      BY <3>2, <3>3
  <2>3. each # <<>>
    BY <2>1, <2>2
  <2> HIDE DEF each
  <2>4. CASE x.type = "sequence"
    <3>1. x.max_span_seconds \in Nat
      BY <2>4, FormedIs
    <3>2. SequenceFinds(es, each, x.max_span_seconds) \subseteq DOMAIN es
      BY <2>2, <2>3, <3>1, SequenceFindsExactly
    <3> QED
      BY <2>4, <3>2, NodeFindsIs DEF each
  <2>5. CASE x.type = "causal_graph"
    BY <2>2, <2>3, <2>5, CausalFindsWithin, NodeFindsIs DEF each
  <2>6. CASE x.type = "graph_path"
    <3>1. x.max_depth \in Nat
      BY <2>6, FormedIs
    <3>2. PathFinds(es, each, x.link_fields, x.max_depth) \subseteq DOMAIN es
      BY <2>2, <2>3, <3>1, PathFindsExactly
    <3> QED
      BY <2>6, <3>2, NodeFindsIs DEF each
  <2> QED
    BY <1>8, <2>4, <2>5, <2>6
<1> QED
  BY <1>1, <1>2, <1>3, <1>4, <1>5, <1>6, <1>7, <1>8 DEF Conditions, Relations

LEMMA FoundWithin ==
    ASSUME NEW x, Tree(x), NEW es, Indexed(es)
    PROVE  \A y \in Nested(x) : Found(x, es)[y] \subseteq DOMAIN es
<1> DEFINE N == Nested(x)
           found == Found(x, es)
<1>1. PICK height : Ranked(x, height)
  BY TreeIs
<1>2. /\ \A y \in N : height[y] \in 0 .. MaxNesting
      /\ \A y \in N : \A z \in Parts(y) : z \in N /\ height[z] < height[y]
  BY <1>1 DEF Ranked
<1> DEFINE I == {n \in Nat : \A y \in N : height[y] < n => found[y] \subseteq DOMAIN es}
<1>3. \A y \in N : found[y] = NodeFinds(y, es, found)
  BY FoundIs
<1> HIDE DEF found
<1>4. 0 \in I
  BY <1>2, EngineAssumption
<1>5. ASSUME NEW n \in Nat, n \in I PROVE n + 1 \in I
  <2> SUFFICES ASSUME NEW y \in N, height[y] < n + 1 PROVE found[y] \subseteq DOMAIN es
    OBVIOUS
  <2>1. ASSUME NEW z \in Parts(y) PROVE found[z] \subseteq DOMAIN es
    <3>1. height[z] < height[y] /\ z \in N
      BY <1>2, <2>1
    <3>2. height[y] \in Nat /\ height[z] \in Nat
      BY <1>2, <3>1
    <3>3. height[z] < n
      BY <3>1, <3>2
    <3> QED
      BY <1>5, <3>1, <3>3
  <2>2. /\ y.type \in Conditions \union Relations /\ Formed(y)
        /\ y.type \in {"sequence", "causal_graph", "graph_path"} => y.steps \in Seq(N)
    BY TreeIs
  <2>3. NodeFinds(y, es, found) \subseteq DOMAIN es
    <3> HIDE DEF N
    <3> QED
      BY <2>1, <2>2, NodeFindsWithin
  <2> QED
    BY <1>3, <2>3
<1>6. MaxNesting + 1 \in I
  <2>1. Nat \subseteq I
    <3> HIDE DEF I
    <3> QED
      BY <1>4, <1>5, SetInduction
  <2> HIDE DEF I
  <2> QED
    BY <2>1, EngineAssumption DEF EngineAssumption
<1>7. \A y \in N : height[y] < MaxNesting + 1
  BY <1>2, EngineAssumption DEF EngineAssumption
<1> QED
  BY <1>6, <1>7 DEF found

-----------------------------------------------------------------------------
(* The rules of a pack over what was collected.                                *)

\* Of a group, the events stay as they were, in their order.
LEMMA GroupIs ==
    ASSUME SweptInv, NEW r \in Rules, NEW key
    PROVE  /\ DOMAIN GroupEvents(r, key) \subseteq DOMAIN candidate
           /\ \A i \in DOMAIN GroupEvents(r, key) : GroupEvents(r, key)[i] = candidate[i]
           /\ Indexed(GroupEvents(r, key))
<1> DEFINE G == Group(Pack[r], candidate, key)
           es == GroupEvents(r, key)
<1>1. es = [i \in G |-> candidate[i]]
  BY DEF GroupEvents, Restrict
<1>2. G \subseteq DOMAIN candidate
  BY DEF Group
<1> HIDE DEF G, es
<1>3. DOMAIN es = G /\ \A i \in G : es[i] = candidate[i]
  BY <1>1
<1>4. /\ DOMAIN candidate = 1 .. Len(candidate) /\ Len(candidate) \in Nat
      /\ DOMAIN candidate \subseteq 1 .. MaxEvents
  BY IterationAssumption DEF SweptInv, IterationAssumption
<1>5. \A i \in DOMAIN candidate : candidate[i].timestamp \in Nat
  BY RecordingAssumption DEF SweptInv
<1>6. IsFiniteSet(G)
  <2>1. IsFiniteSet(1 .. Len(candidate))
    BY <1>4, FS_Interval
  <2> QED
    BY <1>2, <1>4, <2>1, FS_Subset
<1>7. Indexed(es)
  BY <1>2, <1>3, <1>4, <1>5, <1>6 DEF Indexed
<1> QED
  BY <1>2, <1>3, <1>7 DEF es

\* A rule finds in a group what the node of its expression makes of what was found for the
\* nested ones.
LEMMA RuleIs ==
    ASSUME SweptInv, NEW r \in Rules, NEW key
    PROVE  LET x  == Pack[r].expression
               es == GroupEvents(r, key)
           IN  /\ Tree(x) /\ x \in Nested(x) /\ Formed(x)
               /\ GroupMatches(Pack[r], candidate, key) = NodeFinds(x, es, Found(x, es))
               /\ \A y \in Nested(x) : Found(x, es)[y] \subseteq DOMAIN es
<1> DEFINE x == Pack[r].expression
           es == GroupEvents(r, key)
<1>1. Tree(x)
  BY PackAssumption DEF PackAssumption
<1>2. Indexed(es)
  BY GroupIs
<1>3. GroupMatches(Pack[r], candidate, key) = Found(x, es)[x]
  BY DEF GroupMatches, Matches, GroupEvents
<1> HIDE DEF x, es
<1>4. x \in Nested(x) /\ Formed(x)
  BY <1>1, TreeIs
<1>5. Found(x, es)[x] = NodeFinds(x, es, Found(x, es))
  BY <1>1, <1>4, FoundIs
<1>6. \A y \in Nested(x) : Found(x, es)[y] \subseteq DOMAIN es
  BY <1>1, <1>2, FoundWithin
<1> QED
  BY <1>1, <1>3, <1>4, <1>5, <1>6 DEF x, es

\* The steps of a rule, with what is found for each.
LEMMA StepsAre ==
    ASSUME SweptInv, NEW r \in Rules, NEW key,
           Type(r) \in {"sequence", "causal_graph", "graph_path"}
    PROVE  LET steps == Pack[r].expression.steps
               es    == GroupEvents(r, key)
               each  == EachOf(steps, Found(Pack[r].expression, es))
           IN  /\ each \in Seq(SUBSET DOMAIN es) /\ each # <<>> /\ Len(each) = Len(steps)
               /\ DOMAIN steps = 1 .. Len(steps) /\ Len(steps) \in Nat
               /\ each = [k \in DOMAIN steps |-> Step(r, k, es)]
<1> DEFINE x == Pack[r].expression
           es == GroupEvents(r, key)
           found == Found(x, es)
           each == EachOf(x.steps, found)
<1>1. Tree(x) /\ x \in Nested(x) /\ Formed(x) /\ \A y \in Nested(x) : found[y] \subseteq DOMAIN es
  BY RuleIs
<1>2. x.type \in {"sequence", "causal_graph", "graph_path"}
  BY DEF Type
<1>3. each = [k \in DOMAIN x.steps |-> Step(r, k, es)]
  BY DEF EachOf, Step
<1> HIDE DEF x, es, found
<1>4. x.steps \in Seq(Nested(x))
  BY <1>1, <1>2, TreeIs
<1>5. DOMAIN x.steps = 1 .. Len(x.steps) /\ Len(x.steps) \in Nat
  BY <1>4
<1>6. Len(x.steps) # 0
  <2>1. CASE x.type = "graph_path"
    BY <1>1, <2>1, FormedIs
  <2>2. CASE x.type # "graph_path"
    <3>1. x.steps # <<>>
      BY <1>1, <1>2, <2>2, FormedIs
    <3> QED
      BY <1>4, <3>1
  <2> QED
    BY <2>1, <2>2
<1>7. each \in Seq(SUBSET DOMAIN es)
  BY <1>1, <1>4, EachOfWithin
<1>8. Len(each) = Len(x.steps)
  BY <1>4, EachOfIs
<1> HIDE DEF each
<1>9. each # <<>>
  BY <1>6, <1>8
<1> QED
  BY <1>3, <1>5, <1>7, <1>8, <1>9 DEF x, es, found, each

\* SequenceExact: for every pack and recording, however long, taking the earliest event for
\* each step without going back (evaluator.py) misses no sequence within the span, and finds
\* nothing where there is none.
THEOREM SequencesAreExact == Spec => []SequenceExact
<1>1. ASSUME SweptInv PROVE SequenceExact
  <2> SUFFICES ASSUME NEW r \in Rules, Type(r) = "sequence", NEW key
               PROVE  LET x  == Pack[r].expression
                          es == GroupEvents(r, key)
                          n  == Len(x.steps)
                      IN  (GroupMatches(Pack[r], candidate, key) # {}) <=>
                          \E c \in [1..n -> DOMAIN es] :
                              /\ \A k \in 1..n : c[k] \in Step(r, k, es)
                              /\ \A k \in 1..(n - 1) :
                                    LET a == es[c[k]].timestamp
                                        b == es[c[k + 1]].timestamp
                                    IN  a < b \/ (a = b /\ c[k] < c[k + 1])
                              /\ es[c[n]].timestamp - es[c[1]].timestamp <= x.max_span_seconds
    BY DEF SequenceExact
  <2> DEFINE x    == Pack[r].expression
             es   == GroupEvents(r, key)
             n    == Len(x.steps)
             each == EachOf(x.steps, Found(x, es))
  <2>1. /\ each \in Seq(SUBSET DOMAIN es) /\ each # <<>> /\ Len(each) = n
        /\ DOMAIN x.steps = 1 .. n
        /\ each = [k \in DOMAIN x.steps |-> Step(r, k, es)]
    BY <1>1, StepsAre
  <2>2. Indexed(es)
    BY <1>1, GroupIs
  <2>3. x.type = "sequence"
    BY DEF Type
  <2>4. Formed(x) /\ GroupMatches(Pack[r], candidate, key) = NodeFinds(x, es, Found(x, es))
    BY <1>1, RuleIs
  <2> HIDE DEF x, es
  <2>5. NodeFinds(x, es, Found(x, es)) = SequenceFinds(es, each, x.max_span_seconds)
    BY <2>3, NodeFindsIs
  <2>6. x.max_span_seconds \in Nat
    BY <2>3, <2>4, FormedIs
  <2> HIDE DEF n, each
  <2>7. SequenceFinds(es, each, x.max_span_seconds) # {} <=>
           \E d \in [1 .. n -> DOMAIN es] :
              Follows(es, each, d) /\ es[d[n]].timestamp - es[d[1]].timestamp <= x.max_span_seconds
    BY <2>1, <2>2, <2>6, SequenceFindsExactly
  <2>8. \A k \in 1 .. n : each[k] = Step(r, k, es)
    BY <2>1
  <2>9. \A d \in [1 .. n -> DOMAIN es] :
           Follows(es, each, d) <=>
              /\ \A k \in 1..n : d[k] \in Step(r, k, es)
              /\ \A k \in 1..(n - 1) :
                    LET a == es[d[k]].timestamp
                        b == es[d[k + 1]].timestamp
                    IN  a < b \/ (a = b /\ d[k] < d[k + 1])
    BY <2>1, <2>8 DEF Follows, Before
  <2>10. GroupMatches(Pack[r], candidate, key) # {} <=>
           \E d \in [1 .. n -> DOMAIN es] :
              /\ \A k \in 1..n : d[k] \in Step(r, k, es)
              /\ \A k \in 1..(n - 1) :
                    LET a == es[d[k]].timestamp
                        b == es[d[k + 1]].timestamp
                    IN  a < b \/ (a = b /\ d[k] < d[k + 1])
              /\ es[d[n]].timestamp - es[d[1]].timestamp <= x.max_span_seconds
    BY <2>4, <2>5, <2>7, <2>9
  <2> QED
    BY <2>10 DEF x, es, n
<1> QED
  BY <1>1, SweptIsCurrent, PTL DEF Spec

\* PathExact: for every pack and recording, cycles of links or none, going frontier by
\* frontier (evaluator.py) finds something exactly when the steps are linked within the depth.
THEOREM PathsAreExact == Spec => []PathExact
<1>1. ASSUME SweptInv PROVE PathExact
  <2> SUFFICES ASSUME NEW r \in Rules, Type(r) = "graph_path", NEW key
               PROVE  LET x    == Pack[r].expression
                          es   == GroupEvents(r, key)
                          n    == Len(x.steps)
                          kids == ChildrenOf(es, x.link_fields)
                          Reaches(i, j) ==
                              \E len \in 1..x.max_depth : \E p \in [0..len -> DOMAIN es] :
                                  p[0] = i /\ p[len] = j /\ \A k \in 1..len : p[k] \in kids[p[k - 1]]
                      IN  (GroupMatches(Pack[r], candidate, key) # {}) <=>
                          \E c \in [1..n -> DOMAIN es] :
                              /\ \A k \in 1..n : c[k] \in Step(r, k, es)
                              /\ \A k \in 1..(n - 1) : Reaches(c[k], c[k + 1])
    BY DEF PathExact
  <2> DEFINE x    == Pack[r].expression
             es   == GroupEvents(r, key)
             n    == Len(x.steps)
             kids == ChildrenOf(es, x.link_fields)
             each == EachOf(x.steps, Found(x, es))
             Reaches(i, j) ==
                \E len \in 1..x.max_depth : \E p \in [0..len -> DOMAIN es] :
                    p[0] = i /\ p[len] = j /\ \A k \in 1..len : p[k] \in kids[p[k - 1]]
  <2>1. /\ each \in Seq(SUBSET DOMAIN es) /\ each # <<>> /\ Len(each) = n
        /\ DOMAIN x.steps = 1 .. n
        /\ each = [k \in DOMAIN x.steps |-> Step(r, k, es)]
    BY <1>1, StepsAre
  <2>2. x.type = "graph_path"
    BY DEF Type
  <2>3. Formed(x) /\ GroupMatches(Pack[r], candidate, key) = NodeFinds(x, es, Found(x, es))
    BY <1>1, RuleIs
  <2> HIDE DEF x, es
  <2>4. NodeFinds(x, es, Found(x, es)) = PathFinds(es, each, x.link_fields, x.max_depth)
    BY <2>2, NodeFindsIs
  <2>5. x.max_depth \in Nat
    BY <2>2, <2>3, FormedIs
  <2>6. DOMAIN kids = DOMAIN es
    BY ChildrenAre
  <2> HIDE DEF n, each, kids
  <2>7. PathFinds(es, each, x.link_fields, x.max_depth) # {} <=>
           \E c \in [1 .. n -> DOMAIN es] : Links(DOMAIN es, each, kids, x.max_depth, n, c)
    BY <2>1, <2>5, PathFindsExactly DEF kids
  <2>8. \A k \in 1 .. n : each[k] = Step(r, k, es)
    BY <2>1
  <2>9. \A i, j : Within(kids, i, j, x.max_depth) <=> Reaches(i, j)
    BY <2>6 DEF Within, Leads
  <2> HIDE DEF Reaches
  <2>10. \A c \in [1 .. n -> DOMAIN es] :
            Links(DOMAIN es, each, kids, x.max_depth, n, c) <=>
               /\ \A k \in 1..n : c[k] \in Step(r, k, es)
               /\ \A k \in 1..(n - 1) : Reaches(c[k], c[k + 1])
    BY <2>8, <2>9 DEF Links
  <2>11. GroupMatches(Pack[r], candidate, key) # {} <=>
            \E c \in [1 .. n -> DOMAIN es] :
               /\ \A k \in 1..n : c[k] \in Step(r, k, es)
               /\ \A k \in 1..(n - 1) : Reaches(c[k], c[k + 1])
    BY <2>3, <2>4, <2>7, <2>10
  <2> QED
    BY <2>11 DEF x, es, n, kids, Reaches
<1> QED
  BY <1>1, SweptIsCurrent, PTL DEF Spec

\* CausalIsConnected: for every pack and recording in which ids are unique and no event is its
\* own parent, what a causal chain finds is connected by its link.
THEOREM ChainsAreConnected == Spec => []CausalIsConnected
<1>1. ASSUME SweptInv PROVE CausalIsConnected
  <2> DEFINE ids == [i \in DOMAIN candidate |-> candidate[i].source_record_id]
  <2> SUFFICES ASSUME \A i, j \in DOMAIN ids : ids[i] = ids[j] => i = j,
                      NEW r \in Rules, Type(r) = "causal_graph", NEW key
               PROVE  LET x  == Pack[r].expression
                          es == GroupEvents(r, key)
                          found == [k \in DOMAIN x.steps |-> Step(r, k, es)]
                          OwnParent(e) == e.source_record_id # None /\ e[x.link_field] = e.source_record_id
                      IN  (\A i \in DOMAIN es : ~OwnParent(es[i])) =>
                          CausalFinds(es, found, x.link_field)
                              \subseteq PathFinds(es, found, {x.link_field}, 1)
    BY DEF CausalIsConnected
  <2> DEFINE x    == Pack[r].expression
             es   == GroupEvents(r, key)
             each == EachOf(x.steps, Found(x, es))
  <2> SUFFICES ASSUME \A i \in DOMAIN es :
                         ~(es[i].source_record_id # None /\ es[i][x.link_field] = es[i].source_record_id)
               PROVE  LET found == [k \in DOMAIN x.steps |-> Step(r, k, es)]
                      IN  CausalFinds(es, found, x.link_field)
                              \subseteq PathFinds(es, found, {x.link_field}, 1)
    OBVIOUS
  <2>1. /\ each \in Seq(SUBSET DOMAIN es) /\ each # <<>>
        /\ each = [k \in DOMAIN x.steps |-> Step(r, k, es)]
    BY <1>1, StepsAre
  <2>2. /\ Indexed(es) /\ DOMAIN es \subseteq DOMAIN candidate
        /\ \A i \in DOMAIN es : es[i] = candidate[i]
    BY <1>1, GroupIs
  <2>3. \A i, j \in DOMAIN candidate :
           candidate[i].source_record_id = candidate[j].source_record_id => i = j
    OBVIOUS
  <2> HIDE DEF x, es, each, ids
  <2>4. \A i, j \in DOMAIN es : es[i].source_record_id = es[j].source_record_id => i = j
    BY <2>2, <2>3
  <2>5. CausalFinds(es, each, x.link_field) \subseteq PathFinds(es, each, {x.link_field}, 1)
    BY <2>1, <2>2, <2>4, ChainsArePaths
  <2> QED
    BY <2>1, <2>5
<1> QED
  BY <1>1, SweptIsCurrent, PTL DEF Spec

-----------------------------------------------------------------------------
(* Recordings that differ in their ids alone.                                  *)

\* Events of one structure: what they contain, who is whose, and which refer to which.
Resembles(es, ts) ==
    /\ DOMAIN ts = DOMAIN es
    /\ \A i \in DOMAIN es :
          /\ \A f \in Contents : ts[i][f] = es[i][f]
          /\ \A f \in Identities : es[i][f] # None /\ ts[i][f] # None
    /\ \A i, j \in DOMAIN es :
          /\ \A f \in Identities : es[i][f] = es[j][f] <=> ts[i][f] = ts[j][f]
          /\ \A f \in References : es[i].source_record_id \in LinkedIds(es[j], f)
                                   <=> ts[i].source_record_id \in LinkedIds(ts[j], f)

\* Images of one set under functions that tell the same apart are as large.
LEMMA ImagesAreAlike ==
    ASSUME NEW w, IsFiniteSet(w), NEW f, NEW g, \A i, j \in w : f[i] = f[j] <=> g[i] = g[j]
    PROVE  Cardinality({f[i] : i \in w}) = Cardinality({g[i] : i \in w})
<1> DEFINE S == {f[i] : i \in w}
           T == {g[i] : i \in w}
           b == [s \in S |-> g[CHOOSE i \in w : f[i] = s]]
           h == [i \in w |-> f[i]]
<1>1. \A i \in w : b[f[i]] = g[i]
  OBVIOUS
<1>2. \A s \in S : \E i \in w : s = f[i]
  OBVIOUS
<1>3. b \in [S -> T]
  OBVIOUS
<1> HIDE DEF b
<1>4. b \in Injection(S, T)
  BY <1>1, <1>2, <1>3 DEF Injection, IsInjective
<1>5. b \in Surjection(S, T)
  BY <1>1, <1>3 DEF Surjection
<1>6. h \in Surjection(w, S)
  BY DEF Surjection
<1>7. IsFiniteSet(S)
  <2> HIDE DEF S, h
  <2> QED
    BY <1>6, FS_Surjection
<1>8. ExistsBijection(S, T)
  BY <1>4, <1>5 DEF ExistsBijection, Bijection
<1> HIDE DEF S, T
<1>9. Cardinality(T) = Cardinality(S)
  BY <1>7, <1>8, FS_Bijection
<1> QED
  BY <1>9 DEF S, T

\* Courses with the same start that go on alike are the same.
Together(n, c, d) ==
    /\ c = [k \in 1 .. n |-> c[k]] /\ d = [k \in 1 .. n |-> d[k]] /\ c[1] = d[1]
    /\ \A k \in 2 .. n : c[k - 1] = d[k - 1] => c[k] = d[k]

LEMMA SameCourse ==
    ASSUME NEW n \in Nat, NEW c, NEW d, Together(n, c, d)
    PROVE  c = d
<1> USE DEF Together
<1> DEFINE I == {k \in Nat : k + 1 <= n => c[k + 1] = d[k + 1]}
<1>1. 0 \in I
  OBVIOUS
<1>2. ASSUME NEW k \in Nat, k \in I PROVE k + 1 \in I
  <2> SUFFICES ASSUME (k + 1) + 1 <= n PROVE c[(k + 1) + 1] = d[(k + 1) + 1]
    OBVIOUS
  <2>1. (k + 1) + 1 \in 2 .. n /\ ((k + 1) + 1) - 1 = k + 1 /\ c[k + 1] = d[k + 1]
    BY <1>2
  <2> QED
    BY <2>1
<1>3. Nat \subseteq I
  <2> HIDE DEF I
  <2> QED
    BY <1>1, <1>2, SetInduction
<1>4. \A k \in 1 .. n : k - 1 \in Nat /\ (k - 1) + 1 = k /\ k <= n
  OBVIOUS
<1>5. \A k \in 1 .. n : c[k] = d[k]
  BY <1>3, <1>4
<1> QED
  BY <1>5

\* Ids matter to no predicate that names none.
LEMMA PredicatesAlike ==
    ASSUME NEW es, NEW ts, Resembles(es, ts), NEW i \in DOMAIN es, NEW p,
           p.field \in Contents \/ (p.field \in Identities /\ p.operator = "exists")
    PROVE  PredicateMatches(es[i], p) = PredicateMatches(ts[i], p)
<1> USE DEF Contents, Identities, References, Resembles
<1>1. CASE p.field \in Contents
  <2>1. ts[i][p.field] = es[i][p.field] /\ p.field # "caused_by_event_ids"
    BY <1>1
  <2>2. Has(es[i], p.field) = Has(ts[i], p.field)
    BY <2>1 DEF Has
  <2> QED
    BY <2>1, <2>2 DEF PredicateMatches
<1>2. CASE p.field \in Identities /\ p.operator = "exists"
  <2>1. es[i][p.field] # None /\ ts[i][p.field] # None /\ p.field \notin {"timestamp", "caused_by_event_ids"}
    BY <1>2
  <2>2. Has(es[i], p.field) = TRUE /\ Has(ts[i], p.field) = TRUE
    BY <2>1 DEF Has
  <2> QED
    BY <1>2, <2>2 DEF PredicateMatches
<1> QED
  BY <1>1, <1>2

LEMMA TimesAlike ==
    ASSUME NEW es, NEW ts, Resembles(es, ts)
    PROVE  /\ DOMAIN ts = DOMAIN es
           /\ \A i \in DOMAIN es : /\ ts[i].timestamp = es[i].timestamp
                                   /\ ts[i].process_id = es[i].process_id
                                   /\ ts[i].parent_process_id = es[i].parent_process_id
           /\ \A i, j \in DOMAIN es : Before(ts, i, j) <=> Before(es, i, j)
<1>1. {"timestamp", "process_id", "parent_process_id"} \subseteq Contents
  BY RecordingAssumption DEF RecordingAssumption, Contents, Identities, References, Marks
<1> QED
  BY <1>1 DEF Resembles, Before

LEMMA SequenceAlike ==
    ASSUME NEW es, NEW ts, Resembles(es, ts), Indexed(es), Indexed(ts),
           NEW found \in Seq(SUBSET DOMAIN es), found # <<>>, NEW span
    PROVE  SequenceFinds(es, found, span) = SequenceFinds(ts, found, span)
<1> DEFINE n == Len(found)
           D == DOMAIN es
<1>1. /\ DOMAIN ts = D
      /\ \A i \in D : ts[i].timestamp = es[i].timestamp
      /\ \A i, j \in D : Before(ts, i, j) <=> Before(es, i, j)
  BY TimesAlike
<1>2. found \in Seq(SUBSET DOMAIN ts) /\ \A k \in 1 .. n : found[k] \subseteq D
  BY <1>1
<1>3. \A S \in SUBSET D : S # {} => Earliest(es, S) = Earliest(ts, S)
  <2> SUFFICES ASSUME NEW S \in SUBSET D, S # {} PROVE Earliest(es, S) = Earliest(ts, S)
    OBVIOUS
  <2> DEFINE a == Earliest(es, S)
             b == Earliest(ts, S)
  <2>1. a \in S /\ \A j \in S \ {a} : Before(es, a, j)
    BY EarliestIs
  <2>2. b \in S /\ \A j \in S \ {b} : Before(ts, b, j)
    BY <1>1, EarliestIs
  <2> HIDE DEF a, b
  <2>3. ASSUME a # b PROVE FALSE
    <3>1. Before(es, a, b) /\ Before(es, b, a) /\ a \in D /\ b \in D
      BY <1>1, <2>1, <2>2, <2>3
    <3>2. Before(es, a, a)
      BY <3>1, BeforeOrders
    <3>3. a \in Nat /\ es[a].timestamp \in Nat
      BY <3>1 DEF Indexed
    <3> QED
      BY <3>2, <3>3 DEF Before
  <2> QED
    BY <2>3 DEF a, b
<1>4. ASSUME NEW k \in 1 .. n, NEW last \in D \union {0}
      PROVE  Later(es, found, last, k) = Later(ts, found, last, k)
  <2> DEFINE left == {j \in found[k] : last # 0 /\ Before(es, last, j)}
  <2>1. left = {j \in found[k] : last # 0 /\ Before(ts, last, j)}
    <3>1. \A j \in found[k] : last # 0 => (Before(es, last, j) <=> Before(ts, last, j))
      BY <1>1, <1>2
    <3> QED
      BY <3>1
  <2>2. left \in SUBSET D
    BY <1>2
  <2>3. left # {} => Earliest(es, left) = Earliest(ts, left)
    <3> HIDE DEF left
    <3> QED
      BY <1>3, <2>2
  <2> QED
    BY <2>1, <2>3 DEF Later
<1>5. ASSUME NEW first \in found[1] PROVE GreedyChain(es, found, first) = GreedyChain(ts, found, first)
  <2> DEFINE c == GreedyChain(es, found, first)
             d == GreedyChain(ts, found, first)
             X == D \union {0}
  <2>1. /\ c \in [1 .. n -> X] /\ c[1] = first
        /\ \A k \in 2 .. n : c[k] = Later(es, found, c[k - 1], k)
    BY GreedyIs
  <2>2. /\ d \in [1 .. n -> X] /\ d[1] = first
        /\ \A k \in 2 .. n : d[k] = Later(ts, found, d[k - 1], k)
    BY <1>1, <1>2, GreedyIs
  <2> HIDE DEF c, d
  <2>3. ASSUME NEW k \in 2 .. n, c[k - 1] = d[k - 1] PROVE c[k] = d[k]
    <3>1. k \in 1 .. n /\ k - 1 \in 1 .. n
      OBVIOUS
    <3>2. c[k - 1] \in X
      BY <2>1, <3>1
    <3>3. Later(es, found, c[k - 1], k) = Later(ts, found, c[k - 1], k)
      BY <1>4, <3>1, <3>2
    <3> QED
      BY <2>1, <2>2, <2>3, <3>3
  <2>4. n \in Nat
    OBVIOUS
  <2> HIDE DEF X, n
  <2>5. Together(n, c, d)
    <3>1. c = [k \in 1 .. n |-> c[k]] /\ d = [k \in 1 .. n |-> d[k]] /\ c[1] = d[1]
      BY <2>1, <2>2
    <3> QED
      BY <2>3, <3>1 DEF Together
  <2>6. c = d
    BY <2>4, <2>5, SameCourse
  <2> QED
    BY <2>6 DEF c, d
<1>6. ASSUME NEW first \in found[1]
      PROVE  LET c == GreedyChain(es, found, first)
             IN  (c[n] # 0 /\ es[c[n]].timestamp <= es[c[1]].timestamp + span)
                    <=> (c[n] # 0 /\ ts[c[n]].timestamp <= ts[c[1]].timestamp + span)
  <2> DEFINE c == GreedyChain(es, found, first)
  <2>1. c \in [1 .. n -> D \union {0}] /\ c[1] = first
    BY GreedyIs
  <2>2. first \in D /\ n \in 1 .. n
    BY <1>2
  <2> HIDE DEF c
  <2>3. c[n] # 0 => c[n] \in D
    BY <2>1, <2>2
  <2>4. c[n] # 0 => (es[c[n]].timestamp = ts[c[n]].timestamp /\ es[c[1]].timestamp = ts[c[1]].timestamp)
    BY <1>1, <2>1, <2>2, <2>3
  <2> QED
    BY <2>4 DEF c
<1> DEFINE E(c) == c[n] # 0 /\ es[c[n]].timestamp <= es[c[1]].timestamp + span
           T(c) == c[n] # 0 /\ ts[c[n]].timestamp <= ts[c[1]].timestamp + span
<1>7. {c \in {GreedyChain(es, found, first) : first \in found[1]} : E(c)}
         = {c \in {GreedyChain(ts, found, first) : first \in found[1]} : T(c)}
  <2>1. {GreedyChain(es, found, first) : first \in found[1]} = {GreedyChain(ts, found, first) : first \in found[1]}
    BY <1>5
  <2>2. \A c \in {GreedyChain(es, found, first) : first \in found[1]} : E(c) <=> T(c)
    BY <1>6
  <2> HIDE DEF E, T
  <2> QED
    BY <2>1, <2>2
<1> QED
  BY <1>7 DEF SequenceFinds

LEMMA CountedAlike ==
    ASSUME NEW es, NEW ts, Resembles(es, ts), Indexed(es), NEW w \in SUBSET DOMAIN es,
           NEW field \in Contents \union Identities \union {None}
    PROVE  Cardinality(Counted(es, w, field)) = Cardinality(Counted(ts, w, field))
<1>1. CASE field = None
  BY <1>1 DEF Counted
<1>2. CASE field # None /\ field \in Contents
  <2>1. \A i \in w : ts[i][field] = es[i][field]
    BY <1>2 DEF Resembles
  <2> QED
    BY <1>2, <2>1 DEF Counted
<1>3. CASE field # None /\ field \in Identities
  <2> DEFINE f == [i \in w |-> es[i][field]]
             g == [i \in w |-> ts[i][field]]
  <2>1. \A i, j \in w : f[i] = f[j] <=> g[i] = g[j]
    BY <1>3 DEF Resembles
  <2>2. \A i \in w : es[i][field] # None /\ ts[i][field] # None
    BY <1>3 DEF Resembles
  <2>3. IsFiniteSet(w)
    BY FS_Subset DEF Indexed
  <2>4. Counted(es, w, field) = {f[i] : i \in w} /\ Counted(ts, w, field) = {g[i] : i \in w}
    BY <1>3, <2>2 DEF Counted
  <2> HIDE DEF f, g
  <2>5. Cardinality({f[i] : i \in w}) = Cardinality({g[i] : i \in w})
    BY <2>1, <2>3, ImagesAreAlike
  <2> QED
    BY <2>4, <2>5
<1> QED
  BY <1>1, <1>2, <1>3

LEMMA ThresholdAlike ==
    ASSUME NEW es, NEW ts, Resembles(es, ts), Indexed(es), NEW S \in SUBSET DOMAIN es,
           NEW field \in Contents \union Identities \union {None}, NEW count, NEW seconds
    PROVE  ThresholdFinds(es, S, count, seconds, field) = ThresholdFinds(ts, S, count, seconds, field)
<1> DEFINE E(i) == {j \in S : /\ j = i \/ Before(es, i, j)
                              /\ es[j].timestamp <= es[i].timestamp + seconds}
           T(i) == {j \in S : /\ j = i \/ Before(ts, i, j)
                              /\ ts[j].timestamp <= ts[i].timestamp + seconds}
<1>1. \A i \in S : E(i) = T(i)
  <2>1. \A i, j \in S : /\ Before(ts, i, j) <=> Before(es, i, j)
                        /\ ts[j].timestamp <= ts[i].timestamp + seconds
                           <=> es[j].timestamp <= es[i].timestamp + seconds
    BY TimesAlike
  <2> QED
    BY <2>1
<1>2. \A i \in S : E(i) \in SUBSET DOMAIN es
  OBVIOUS
<1>3. /\ ThresholdFinds(es, S, count, seconds, field) =
            UNION {w \in {E(i) : i \in S} : Cardinality(Counted(es, w, field)) >= count}
      /\ ThresholdFinds(ts, S, count, seconds, field) =
            UNION {w \in {T(i) : i \in S} : Cardinality(Counted(ts, w, field)) >= count}
  BY DEF ThresholdFinds
<1> HIDE DEF E, T
<1>4. {E(i) : i \in S} = {T(i) : i \in S}
  BY <1>1
<1>5. \A w \in {E(i) : i \in S} : Cardinality(Counted(es, w, field)) = Cardinality(Counted(ts, w, field))
  <2>1. \A w \in {E(i) : i \in S} : w \in SUBSET DOMAIN es
    BY <1>2
  <2> QED
    BY <2>1, CountedAlike
<1>6. {w \in {E(i) : i \in S} : Cardinality(Counted(es, w, field)) >= count}
         = {w \in {T(i) : i \in S} : Cardinality(Counted(ts, w, field)) >= count}
  BY <1>4, <1>5
<1> QED
  BY <1>3, <1>6

LEMMA ParentChildAlike ==
    ASSUME NEW es, NEW ts, Resembles(es, ts), NEW S \in SUBSET DOMAIN es, NEW T \in SUBSET DOMAIN es
    PROVE  ParentChildFinds(es, S, T) = ParentChildFinds(ts, S, T)
<1>1. \A q \in S \X T : /\ ts[q[1]].process_id = es[q[1]].process_id
                        /\ ts[q[2]].parent_process_id = es[q[2]].parent_process_id
  BY TimesAlike
<1>2. {q \in S \X T : es[q[1]].process_id # None /\ es[q[2]].parent_process_id = es[q[1]].process_id}
         = {q \in S \X T : ts[q[1]].process_id # None /\ ts[q[2]].parent_process_id = ts[q[1]].process_id}
  BY <1>1
<1> QED
  BY <1>2 DEF ParentChildFinds

LEMMA ChildrenAlike ==
    ASSUME NEW es, NEW ts, Resembles(es, ts), NEW links \in SUBSET References
    PROVE  ChildrenOf(es, links) = ChildrenOf(ts, links)
<1> DEFINE D == DOMAIN es
<1>1. /\ DOMAIN ts = D
      /\ \A i \in D : es[i].source_record_id # None /\ ts[i].source_record_id # None
      /\ \A i, j \in D : es[i].source_record_id = es[j].source_record_id
                         <=> ts[i].source_record_id = ts[j].source_record_id
      /\ \A i, j \in D : \A f \in References : es[i].source_record_id \in LinkedIds(es[j], f)
                                               <=> ts[i].source_record_id \in LinkedIds(ts[j], f)
  BY DEF Resembles, Identities
<1>2. \A p \in D : Bearer(es, p) <=> Bearer(ts, p)
  BY <1>1 DEF Bearer
<1>3. \A p, c \in D :
         (\E field \in links : es[p].source_record_id \in LinkedIds(es[c], field) \ {None})
            <=> (\E field \in links : ts[p].source_record_id \in LinkedIds(ts[c], field) \ {None})
  <2> SUFFICES ASSUME NEW p \in D, NEW c \in D
               PROVE  (\E field \in links : es[p].source_record_id \in LinkedIds(es[c], field) \ {None})
                        <=> (\E field \in links : ts[p].source_record_id \in LinkedIds(ts[c], field) \ {None})
    OBVIOUS
  <2>1. \A field \in links : es[p].source_record_id \in LinkedIds(es[c], field) \ {None}
                             <=> ts[p].source_record_id \in LinkedIds(ts[c], field) \ {None}
    BY <1>1
  <2> QED
    BY <2>1
<1> DEFINE Kids(xs, p) ==
              {c \in D \ {p} : /\ Bearer(xs, p)
                               /\ \E field \in links : xs[p].source_record_id
                                                         \in LinkedIds(xs[c], field) \ {None}}
<1>4. ChildrenOf(es, links) = [p \in D |-> Kids(es, p)] /\ ChildrenOf(ts, links) = [p \in D |-> Kids(ts, p)]
  BY <1>1 DEF ChildrenOf
<1>5. \A p \in D : Kids(es, p) = Kids(ts, p)
  BY <1>2, <1>3
<1> HIDE DEF Kids
<1> QED
  BY <1>4, <1>5

LEMMA FanoutAlike ==
    ASSUME NEW es, NEW ts, Resembles(es, ts), Indexed(es),
           NEW S \in SUBSET DOMAIN es, NEW T \in SUBSET DOMAIN es,
           NEW field \in Contents \union Identities \union {None}, NEW links \in SUBSET References,
           NEW count, NEW depth
    PROVE  FanoutFinds(es, S, T, count, field, links, depth) = FanoutFinds(ts, S, T, count, field, links, depth)
<1> DEFINE children == ChildrenOf(es, links)
           Got(r) == Descendants(r, children, depth) \intersect T
<1>1. children = ChildrenOf(ts, links)
  BY ChildrenAlike
<1>2. /\ FanoutFinds(es, S, T, count, field, links, depth) =
            UNION {{r} \union Got(r) : r \in {q \in S : Cardinality(Counted(es, Got(q), field)) >= count}}
      /\ FanoutFinds(ts, S, T, count, field, links, depth) =
            UNION {{r} \union Got(r) : r \in {q \in S : Cardinality(Counted(ts, Got(q), field)) >= count}}
  BY <1>1 DEF FanoutFinds
<1>3. \A q \in S : Got(q) \in SUBSET DOMAIN es
  OBVIOUS
<1> HIDE DEF Got
<1>4. \A q \in S : Cardinality(Counted(es, Got(q), field)) = Cardinality(Counted(ts, Got(q), field))
  BY <1>3, CountedAlike
<1>5. {q \in S : Cardinality(Counted(es, Got(q), field)) >= count}
         = {q \in S : Cardinality(Counted(ts, Got(q), field)) >= count}
  BY <1>4
<1> QED
  BY <1>2, <1>5

LEMMA CausalAlike ==
    ASSUME NEW es, NEW ts, Resembles(es, ts), Indexed(es), Indexed(ts),
           NEW found \in Seq(SUBSET DOMAIN es), found # <<>>, NEW link \in References
    PROVE  CausalFinds(es, found, link) = CausalFinds(ts, found, link)
<1> DEFINE n == Len(found)
           D == DOMAIN es
<1>1. DOMAIN ts = D /\ \A k \in 1 .. n : found[k] \subseteq D
  BY DEF Resembles
<1>2. found \in Seq(SUBSET DOMAIN ts)
  BY <1>1
<1>3. ASSUME NEW last \in D, NEW j \in D PROVE IsKid(es, link, last, j) <=> IsKid(ts, link, last, j)
  <2>1. CASE link = "caused_by_event_ids"
    BY <2>1 DEF IsKid
  <2>2. CASE link # "caused_by_event_ids"
    <3>1. es[last].source_record_id # None /\ ts[last].source_record_id # None
      BY DEF Resembles, Identities
    <3>2. es[last].source_record_id \in LinkedIds(es[j], link) <=> ts[last].source_record_id \in LinkedIds(ts[j], link)
      BY DEF Resembles
    <3>3. LinkedIds(es[j], link) = {es[j][link]} \ {None} /\ LinkedIds(ts[j], link) = {ts[j][link]} \ {None}
      BY <2>2 DEF LinkedIds
    <3>4. es[j][link] = es[last].source_record_id <=> ts[j][link] = ts[last].source_record_id
      BY <3>1, <3>2, <3>3
    <3> QED
      BY <3>1, <3>4 DEF IsKid
  <2> QED
    BY <2>1, <2>2
<1>4. ASSUME NEW k \in 1 .. n, NEW last \in D \union {0}
      PROVE  Kid(es, found, link, last, k) = Kid(ts, found, link, last, k)
  <2> DEFINE E == {j \in found[k] : IsKid(es, link, last, j)}
             T == {j \in found[k] : IsKid(ts, link, last, j)}
  <2>1. E = T
    <3>1. CASE last = 0
      BY <3>1 DEF IsKid
    <3>2. CASE last # 0
      BY <1>1, <1>3, <3>2
    <3> QED
      BY <3>1, <3>2
  <2>2. Kid(es, found, link, last, k) = IF E = {} THEN 0 ELSE First(found[k], E)
    BY DEF Kid, IsKid
  <2>3. Kid(ts, found, link, last, k) = IF T = {} THEN 0 ELSE First(found[k], T)
    BY DEF Kid, IsKid
  <2> HIDE DEF E, T
  <2> QED
    BY <2>1, <2>2, <2>3
<1>5. ASSUME NEW root \in found[1] PROVE CausalChain(es, found, root, link) = CausalChain(ts, found, root, link)
  <2> DEFINE c == CausalChain(es, found, root, link)
             d == CausalChain(ts, found, root, link)
             X == D \union {0}
  <2>1. /\ c \in [1 .. n -> X] /\ c[1] = root
        /\ \A k \in 2 .. n : c[k] = Kid(es, found, link, c[k - 1], k)
    BY CausalIs
  <2>2. /\ d \in [1 .. n -> X] /\ d[1] = root
        /\ \A k \in 2 .. n : d[k] = Kid(ts, found, link, d[k - 1], k)
    BY <1>1, <1>2, CausalIs
  <2> HIDE DEF c, d
  <2>3. ASSUME NEW k \in 2 .. n, c[k - 1] = d[k - 1] PROVE c[k] = d[k]
    <3>1. k \in 1 .. n /\ k - 1 \in 1 .. n
      OBVIOUS
    <3>2. c[k - 1] \in X
      BY <2>1, <3>1
    <3>3. Kid(es, found, link, c[k - 1], k) = Kid(ts, found, link, c[k - 1], k)
      BY <1>4, <3>1, <3>2
    <3> QED
      BY <2>1, <2>2, <2>3, <3>3
  <2>4. n \in Nat
    OBVIOUS
  <2> HIDE DEF X, n
  <2>5. Together(n, c, d)
    <3>1. c = [k \in 1 .. n |-> c[k]] /\ d = [k \in 1 .. n |-> d[k]] /\ c[1] = d[1]
      BY <2>1, <2>2
    <3> QED
      BY <2>3, <3>1 DEF Together
  <2>6. c = d
    BY <2>4, <2>5, SameCourse
  <2> QED
    BY <2>6 DEF c, d
<1>6. {CausalChain(es, found, r, link) : r \in found[1]} = {CausalChain(ts, found, r, link) : r \in found[1]}
  BY <1>5
<1> QED
  BY <1>6 DEF CausalFinds

\* A nameless node finds the same in both.
LEMMA NodesAlike ==
    ASSUME NEW N, NEW x, x.type \in Conditions \union Relations, Formed(x), Nameless(x),
           x.type \in {"sequence", "causal_graph", "graph_path"} => x.steps \in Seq(N),
           NEW es, NEW ts, Resembles(es, ts), Indexed(es), Indexed(ts), NEW found,
           \A y \in Parts(x) : found[y] \subseteq DOMAIN es
    PROVE  NodeFinds(x, es, found) = NodeFinds(x, ts, found)
<1>1. CASE x.type = "match"
  <2>1. \A p \in x.predicates : p.field \in Contents \/ (p.field \in Identities /\ p.operator = "exists")
    BY <1>1 DEF Nameless
  <2>2. \A i \in DOMAIN es : \A p \in x.predicates : PredicateMatches(es[i], p) = PredicateMatches(ts[i], p)
    BY <2>1, PredicatesAlike
  <2>3. DOMAIN ts = DOMAIN es
    BY DEF Resembles
  <2>4. {i \in DOMAIN es : \A p \in x.predicates : PredicateMatches(es[i], p)}
           = {i \in DOMAIN ts : \A p \in x.predicates : PredicateMatches(ts[i], p)}
    BY <2>2, <2>3
  <2>5. NodeFinds(x, es, found) = {i \in DOMAIN es : \A p \in x.predicates : PredicateMatches(es[i], p)}
    BY <1>1, NodeFindsIs
  <2>6. NodeFinds(x, ts, found) = {i \in DOMAIN ts : \A p \in x.predicates : PredicateMatches(ts[i], p)}
    BY <1>1, NodeFindsIs
  <2> QED
    BY <2>4, <2>5, <2>6
<1>2. CASE x.type = "all"
  <2>1. DOMAIN ts = DOMAIN es
    BY DEF Resembles
  <2>2. NodeFinds(x, es, found) = {i \in DOMAIN es : \A y \in x.children : i \in found[y]}
    BY <1>2, NodeFindsIs
  <2>3. NodeFinds(x, ts, found) = {i \in DOMAIN ts : \A y \in x.children : i \in found[y]}
    BY <1>2, NodeFindsIs
  <2> QED
    BY <2>1, <2>2, <2>3
<1>3. CASE x.type = "any"
  <2>1. NodeFinds(x, es, found) = UNION {found[y] : y \in x.children}
    BY <1>3, NodeFindsIs
  <2>2. NodeFinds(x, ts, found) = UNION {found[y] : y \in x.children}
    BY <1>3, NodeFindsIs
  <2> QED
    BY <2>1, <2>2
<1>4. CASE x.type = "not"
  <2>1. DOMAIN ts = DOMAIN es
    BY DEF Resembles
  <2>2. NodeFinds(x, es, found) = DOMAIN es \ found[x.child] /\ NodeFinds(x, ts, found) = DOMAIN ts \ found[x.child]
    BY <1>4, NodeFindsIs
  <2> QED
    BY <2>1, <2>2
<1>5. CASE x.type = "threshold"
  <2>1. found[x.child] \in SUBSET DOMAIN es
    BY <1>5, PartsAre
  <2>2. x.distinct_field \in Contents \union Identities \union {None}
    BY <1>5 DEF Nameless
  <2>3. ThresholdFinds(es, found[x.child], x.count, x.window_seconds, x.distinct_field)
           = ThresholdFinds(ts, found[x.child], x.count, x.window_seconds, x.distinct_field)
    BY <2>1, <2>2, ThresholdAlike
  <2> QED
    BY <1>5, <2>3, NodeFindsIs
<1>6. CASE x.type = "parent_child"
  <2>1. found[x.parent] \in SUBSET DOMAIN es /\ found[x.child] \in SUBSET DOMAIN es
    BY <1>6, PartsAre
  <2>2. ParentChildFinds(es, found[x.parent], found[x.child]) = ParentChildFinds(ts, found[x.parent], found[x.child])
    BY <2>1, ParentChildAlike
  <2> QED
    BY <1>6, <2>2, NodeFindsIs
<1>7. CASE x.type = "graph_fanout"
  <2>1. found[x.root] \in SUBSET DOMAIN es /\ found[x.descendant] \in SUBSET DOMAIN es
    BY <1>7, PartsAre
  <2>2. x.distinct_field \in Contents \union Identities \union {None} /\ x.link_fields \in SUBSET References
    BY <1>7 DEF Nameless
  <2>3. FanoutFinds(es, found[x.root], found[x.descendant], x.count, x.distinct_field, x.link_fields, x.max_depth)
           = FanoutFinds(ts, found[x.root], found[x.descendant], x.count, x.distinct_field, x.link_fields, x.max_depth)
    BY <2>1, <2>2, FanoutAlike
  <2> QED
    BY <1>7, <2>3, NodeFindsIs
<1>8. CASE x.type \in {"sequence", "causal_graph", "graph_path"}
  <2> DEFINE R == {x.steps[k] : k \in 1 .. Len(x.steps)}
             each == EachOf(x.steps, found)
  <2>1. x.steps \in Seq(R) /\ Parts(x) = R /\ x.steps # <<>>
    <3>1. x.steps \in Seq(N)
      BY <1>8
    <3>2. Parts(x) = {x.steps[k] : k \in DOMAIN x.steps}
      BY <1>8, PartsAre
    <3>3. x.steps # <<>>
      <4>1. Len(<<>>) = 0
        OBVIOUS
      <4> QED
        BY <1>8, <4>1, FormedIs
    <3> QED
      BY <3>1, <3>2, <3>3
  <2> HIDE DEF R
  <2>2. each \in Seq(SUBSET DOMAIN es) /\ Len(each) = Len(x.steps)
    <3>1. \A y \in R : found[y] \subseteq DOMAIN es
      BY <2>1
    <3>2. each \in Seq(SUBSET DOMAIN es)
      BY <2>1, <3>1, EachOfWithin
    <3>3. Len(each) = Len(x.steps)
      BY <2>1, EachOfIs
    <3> QED
      BY <3>2, <3>3
  <2>3. each # <<>>
    BY <2>1, <2>2
  <2> HIDE DEF each
  <2>4. CASE x.type = "sequence"
    <3>1. SequenceFinds(es, each, x.max_span_seconds) = SequenceFinds(ts, each, x.max_span_seconds)
      BY <2>2, <2>3, SequenceAlike
    <3> QED
      BY <2>4, <3>1, NodeFindsIs DEF each
  <2>5. CASE x.type = "causal_graph"
    <3>1. x.link_field \in References
      BY <2>5 DEF Nameless
    <3>2. CausalFinds(es, each, x.link_field) = CausalFinds(ts, each, x.link_field)
      BY <2>2, <2>3, <3>1, CausalAlike
    <3> QED
      BY <2>5, <3>2, NodeFindsIs DEF each
  <2>6. CASE x.type = "graph_path"
    <3>1. x.link_fields \in SUBSET References
      BY <2>6 DEF Nameless
    <3>2. PathFinds(es, each, x.link_fields, x.max_depth) = PathFinds(ts, each, x.link_fields, x.max_depth)
      BY <3>1, ChildrenAlike DEF PathFinds
    <3> QED
      BY <2>6, <3>2, NodeFindsIs DEF each
  <2> QED
    BY <1>8, <2>4, <2>5, <2>6
<1> QED
  BY <1>1, <1>2, <1>3, <1>4, <1>5, <1>6, <1>7, <1>8 DEF Conditions, Relations

LEMMA FoundAlike ==
    ASSUME NEW x, Tree(x), \A y \in Nested(x) : Nameless(y),
           NEW es, NEW ts, Resembles(es, ts), Indexed(es), Indexed(ts)
    PROVE  \A y \in Nested(x) : Found(x, es)[y] = Found(x, ts)[y]
<1> DEFINE N == Nested(x)
           f == Found(x, es)
           g == Found(x, ts)
<1>1. PICK height : Ranked(x, height)
  BY TreeIs
<1>2. /\ \A y \in N : height[y] \in 0 .. MaxNesting
      /\ \A y \in N : \A z \in Parts(y) : z \in N /\ height[z] < height[y]
  BY <1>1 DEF Ranked
<1>3. /\ \A y \in N : f[y] = NodeFinds(y, es, f) /\ g[y] = NodeFinds(y, ts, g)
      /\ \A y \in N : f[y] \subseteq DOMAIN es
  BY FoundIs, FoundWithin
<1> DEFINE I == {n \in Nat : \A y \in N : height[y] < n => f[y] = g[y]}
<1> HIDE DEF f, g
<1>4. 0 \in I
  BY <1>2, EngineAssumption
<1>5. ASSUME NEW n \in Nat, n \in I PROVE n + 1 \in I
  <2> SUFFICES ASSUME NEW y \in N, height[y] < n + 1 PROVE f[y] = g[y]
    OBVIOUS
  <2>1. ASSUME NEW z \in Parts(y) PROVE f[z] = g[z] /\ z \in N
    <3>1. height[z] < height[y] /\ z \in N
      BY <1>2, <2>1
    <3>2. height[y] \in Nat /\ height[z] \in Nat
      BY <1>2, <3>1
    <3>3. height[z] < n
      BY <3>1, <3>2
    <3> QED
      BY <1>5, <3>1, <3>3
  <2>2. /\ y.type \in Conditions \union Relations /\ Formed(y) /\ Nameless(y)
        /\ y.type \in {"sequence", "causal_graph", "graph_path"} => y.steps \in Seq(N)
    BY TreeIs
  <2>3. NodeFinds(y, ts, f) = NodeFinds(y, ts, g)
    BY <2>1, <2>2, NodeFindsAlike
  <2>4. \A z \in Parts(y) : f[z] \subseteq DOMAIN es
    BY <1>3, <2>1
  <2>5. NodeFinds(y, es, f) = NodeFinds(y, ts, f)
    <3> HIDE DEF N
    <3> QED
      BY <2>2, <2>4, NodesAlike
  <2> QED
    BY <1>3, <2>3, <2>5
<1>6. MaxNesting + 1 \in I
  <2>1. Nat \subseteq I
    <3> HIDE DEF I
    <3> QED
      BY <1>4, <1>5, SetInduction
  <2> HIDE DEF I
  <2> QED
    BY <2>1, EngineAssumption DEF EngineAssumption
<1>7. \A y \in N : height[y] < MaxNesting + 1
  BY <1>2, EngineAssumption DEF EngineAssumption
<1> QED
  BY <1>6, <1>7 DEF f, g

-----------------------------------------------------------------------------
(* The synthetic twin.                                                         *)

LEMMA ResemblesWithin ==
    ASSUME NEW es, NEW ts, Resembles(es, ts), NEW S \in SUBSET DOMAIN es
    PROVE  Resembles(Restrict(es, S), Restrict(ts, S))
<1>1. /\ DOMAIN Restrict(es, S) = S /\ DOMAIN Restrict(ts, S) = S
      /\ \A i \in S : Restrict(es, S)[i] = es[i] /\ Restrict(ts, S)[i] = ts[i]
  BY DEF Restrict
<1> QED
  BY <1>1 DEF Resembles

\* An event and its twin.
LEMMA TwinIs ==
    ASSUME SweptInv, NEW i \in DOMAIN candidate
    PROVE  LET ids == {candidate[j].source_record_id : j \in DOMAIN candidate}
               e   == candidate[i]
               t   == Twin(candidate)[i]
           IN  /\ \A f \in Contents : t[f] = e[f]
               /\ t.source_record_id = Alias["event"][e.source_record_id]
               /\ t.agent_id = Alias["agent"][e.agent_id]
               /\ t.parent_event_id =
                     IF e.parent_event_id \in ids THEN Alias["event"][e.parent_event_id] ELSE None
               /\ t.caused_by_event_ids = {Alias["event"][id] : id \in e.caused_by_event_ids \intersect ids}
<1> DEFINE ids == {candidate[j].source_record_id : j \in DOMAIN candidate}
           e   == candidate[i]
<1>1. e \in Records /\ e = [f \in Fields |-> e[f]]
  BY RecordingAssumption DEF SweptInv, RecordingAssumption
<1>2. {"source_record_id", "agent_id", "parent_event_id", "caused_by_event_ids"} \subseteq Fields
  BY RecordingAssumption DEF RecordingAssumption
<1>3. Twin(candidate)[i] = [e EXCEPT
                !.source_record_id = Alias["event"][@],
                !.agent_id = Alias["agent"][@],
                !.parent_event_id = IF @ \in ids THEN Alias["event"][@] ELSE None,
                !.caused_by_event_ids = {Alias["event"][id] : id \in @ \intersect ids},
                !.source = "runtime", !.source_runtime = "runtime", !.synthetic_twin = "true",
                !.executed = "false", !.source_event_digest = e.source_record_id]
  BY DEF Twin
<1>4. DOMAIN e = Fields
  BY <1>1
<1> HIDE DEF e, ids
<1>5. \A f \in Contents : f \in Fields /\ f \notin Marks
                           /\ f \notin {"source_record_id", "agent_id", "parent_event_id", "caused_by_event_ids"}
  BY DEF Contents, Identities, References
<1>6. \A f \in Contents : Twin(candidate)[i][f] = e[f]
  BY <1>3, <1>4, <1>5 DEF Marks
<1>7. /\ Twin(candidate)[i].source_record_id = Alias["event"][e.source_record_id]
      /\ Twin(candidate)[i].agent_id = Alias["agent"][e.agent_id]
      /\ Twin(candidate)[i].parent_event_id =
            IF e.parent_event_id \in ids THEN Alias["event"][e.parent_event_id] ELSE None
      /\ Twin(candidate)[i].caused_by_event_ids =
            {Alias["event"][id] : id \in e.caused_by_event_ids \intersect ids}
  BY <1>2, <1>3, <1>4
<1> QED
  BY <1>6, <1>7 DEF e, ids

LEMMA TwinResembles ==
    ASSUME SweptInv,
           \A i \in DOMAIN candidate : candidate[i].source_record_id # None /\ candidate[i].agent_id # None
    PROVE  Resembles(candidate, Twin(candidate))
<1> DEFINE D   == DOMAIN candidate
           ids == {candidate[j].source_record_id : j \in D}
           t   == Twin(candidate)
           A   == Alias["event"]
<1>1. DOMAIN t = D
  BY DEF Twin
<1>2. \A i \in D : /\ candidate[i] \in Records
                   /\ candidate[i].source_record_id \in DOMAIN A
                   /\ candidate[i].agent_id \in DOMAIN Alias["agent"]
  BY AliasAssumption DEF SweptInv, AliasAssumption
<1>3. /\ \A a \in DOMAIN A : A[a] # None /\ \A b \in DOMAIN A : A[a] = A[b] => a = b
      /\ \A a \in DOMAIN Alias["agent"] : /\ Alias["agent"][a] # None
                                          /\ \A b \in DOMAIN Alias["agent"] :
                                                Alias["agent"][a] = Alias["agent"][b] => a = b
  BY AliasAssumption DEF AliasAssumption
<1>4. \A i \in D : /\ \A f \in Contents : t[i][f] = candidate[i][f]
                   /\ t[i].source_record_id = A[candidate[i].source_record_id]
                   /\ t[i].agent_id = Alias["agent"][candidate[i].agent_id]
                   /\ t[i].parent_event_id = IF candidate[i].parent_event_id \in ids
                                             THEN A[candidate[i].parent_event_id] ELSE None
                   /\ t[i].caused_by_event_ids = {A[id] : id \in candidate[i].caused_by_event_ids \intersect ids}
  BY TwinIs
<1>5. ids \subseteq DOMAIN A
  BY <1>2
<1>6. \A i \in D : candidate[i].source_record_id \in ids
  OBVIOUS
<1>7. \A i \in D : candidate[i].source_record_id # None /\ candidate[i].agent_id # None
  OBVIOUS
<1> HIDE DEF D, ids, t, A
<1>8. ASSUME NEW i \in D PROVE \A f \in Identities : candidate[i][f] # None /\ t[i][f] # None
  BY <1>2, <1>3, <1>4, <1>7 DEF Identities
<1>9. ASSUME NEW i \in D, NEW j \in D
      PROVE  \A f \in Identities : candidate[i][f] = candidate[j][f] <=> t[i][f] = t[j][f]
  BY <1>2, <1>3, <1>4 DEF Identities
<1>10. ASSUME NEW i \in D, NEW j \in D
       PROVE  candidate[i].source_record_id \in LinkedIds(candidate[j], "parent_event_id")
                <=> t[i].source_record_id \in LinkedIds(t[j], "parent_event_id")
  <2> DEFINE id == candidate[i].source_record_id
             p  == candidate[j].parent_event_id
  <2>1. LinkedIds(candidate[j], "parent_event_id") = {p} \ {None}
        /\ LinkedIds(t[j], "parent_event_id") = {t[j].parent_event_id} \ {None}
    BY DEF LinkedIds
  <2>2. id \in ids /\ id # None /\ id \in DOMAIN A /\ t[i].source_record_id = A[id] /\ A[id] # None
        /\ t[j].parent_event_id = IF p \in ids THEN A[p] ELSE None
    BY <1>2, <1>3, <1>4, <1>6, <1>7
  <2> HIDE DEF id, p
  <2>3. id = p <=> A[id] = t[j].parent_event_id
    BY <1>3, <1>5, <2>2
  <2>4. id \in {p} \ {None} <=> A[id] \in {t[j].parent_event_id} \ {None}
    BY <2>2, <2>3
  <2> QED
    BY <2>1, <2>2, <2>4 DEF id
<1>11. ASSUME NEW i \in D, NEW j \in D
       PROVE  candidate[i].source_record_id \in LinkedIds(candidate[j], "caused_by_event_ids")
                <=> t[i].source_record_id \in LinkedIds(t[j], "caused_by_event_ids")
  <2> DEFINE id == candidate[i].source_record_id
             C  == candidate[j].caused_by_event_ids
  <2>1. LinkedIds(candidate[j], "caused_by_event_ids") = C
        /\ LinkedIds(t[j], "caused_by_event_ids") = {A[c] : c \in C \intersect ids}
    BY <1>4 DEF LinkedIds
  <2>2. id \in ids /\ id \in DOMAIN A /\ t[i].source_record_id = A[id]
    BY <1>2, <1>4, <1>6
  <2> HIDE DEF id, C
  <2>3. id \in C <=> A[id] \in {A[c] : c \in C \intersect ids}
    BY <1>3, <1>5, <2>2
  <2> QED
    BY <2>1, <2>2, <2>3 DEF id
<1>12. ASSUME NEW i \in D, NEW j \in D
       PROVE  \A f \in References : candidate[i].source_record_id \in LinkedIds(candidate[j], f)
                                    <=> t[i].source_record_id \in LinkedIds(t[j], f)
  BY <1>10, <1>11 DEF References
<1> QED
  BY <1>1, <1>4, <1>8, <1>9, <1>12 DEF Resembles, D, t

\* TwinMatchesAlike: for every pack, recording and choice of pseudonyms, rules that name no id
\* find the same events in a recording and in its synthetic twin (flight_recorder.py).
THEOREM TwinsMatchAlike == Spec => []TwinMatchesAlike
<1>1. ASSUME SweptInv PROVE TwinMatchesAlike
  <2> DEFINE t == Twin(candidate)
             All(r, es) == UNION {GroupMatches(Pack[r], es, key) : key \in Keys(Pack[r], es)}
  <2> SUFFICES ASSUME \A i \in DOMAIN candidate :
                         candidate[i].source_record_id # None /\ candidate[i].agent_id # None,
                      NEW r \in Anonymous
               PROVE  All(r, t) = All(r, candidate)
    BY DEF TwinMatchesAlike
  <2> DEFINE D == DOMAIN candidate
             rule == Pack[r]
             x == rule.expression
             Of(es, i) == GroupKey(es[i], rule.group_by)
             G(i) == {j \in D : Of(candidate, j) = Of(candidate, i)}
  <2>1. Resembles(candidate, t) /\ DOMAIN t = D
    BY <1>1, TwinResembles DEF Resembles
  <2>2. /\ r \in Rules /\ Tree(x) /\ \A y \in Nested(x) : Nameless(y)
        /\ rule.group_by \subseteq Contents \union Identities
    BY PackAssumption DEF Anonymous, NamesNoId, PackAssumption
  <2>3. \A i, j \in D : Of(candidate, i) = Of(candidate, j) <=> Of(t, i) = Of(t, j)
    <3> SUFFICES ASSUME NEW i \in D, NEW j \in D
                 PROVE  Of(candidate, i) = Of(candidate, j) <=> Of(t, i) = Of(t, j)
      OBVIOUS
    <3>1. \A f \in rule.group_by : candidate[i][f] = candidate[j][f] <=> t[i][f] = t[j][f]
      BY <2>1, <2>2 DEF Resembles
    <3>2. Of(candidate, i) = Of(candidate, j) <=> \A f \in rule.group_by : candidate[i][f] = candidate[j][f]
      BY DEF GroupKey
    <3>3. Of(t, i) = Of(t, j) <=> \A f \in rule.group_by : t[i][f] = t[j][f]
      BY DEF GroupKey
    <3> QED
      BY <3>1, <3>2, <3>3
  <2>4. \A i \in D : Group(rule, candidate, Of(candidate, i)) = G(i) /\ Group(rule, t, Of(t, i)) = G(i)
    BY <2>1, <2>3 DEF Group
  <2>5. ASSUME NEW i \in D
        PROVE  GroupMatches(rule, candidate, Of(candidate, i)) = GroupMatches(rule, t, Of(t, i))
    <3> DEFINE es == Restrict(candidate, G(i))
               ts == Restrict(t, G(i))
    <3>1. es = GroupEvents(r, Of(candidate, i))
      BY <2>4, <2>5 DEF GroupEvents
    <3>2. Indexed(es)
      BY <1>1, <2>2, <3>1, GroupIs
    <3>3. Resembles(es, ts)
      <4>1. G(i) \in SUBSET DOMAIN candidate
        OBVIOUS
      <4> HIDE DEF G, t
      <4> QED
        BY <2>1, <4>1, ResemblesWithin
    <3> HIDE DEF G
    <3>4. GroupMatches(rule, candidate, Of(candidate, i)) = Found(x, es)[x]
      BY <2>4, <2>5 DEF GroupMatches, Matches
    <3>5. GroupMatches(rule, t, Of(t, i)) = Found(x, ts)[x]
      BY <2>4, <2>5 DEF GroupMatches, Matches
    <3> HIDE DEF es, ts, x
    <3>6. Indexed(ts)
      BY <3>2, <3>3, TimesAlike DEF Indexed
    <3>7. x \in Nested(x)
      BY <2>2, TreeIs
    <3>8. Found(x, es)[x] = Found(x, ts)[x]
      BY <2>2, <3>2, <3>3, <3>6, <3>7, FoundAlike
    <3> QED
      BY <3>4, <3>5, <3>8
  <2>6. Keys(rule, candidate) = {Of(candidate, i) : i \in D} /\ Keys(rule, t) = {Of(t, i) : i \in D}
    BY <2>1 DEF Keys
  <2> HIDE DEF t, Of, rule, D
  <2>7. All(r, candidate) = UNION {GroupMatches(rule, candidate, Of(candidate, i)) : i \in D}
    BY <2>6 DEF rule
  <2>8. All(r, t) = UNION {GroupMatches(rule, t, Of(t, i)) : i \in D}
    BY <2>6 DEF rule
  <2>9. {GroupMatches(rule, candidate, Of(candidate, i)) : i \in D} = {GroupMatches(rule, t, Of(t, i)) : i \in D}
    BY <2>5
  <2> QED
    BY <2>7, <2>8, <2>9
<1> QED
  BY <1>1, SweptIsCurrent, PTL DEF Spec

\* EngineExact: what a rule finds is what its nodes mean, and its twin shows the same.
THEOREM EngineIsExact == Spec => []EngineExact
BY SequencesAreExact, PathsAreExact, ChainsAreConnected, TwinsMatchAlike, PTL DEF EngineExact

-----------------------------------------------------------------------------
(* More evidence.                                                              *)

\* Events collected with others of their group, no two of one id.
Grown(es, ts) ==
    /\ Indexed(es) /\ Indexed(ts)
    /\ DOMAIN es \subseteq DOMAIN ts
    /\ \A i \in DOMAIN es : ts[i] = es[i]
    /\ \A i, j \in DOMAIN ts : ts[i].source_record_id = ts[j].source_record_id => i = j

\* What conditions find among the later events, they found of the earlier ones.
Kept(es, f, g) ==
    /\ Len(g) = Len(f)
    /\ \A k \in 1 .. Len(f) : f[k] = g[k] \intersect DOMAIN es

LEMMA GrownIs ==
    ASSUME NEW es, NEW ts, Grown(es, ts)
    PROVE  /\ Indexed(es) /\ Indexed(ts) /\ DOMAIN es \subseteq DOMAIN ts
           /\ \A i \in DOMAIN es : ts[i] = es[i]
           /\ \A i, j \in DOMAIN es : Before(es, i, j) <=> Before(ts, i, j)
<1>1. /\ DOMAIN es \subseteq DOMAIN ts /\ \A i \in DOMAIN es : ts[i] = es[i]
      /\ Indexed(es) /\ Indexed(ts)
  BY DEF Grown
<1> QED
  BY <1>1 DEF Before

LEMMA SequenceGrows ==
    ASSUME NEW es, NEW ts, Grown(es, ts), NEW f \in Seq(SUBSET DOMAIN es), f # <<>>,
           NEW g \in Seq(SUBSET DOMAIN ts), Kept(es, f, g), NEW span \in Nat,
           SequenceFinds(es, f, span) # {}
    PROVE  SequenceFinds(ts, g, span) # {}
<1> DEFINE n == Len(f)
           D == DOMAIN es
<1>1. /\ Indexed(es) /\ Indexed(ts) /\ D \subseteq DOMAIN ts
      /\ \A i \in D : ts[i] = es[i]
      /\ \A i, j \in D : Before(es, i, j) <=> Before(ts, i, j)
  BY GrownIs
<1>2. n \in Nat \ {0} /\ Len(g) = n /\ g # <<>> /\ \A k \in 1 .. n : f[k] \subseteq g[k]
  BY DEF Kept
<1>3. PICK d \in [1 .. n -> D] : Follows(es, f, d) /\ es[d[n]].timestamp - es[d[1]].timestamp <= span
  BY <1>1, SequenceFindsExactly
<1> HIDE DEF n, D
<1>4. 1 \in 1 .. n /\ n \in 1 .. n /\ \A k \in 1 .. (n - 1) : k \in 1 .. n /\ k + 1 \in 1 .. n
  BY <1>2
<1>5. d \in [1 .. n -> DOMAIN ts]
  BY <1>1
<1>6. /\ \A k \in 1 .. n : d[k] \in g[k]
      /\ \A k \in 1 .. (n - 1) : Before(ts, d[k], d[k + 1])
  BY <1>1, <1>2, <1>3, <1>4 DEF Follows, n
<1>7. Follows(ts, g, d)
  BY <1>2, <1>5, <1>6 DEF Follows
<1>8. ts[d[n]].timestamp - ts[d[1]].timestamp <= span
  BY <1>1, <1>3, <1>4
<1>9. \E c \in [1 .. n -> DOMAIN ts] :
         Follows(ts, g, c) /\ ts[c[n]].timestamp - ts[c[1]].timestamp <= span
  BY <1>5, <1>7, <1>8
<1> QED
  BY <1>1, <1>2, <1>9, SequenceFindsExactly

\* Whoever has more children reaches more.
Wider(D, children, E, more) ==
    /\ children \in [D -> SUBSET D] /\ more \in [E -> SUBSET E] /\ D \subseteq E
    /\ \A p \in D : children[p] \subseteq more[p]

LEMMA WithinWider ==
    ASSUME NEW D, NEW E, NEW children, NEW more, Wider(D, children, E, more),
           NEW i, NEW j, NEW depth, Within(children, i, j, depth)
    PROVE  Within(more, i, j, depth)
<1> USE DEF Wider
<1>1. PICK len \in 1 .. depth : \E p \in [0 .. len -> D] : Leads(children, i, j, len, p)
  BY DEF Within
<1>2. PICK p \in [0 .. len -> D] : Leads(children, i, j, len, p)
  BY <1>1
<1>3. p \in [0 .. len -> E] /\ p[0] = i /\ p[len] = j
  BY <1>2 DEF Leads
<1>4. \A k \in 1 .. len : p[k] \in more[p[k - 1]]
  <2> SUFFICES ASSUME NEW k \in 1 .. len PROVE p[k] \in more[p[k - 1]]
    OBVIOUS
  <2>1. k - 1 \in 0 .. len
    OBVIOUS
  <2>2. p[k - 1] \in D /\ p[k] \in children[p[k - 1]]
    BY <1>2, <2>1 DEF Leads
  <2> QED
    BY <2>2
<1>5. Leads(more, i, j, len, p)
  BY <1>3, <1>4 DEF Leads
<1> QED
  BY <1>1, <1>3, <1>5 DEF Within

LEMMA ChildrenGrow ==
    ASSUME NEW es, NEW ts, Grown(es, ts), NEW links
    PROVE  Wider(DOMAIN es, ChildrenOf(es, links), DOMAIN ts, ChildrenOf(ts, links))
<1>1. /\ DOMAIN es \subseteq DOMAIN ts /\ \A i \in DOMAIN es : ts[i] = es[i]
      /\ DOMAIN ts \subseteq Nat
  BY GrownIs DEF Indexed
<1>2. \A i \in DOMAIN ts : Bearer(ts, i)
  BY <1>1 DEF Bearer, Grown
<1>3. ASSUME NEW p \in DOMAIN es PROVE ChildrenOf(es, links)[p] \subseteq ChildrenOf(ts, links)[p]
  <2>1. \A c \in DOMAIN es : \A field \in links :
           es[p].source_record_id \in LinkedIds(es[c], field) \ {None}
           => ts[p].source_record_id \in LinkedIds(ts[c], field) \ {None}
    BY <1>1
  <2> QED
    BY <1>1, <1>2, <2>1 DEF ChildrenOf
<1> QED
  BY <1>1, <1>3, ChildrenAre DEF Wider

LEMMA PathGrows ==
    ASSUME NEW es, NEW ts, Grown(es, ts), NEW f \in Seq(SUBSET DOMAIN es), f # <<>>,
           NEW g \in Seq(SUBSET DOMAIN ts), Kept(es, f, g), NEW links, NEW depth \in Nat,
           PathFinds(es, f, links, depth) # {}
    PROVE  PathFinds(ts, g, links, depth) # {}
<1> DEFINE n == Len(f)
           D == DOMAIN es
           E == DOMAIN ts
           children == ChildrenOf(es, links)
           more == ChildrenOf(ts, links)
<1>1. Wider(D, children, E, more) /\ D \subseteq E
  BY ChildrenGrow, GrownIs
<1>2. n \in Nat \ {0} /\ Len(g) = n /\ g # <<>> /\ \A k \in 1 .. n : f[k] \subseteq g[k]
  BY DEF Kept
<1>3. PICK c \in [1 .. n -> D] : Links(D, f, children, depth, n, c)
  BY PathFindsExactly
<1> HIDE DEF n, D, E, children, more
<1>4. c \in [1 .. n -> E] /\ \A k \in 1 .. n : c[k] \in g[k]
  BY <1>1, <1>2, <1>3 DEF Links
<1>5. \A k \in 1 .. (n - 1) : Within(more, c[k], c[k + 1], depth)
  BY <1>1, <1>3, WithinWider DEF Links
<1>6. Links(E, g, more, depth, n, c)
  BY <1>4, <1>5 DEF Links
<1> QED
  BY <1>2, <1>4, <1>6, PathFindsExactly DEF E, more

\* Conditions that a group of one host or agent satisfies as a parent and its child.
LEMMA ParentChildGrows ==
    ASSUME NEW es, NEW ts, Grown(es, ts), NEW S \in SUBSET DOMAIN es, NEW T \in SUBSET DOMAIN es,
           NEW U, NEW V, S \subseteq U, T \subseteq V,
           ParentChildFinds(es, S, T) # {}
    PROVE  ParentChildFinds(ts, U, V) # {}
<1>1. PICK q \in S \X T : /\ es[q[1]].process_id # None
                          /\ es[q[2]].parent_process_id = es[q[1]].process_id
  BY DEF ParentChildFinds
<1>2. q \in U \X V /\ ts[q[1]] = es[q[1]] /\ ts[q[2]] = es[q[2]]
  BY GrownIs
<1> DEFINE Q == {r \in U \X V : ts[r[1]].process_id # None /\ ts[r[2]].parent_process_id = ts[r[1]].process_id}
<1>3. q \in Q
  BY <1>1, <1>2
<1>4. ParentChildFinds(ts, U, V) = UNION {{pc[1], pc[2]} : pc \in Q}
  BY DEF ParentChildFinds
<1> HIDE DEF Q
<1>5. q[1] \in UNION {{pc[1], pc[2]} : pc \in Q}
  BY <1>3
<1> QED
  BY <1>4, <1>5

\* More events count for as many values or more.
LEMMA CountedGrows ==
    ASSUME NEW es, NEW ts, Grown(es, ts), NEW w \in SUBSET DOMAIN es, NEW v \in SUBSET DOMAIN ts,
           w \subseteq v, NEW field, NEW count \in Nat, Cardinality(Counted(es, w, field)) >= count
    PROVE  Cardinality(Counted(ts, v, field)) >= count
<1> DEFINE Small == Counted(es, w, field)
           Large == Counted(ts, v, field)
<1>1. \A i \in w : ts[i] = es[i]
  BY GrownIs
<1>2. Small \subseteq Large
  BY <1>1 DEF Counted
<1>3. IsFiniteSet(v)
  BY GrownIs, FS_Subset DEF Indexed
<1>4. IsFiniteSet(Large)
  <2> DEFINE I == {ts[i][field] : i \in v}
             h == [i \in v |-> ts[i][field]]
  <2>1. h \in Surjection(v, I)
    BY DEF Surjection
  <2>2. IsFiniteSet(I)
    <3> HIDE DEF I, h
    <3> QED
      BY <1>3, <2>1, FS_Surjection
  <2>3. I \ {None} \in SUBSET I
    OBVIOUS
  <2>4. IsFiniteSet(I \ {None})
    <3> HIDE DEF I
    <3> QED
      BY <2>2, <2>3, FS_Subset
  <2>5. Large = v \/ Large = I \ {None}
    BY DEF Counted
  <2> HIDE DEF I, Large
  <2> QED
    BY <1>3, <2>4, <2>5
<1> HIDE DEF Small, Large
<1>5. IsFiniteSet(Small) /\ Cardinality(Small) <= Cardinality(Large)
  BY <1>2, <1>4, FS_Subset
<1>6. Cardinality(Small) \in Nat /\ Cardinality(Large) \in Nat
  BY <1>4, <1>5, FS_CardinalityType
<1> QED
  BY <1>5, <1>6 DEF Small, Large

LEMMA ThresholdGrows ==
    ASSUME NEW es, NEW ts, Grown(es, ts), NEW S \in SUBSET DOMAIN es, NEW T \in SUBSET DOMAIN ts,
           S \subseteq T, NEW count \in Nat, NEW seconds, NEW field,
           ThresholdFinds(es, S, count, seconds, field) # {}
    PROVE  ThresholdFinds(ts, T, count, seconds, field) # {}
<1> DEFINE W(i) == {j \in S : /\ j = i \/ Before(es, i, j)
                              /\ es[j].timestamp <= es[i].timestamp + seconds}
           V(i) == {j \in T : /\ j = i \/ Before(ts, i, j)
                              /\ ts[j].timestamp <= ts[i].timestamp + seconds}
<1>1. \A i \in S : W(i) \subseteq V(i)
  BY GrownIs
<1>2. /\ \A i \in S : W(i) \in SUBSET DOMAIN es
      /\ \A i \in T : V(i) \in SUBSET DOMAIN ts
  OBVIOUS
<1>3. /\ ThresholdFinds(es, S, count, seconds, field) =
            UNION {w \in {W(i) : i \in S} : Cardinality(Counted(es, w, field)) >= count}
      /\ ThresholdFinds(ts, T, count, seconds, field) =
            UNION {w \in {V(i) : i \in T} : Cardinality(Counted(ts, w, field)) >= count}
  BY DEF ThresholdFinds
<1> HIDE DEF W, V
<1>4. PICK i \in S : W(i) # {} /\ Cardinality(Counted(es, W(i), field)) >= count
  BY <1>3
<1>5. i \in T /\ V(i) # {} /\ V(i) \in {V(j) : j \in T}
  BY <1>1, <1>4
<1>6. Cardinality(Counted(ts, V(i), field)) >= count
  BY <1>1, <1>2, <1>4, <1>5, CountedGrows
<1> QED
  BY <1>3, <1>5, <1>6

LEMMA FanoutGrows ==
    ASSUME NEW es, NEW ts, Grown(es, ts), NEW S \in SUBSET DOMAIN es, NEW T \in SUBSET DOMAIN es,
           NEW U \in SUBSET DOMAIN ts, NEW V \in SUBSET DOMAIN ts, S \subseteq U, T \subseteq V,
           NEW count \in Nat, NEW field, NEW links, NEW depth \in Nat,
           FanoutFinds(es, S, T, count, field, links, depth) # {}
    PROVE  FanoutFinds(ts, U, V, count, field, links, depth) # {}
<1> DEFINE D == DOMAIN es
           E == DOMAIN ts
           children == ChildrenOf(es, links)
           more == ChildrenOf(ts, links)
           Few(r) == Descendants(r, children, depth) \intersect T
           Many(r) == Descendants(r, more, depth) \intersect V
<1>1. Wider(D, children, E, more)
  BY ChildrenGrow
<1>2. /\ FanoutFinds(es, S, T, count, field, links, depth) =
            UNION {{r} \union Few(r) : r \in {q \in S : Cardinality(Counted(es, Few(q), field)) >= count}}
      /\ FanoutFinds(ts, U, V, count, field, links, depth) =
            UNION {{r} \union Many(r) : r \in {q \in U : Cardinality(Counted(ts, Many(q), field)) >= count}}
  BY DEF FanoutFinds
<1>3. ASSUME NEW r \in S PROVE Few(r) \subseteq Many(r)
  <2> HIDE DEF D, E, children, more
  <2>1. r \in D /\ r \in E /\ D \subseteq E
    BY <1>1 DEF Wider, D
  <2>2. children \in [D -> SUBSET D] /\ more \in [E -> SUBSET E]
    BY <1>1 DEF Wider
  <2>3. Descendants(r, children, depth) = {j \in D : Within(children, r, j, depth)}
    BY <2>1, <2>2, DescendantsExactly
  <2>4. Descendants(r, more, depth) = {j \in E : Within(more, r, j, depth)}
    BY <2>1, <2>2, DescendantsExactly
  <2>5. \A j \in D : Within(children, r, j, depth) => Within(more, r, j, depth)
    BY <1>1, WithinWider
  <2> QED
    BY <2>1, <2>3, <2>4, <2>5
<1>4. \A r \in S : Few(r) \in SUBSET D /\ Many(r) \in SUBSET E
  OBVIOUS
<1> HIDE DEF Few, Many
<1>5. PICK r \in S : Cardinality(Counted(es, Few(r), field)) >= count
  BY <1>2
<1>6. Cardinality(Counted(ts, Many(r), field)) >= count
  BY <1>3, <1>4, <1>5, CountedGrows
<1>7. r \in {q \in U : Cardinality(Counted(ts, Many(q), field)) >= count}
  BY <1>6
<1> DEFINE Roots == {q \in U : Cardinality(Counted(ts, Many(q), field)) >= count}
<1>8. r \in UNION {{q} \union Many(q) : q \in Roots}
  <2> HIDE DEF Roots
  <2> QED
    BY <1>7 DEF Roots
<1> QED
  BY <1>2, <1>8

\* No event has a sibling; so a chain goes on from the child it went on from.
NoSiblings(es, link) ==
    \A i, j \in DOMAIN es : es[i][link] = es[j][link] => i = j \/ es[i][link] = None

KidsStay(es, ts, f, g, link) ==
    \A k \in 1 .. Len(f) : \A last \in DOMAIN es :
        Kid(es, f, link, last, k) # 0 => Kid(ts, g, link, last, k) = Kid(es, f, link, last, k)

\* A step that found a child finds one with more events.
KidsRemain(es, ts, f, g, link) ==
    \A k \in 1 .. Len(f) : \A last \in DOMAIN es :
        Kid(es, f, link, last, k) # 0 => Kid(ts, g, link, last, k) # 0

LEMMA KidStays ==
    ASSUME NEW es, NEW ts, Grown(es, ts), NEW f \in Seq(SUBSET DOMAIN es),
           NEW g \in Seq(SUBSET DOMAIN ts), Kept(es, f, g), NEW link
    PROVE  /\ KidsRemain(es, ts, f, g, link)
           /\ NoSiblings(ts, link) => KidsStay(es, ts, f, g, link)
<1> SUFFICES ASSUME NEW k \in 1 .. Len(f), NEW last \in DOMAIN es, Kid(es, f, link, last, k) # 0
             PROVE  /\ Kid(ts, g, link, last, k) # 0
                    /\ NoSiblings(ts, link) => Kid(ts, g, link, last, k) = Kid(es, f, link, last, k)
  BY DEF KidsStay, KidsRemain
<1> DEFINE a == Kid(es, f, link, last, k)
           b == Kid(ts, g, link, last, k)
<1>1. /\ DOMAIN es \subseteq DOMAIN ts /\ \A i \in DOMAIN es : ts[i] = es[i]
      /\ Indexed(es) /\ Indexed(ts)
  BY DEF Grown
<1>2. f[k] = g[k] \intersect DOMAIN es /\ k \in 1 .. Len(g) /\ g[k] \subseteq DOMAIN ts
  BY DEF Kept
<1>3. a \in f[k] /\ IsKid(es, link, last, a)
  BY <1>1, KidIs
<1>4. a \in g[k] /\ a \in DOMAIN es /\ IsKid(ts, link, last, a)
  BY <1>1, <1>2, <1>3 DEF IsKid
<1>5. /\ b \in g[k] \union {0}
      /\ b # 0 => IsKid(ts, link, last, b)
      /\ \A j \in g[k] : IsKid(ts, link, last, j) => b # 0
  BY <1>1, <1>2, KidIs
<1> HIDE DEF a, b
<1>6. b # 0 /\ b \in DOMAIN ts /\ IsKid(ts, link, last, b)
  BY <1>2, <1>4, <1>5
<1>7. /\ a \in DOMAIN ts /\ ts[a][link] = ts[last].source_record_id
      /\ ts[b][link] = ts[last].source_record_id /\ ts[last].source_record_id # None
  BY <1>1, <1>4, <1>6 DEF IsKid
<1>8. NoSiblings(ts, link) => b = a
  BY <1>6, <1>7 DEF NoSiblings
<1> QED
  BY <1>6, <1>8 DEF a, b

LEMMA CausalGrows ==
    ASSUME NEW es, NEW ts, Grown(es, ts), NEW f \in Seq(SUBSET DOMAIN es), f # <<>>,
           NEW g \in Seq(SUBSET DOMAIN ts), Kept(es, f, g), NEW link,
           Len(f) <= 2 \/ NoSiblings(ts, link),
           CausalFinds(es, f, link) # {}
    PROVE  CausalFinds(ts, g, link) # {}
<1> DEFINE n == Len(f)
           D == DOMAIN es
<1>1. n \in Nat \ {0} /\ Len(g) = n /\ g # <<>> /\ \A k \in 1 .. n : f[k] \subseteq g[k]
  BY DEF Kept
<1>2. Indexed(es) /\ Indexed(ts)
  BY GrownIs
<1>3. PICK root \in f[1] : CausalChain(es, f, root, link)[n] # 0
  BY DEF CausalFinds
<1> DEFINE c == CausalChain(es, f, root, link)
           d == CausalChain(ts, g, root, link)
<1>4. root \in g[1]
  BY <1>1, <1>3
<1>5. /\ c \in [1 .. n -> D \union {0}] /\ c[1] = root
      /\ \A k \in 2 .. n : c[k] = Kid(es, f, link, c[k - 1], k)
  BY <1>2, <1>3, CausalIs
<1>6. c \in [1 .. n -> D]
  BY <1>2, <1>3, ChainHolds
<1>7. /\ d \in [1 .. n -> DOMAIN ts \union {0}] /\ d[1] = root
      /\ \A k \in 2 .. n : d[k] = Kid(ts, g, link, d[k - 1], k)
  BY <1>1, <1>2, <1>4, CausalIs
<1>8. 0 \notin D
  BY <1>2 DEF Indexed
<1>0. KidsRemain(es, ts, f, g, link) /\ (NoSiblings(ts, link) => KidsStay(es, ts, f, g, link))
  BY KidStays
<1>9. c[n] # 0
  BY <1>3
<1> HIDE DEF c, d, D
<1>10. ASSUME n <= 2 PROVE d[n] # 0
  <2>1. CASE n = 1
    BY <1>5, <1>7, <1>9, <2>1
  <2>2. CASE n = 2
    <3>1. 2 \in 2 .. n /\ 2 \in 1 .. Len(f) /\ 2 - 1 = 1 /\ root \in D
      BY <1>3, <2>2 DEF D
    <3>2. Kid(es, f, link, root, 2) # 0
      BY <1>5, <1>9, <2>2, <3>1
    <3>3. Kid(ts, g, link, root, 2) # 0
      BY <1>0, <3>1, <3>2 DEF KidsRemain, D
    <3> QED
      BY <1>7, <2>2, <3>1, <3>3
  <2> QED
    BY <1>1, <1>10, <2>1, <2>2
<1>11. ASSUME NoSiblings(ts, link) PROVE d[n] # 0
  <2> HIDE DEF n
  <2>1. ASSUME NEW k \in 2 .. n, c[k - 1] = d[k - 1] PROVE c[k] = d[k]
    <3>1. k \in 1 .. n /\ k - 1 \in 1 .. n
      BY <1>1
    <3>2. c[k - 1] \in D /\ c[k] \in D /\ c[k] # 0
      BY <1>6, <1>8, <3>1
    <3>3. Kid(es, f, link, c[k - 1], k) # 0
      BY <1>5, <3>2
    <3>4. Kid(ts, g, link, c[k - 1], k) = Kid(es, f, link, c[k - 1], k)
      BY <1>0, <1>11, <3>1, <3>2, <3>3 DEF KidsStay, n, D
    <3> QED
      BY <1>5, <1>7, <2>1, <3>4
  <2>2. Together(n, c, d)
    BY <1>5, <1>7, <2>1 DEF Together
  <2>3. c = d
    BY <1>1, <2>2, SameCourse
  <2> QED
    BY <1>9, <2>3
<1>12. d[n] # 0 /\ n \in 1 .. n
  BY <1>1, <1>10, <1>11
<1> DEFINE All == {e \in {CausalChain(ts, g, r, link) : r \in g[1]} : e[n] # 0}
<1>13. d \in All
  BY <1>4, <1>12 DEF d
<1>14. CausalFinds(ts, g, link) = UNION {{e[k] : k \in 1 .. n} : e \in All}
  BY <1>1 DEF CausalFinds
<1> HIDE DEF All
<1>15. d[n] \in UNION {{e[k] : k \in 1 .. n} : e \in All}
  BY <1>12, <1>13
<1> QED
  BY <1>14, <1>15

\* A condition looks at one event at a time.
LEMMA ConditionIsLocal ==
    ASSUME NEW x, x.type \in Conditions, NEW es, NEW ts, Grown(es, ts), NEW f, NEW g,
           \A y \in Parts(x) : f[y] = g[y] \intersect DOMAIN es
    PROVE  NodeFinds(x, es, f) = NodeFinds(x, ts, g) \intersect DOMAIN es
<1>1. DOMAIN es \subseteq DOMAIN ts /\ \A i \in DOMAIN es : ts[i] = es[i]
  BY GrownIs
<1>2. CASE x.type = "match"
  <2>1. NodeFinds(x, es, f) = {i \in DOMAIN es : \A p \in x.predicates : PredicateMatches(es[i], p)}
    BY <1>2, NodeFindsIs
  <2>2. NodeFinds(x, ts, g) = {i \in DOMAIN ts : \A p \in x.predicates : PredicateMatches(ts[i], p)}
    BY <1>2, NodeFindsIs
  <2> QED
    BY <1>1, <2>1, <2>2
<1>3. CASE x.type = "all"
  <2>1. NodeFinds(x, es, f) = {i \in DOMAIN es : \A y \in x.children : i \in f[y]}
    BY <1>3, NodeFindsIs
  <2>2. NodeFinds(x, ts, g) = {i \in DOMAIN ts : \A y \in x.children : i \in g[y]}
    BY <1>3, NodeFindsIs
  <2>3. Parts(x) = x.children
    BY <1>3, PartsAre
  <2> QED
    BY <1>1, <2>1, <2>2, <2>3
<1>4. CASE x.type = "any"
  <2>1. NodeFinds(x, es, f) = UNION {f[y] : y \in x.children}
    BY <1>4, NodeFindsIs
  <2>2. NodeFinds(x, ts, g) = UNION {g[y] : y \in x.children}
    BY <1>4, NodeFindsIs
  <2>3. Parts(x) = x.children
    BY <1>4, PartsAre
  <2> QED
    BY <2>1, <2>2, <2>3
<1>5. CASE x.type = "not"
  <2>1. NodeFinds(x, es, f) = DOMAIN es \ f[x.child]
    BY <1>5, NodeFindsIs
  <2>2. NodeFinds(x, ts, g) = DOMAIN ts \ g[x.child]
    BY <1>5, NodeFindsIs
  <2>3. Parts(x) = {x.child}
    BY <1>5, PartsAre
  <2> QED
    BY <1>1, <2>1, <2>2, <2>3
<1> QED
  BY <1>2, <1>3, <1>4, <1>5 DEF Conditions

\* What a relation finds among events that satisfy conditions, it still finds with more.
LEMMA RelationGrows ==
    ASSUME NEW N, NEW x, x.type \in Relations, Formed(x),
           x.type \in {"sequence", "causal_graph", "graph_path"} => x.steps \in Seq(N),
           NEW es, NEW ts, Grown(es, ts), NEW f, NEW g,
           \A y \in Parts(x) : /\ f[y] \subseteq DOMAIN es /\ g[y] \subseteq DOMAIN ts
                               /\ f[y] = g[y] \intersect DOMAIN es,
           NoChoice(x, ts), NodeFinds(x, es, f) # {}
    PROVE  NodeFinds(x, ts, g) # {}
<1>1. CASE x.type = "threshold"
  <2>1. /\ f[x.child] \in SUBSET DOMAIN es /\ g[x.child] \in SUBSET DOMAIN ts
        /\ f[x.child] \subseteq g[x.child]
    BY <1>1, PartsAre
  <2>2. x.count \in Nat
    BY <1>1 DEF Formed
  <2>3. ThresholdFinds(es, f[x.child], x.count, x.window_seconds, x.distinct_field) # {}
    BY <1>1, NodeFindsIs
  <2>4. ThresholdFinds(ts, g[x.child], x.count, x.window_seconds, x.distinct_field) # {}
    BY <2>1, <2>2, <2>3, ThresholdGrows
  <2> QED
    BY <1>1, <2>4, NodeFindsIs
<1>2. CASE x.type = "parent_child"
  <2>1. /\ f[x.parent] \in SUBSET DOMAIN es /\ f[x.parent] \subseteq g[x.parent]
        /\ f[x.child] \in SUBSET DOMAIN es /\ f[x.child] \subseteq g[x.child]
    BY <1>2, PartsAre
  <2>2. ParentChildFinds(es, f[x.parent], f[x.child]) # {}
    BY <1>2, NodeFindsIs
  <2>3. ParentChildFinds(ts, g[x.parent], g[x.child]) # {}
    BY <2>1, <2>2, ParentChildGrows
  <2> QED
    BY <1>2, <2>3, NodeFindsIs
<1>3. CASE x.type = "graph_fanout"
  <2>1. /\ f[x.root] \in SUBSET DOMAIN es /\ g[x.root] \in SUBSET DOMAIN ts
        /\ f[x.root] \subseteq g[x.root]
        /\ f[x.descendant] \in SUBSET DOMAIN es /\ g[x.descendant] \in SUBSET DOMAIN ts
        /\ f[x.descendant] \subseteq g[x.descendant]
    BY <1>3, PartsAre
  <2>2. x.count \in Nat /\ x.max_depth \in Nat
    BY <1>3, FormedIs
  <2>3. FanoutFinds(es, f[x.root], f[x.descendant], x.count, x.distinct_field, x.link_fields, x.max_depth) # {}
    BY <1>3, NodeFindsIs
  <2>4. FanoutFinds(ts, g[x.root], g[x.descendant], x.count, x.distinct_field, x.link_fields, x.max_depth) # {}
    BY <2>1, <2>2, <2>3, FanoutGrows
  <2> QED
    BY <1>3, <2>4, NodeFindsIs
<1>4. CASE x.type \in {"sequence", "causal_graph", "graph_path"}
  <2> DEFINE R == {x.steps[k] : k \in 1 .. Len(x.steps)}
             few  == EachOf(x.steps, f)
             many == EachOf(x.steps, g)
  <2>1. x.steps \in Seq(R) /\ Parts(x) = R /\ x.steps # <<>>
    <3>1. x.steps \in Seq(N)
      BY <1>4
    <3>2. Parts(x) = {x.steps[k] : k \in DOMAIN x.steps}
      BY <1>4, PartsAre
    <3>3. x.steps # <<>>
      <4>1. Len(<<>>) = 0
        OBVIOUS
      <4> QED
        BY <1>4, <4>1, FormedIs
    <3> QED
      BY <3>1, <3>2, <3>3
  <2>2. \A k \in 1 .. Len(x.steps) : x.steps[k] \in R
    OBVIOUS
  <2> HIDE DEF R
  <2>3. few \in Seq(SUBSET DOMAIN es) /\ many \in Seq(SUBSET DOMAIN ts)
    <3>1. \A y \in R : f[y] \subseteq DOMAIN es
      BY <2>1
    <3>2. \A y \in R : g[y] \subseteq DOMAIN ts
      BY <2>1
    <3>3. few \in Seq(SUBSET DOMAIN es)
      BY <2>1, <3>1, EachOfWithin
    <3>4. many \in Seq(SUBSET DOMAIN ts)
      BY <2>1, <3>2, EachOfWithin
    <3> QED
      BY <3>3, <3>4
  <2>4. /\ few = [k \in 1 .. Len(x.steps) |-> f[x.steps[k]]] /\ Len(few) = Len(x.steps)
        /\ many = [k \in 1 .. Len(x.steps) |-> g[x.steps[k]]] /\ Len(many) = Len(x.steps)
    <3>1. few = [k \in 1 .. Len(x.steps) |-> f[x.steps[k]]] /\ Len(few) = Len(x.steps)
      BY <2>1, EachOfIs
    <3>2. many = [k \in 1 .. Len(x.steps) |-> g[x.steps[k]]] /\ Len(many) = Len(x.steps)
      BY <2>1, EachOfIs
    <3> QED
      BY <3>1, <3>2
  <2>5. few # <<>>
    BY <2>1, <2>3, <2>4
  <2> HIDE DEF few, many
  <2>6. Kept(es, few, many)
    BY <2>1, <2>2, <2>4 DEF Kept
  <2>7. CASE x.type = "sequence"
    <3>1. x.max_span_seconds \in Nat
      BY <2>7, FormedIs
    <3>2. SequenceFinds(es, few, x.max_span_seconds) # {}
      BY <2>7, NodeFindsIs DEF few
    <3>3. SequenceFinds(ts, many, x.max_span_seconds) # {}
      BY <2>3, <2>5, <2>6, <3>1, <3>2, SequenceGrows
    <3> QED
      BY <2>7, <3>3, NodeFindsIs DEF many
  <2>8. CASE x.type = "causal_graph"
    <3>1. CausalFinds(es, few, x.link_field) # {}
      BY <2>8, NodeFindsIs DEF few
    <3>2. Len(few) <= 2 \/ NoSiblings(ts, x.link_field)
      BY <2>4, <2>8 DEF NoChoice, NoSiblings
    <3>3. CausalFinds(ts, many, x.link_field) # {}
      BY <2>3, <2>5, <2>6, <3>1, <3>2, CausalGrows
    <3> QED
      BY <2>8, <3>3, NodeFindsIs DEF many
  <2>9. CASE x.type = "graph_path"
    <3>1. x.max_depth \in Nat
      BY <2>9, FormedIs
    <3>2. PathFinds(es, few, x.link_fields, x.max_depth) # {}
      BY <2>9, NodeFindsIs DEF few
    <3>3. PathFinds(ts, many, x.link_fields, x.max_depth) # {}
      <4> DEFINE links == x.link_fields
                 depth == x.max_depth
      <4>1. depth \in Nat /\ PathFinds(es, few, links, depth) # {}
        BY <3>1, <3>2
      <4> HIDE DEF links, depth
      <4>2. PathFinds(ts, many, links, depth) # {}
        BY <2>3, <2>5, <2>6, <4>1, PathGrows
      <4> QED
        BY <4>2 DEF links, depth
    <3> QED
      BY <2>9, <3>3, NodeFindsIs DEF many
  <2> QED
    BY <1>4, <2>7, <2>8, <2>9
<1> QED
  BY <1>1, <1>2, <1>3, <1>4 DEF Relations

LEMMA ConditionsStay ==
    ASSUME NEW x, Tree(x), Plain(x), NEW es, NEW ts, Grown(es, ts)
    PROVE  \A y \in Nested(x) : y.type \in Conditions =>
              Found(x, es)[y] = Found(x, ts)[y] \intersect DOMAIN es
<1> DEFINE N == Nested(x)
           f == Found(x, es)
           g == Found(x, ts)
<1>1. PICK height : Ranked(x, height)
  BY TreeIs
<1>2. /\ \A y \in N : height[y] \in 0 .. MaxNesting
      /\ \A y \in N : \A z \in Parts(y) : z \in N /\ height[z] < height[y] /\ z.type \in Conditions
  BY <1>1 DEF Ranked, Plain
<1>3. \A y \in N : f[y] = NodeFinds(y, es, f) /\ g[y] = NodeFinds(y, ts, g)
  BY FoundIs
<1> DEFINE I == {n \in Nat : \A y \in N : height[y] < n /\ y.type \in Conditions =>
                                f[y] = g[y] \intersect DOMAIN es}
<1> HIDE DEF f, g
<1>4. 0 \in I
  BY <1>2, EngineAssumption
<1>5. ASSUME NEW n \in Nat, n \in I PROVE n + 1 \in I
  <2> SUFFICES ASSUME NEW y \in N, height[y] < n + 1, y.type \in Conditions
               PROVE  f[y] = g[y] \intersect DOMAIN es
    OBVIOUS
  <2>1. ASSUME NEW z \in Parts(y) PROVE f[z] = g[z] \intersect DOMAIN es
    <3>1. height[z] < height[y] /\ z \in N /\ z.type \in Conditions
      BY <1>2, <2>1
    <3>2. height[y] \in Nat /\ height[z] \in Nat
      BY <1>2, <3>1
    <3>3. height[z] < n
      BY <3>1, <3>2
    <3> QED
      BY <1>5, <3>1, <3>3
  <2>2. NodeFinds(y, es, f) = NodeFinds(y, ts, g) \intersect DOMAIN es
    <3> HIDE DEF N
    <3> QED
      BY <2>1, ConditionIsLocal
  <2> QED
    BY <1>3, <2>2
<1>6. MaxNesting + 1 \in I
  <2>1. Nat \subseteq I
    <3> HIDE DEF I
    <3> QED
      BY <1>4, <1>5, SetInduction
  <2> HIDE DEF I
  <2> QED
    BY <2>1, EngineAssumption DEF EngineAssumption
<1>7. \A y \in N : height[y] < MaxNesting + 1
  BY <1>2, EngineAssumption DEF EngineAssumption
<1> QED
  BY <1>6, <1>7 DEF f, g

LEMMA MatchesGrow ==
    ASSUME NEW x, Tree(x), Plain(x), NEW es, NEW ts, Grown(es, ts), NoChoice(x, ts),
           Matches(x, es) # {}
    PROVE  Matches(x, ts) # {}
<1> DEFINE f == Found(x, es)
           g == Found(x, ts)
           N == Nested(x)
<1>1. Indexed(es) /\ Indexed(ts)
  BY GrownIs
<1>2. /\ x \in N /\ x.type \in Conditions \union Relations /\ Formed(x)
      /\ x.type \in {"sequence", "causal_graph", "graph_path"} => x.steps \in Seq(N)
  BY TreeIs
<1>3. \A y \in N : f[y] \subseteq DOMAIN es
  BY <1>1, FoundWithin
<1>4. \A y \in N : g[y] \subseteq DOMAIN ts
  BY <1>1, FoundWithin
<1>5. \A y \in N : y.type \in Conditions => f[y] = g[y] \intersect DOMAIN es
  BY ConditionsStay
<1>6. f[x] = NodeFinds(x, es, f)
  BY <1>2, FoundIs
<1>7. g[x] = NodeFinds(x, ts, g)
  BY <1>2, FoundIs
<1>8. \A y \in Parts(x) : y \in N /\ y.type \in Conditions
  <2>1. PICK height : Ranked(x, height)
    BY TreeIs
  <2> QED
    BY <1>2, <2>1 DEF Ranked, Plain
<1>9. f[x] # {}
  BY DEF Matches
<1> HIDE DEF f, g, N
<1>10. CASE x.type \in Conditions
  <2>1. g[x] # {}
    BY <1>2, <1>5, <1>9, <1>10
  <2> QED
    BY <2>1 DEF Matches, g
<1>11. CASE x.type \in Relations
  <2>1. \A y \in Parts(x) : /\ f[y] \subseteq DOMAIN es /\ g[y] \subseteq DOMAIN ts
                            /\ f[y] = g[y] \intersect DOMAIN es
    BY <1>3, <1>4, <1>5, <1>8
  <2>2. NodeFinds(x, ts, g) # {}
    BY <1>2, <1>6, <1>9, <1>11, <2>1, RelationGrows
  <2> QED
    BY <1>7, <2>2 DEF Matches, g
<1> QED
  BY <1>2, <1>10, <1>11

\* The group of the new event has one event more, the last; the others stay what they are.
LEMMA GroupGrows ==
    ASSUME SweptInv, SweptInv', NEW e \in Records, Collect(e), NEW rule, NEW key,
           \A i, j \in DOMAIN candidate' :
              candidate'[i].source_record_id = candidate'[j].source_record_id => i = j
    PROVE  Grown(Restrict(candidate, Group(rule, candidate, key)),
                 Restrict(candidate', Group(rule, candidate', key)))
<1> DEFINE S == Group(rule, candidate, key)
           T == Group(rule, candidate', key)
           es == Restrict(candidate, S)
           ts == Restrict(candidate', T)
<1>1. /\ DOMAIN candidate \subseteq DOMAIN candidate'
      /\ \A i \in DOMAIN candidate : candidate'[i] = candidate[i]
      /\ \A i \in DOMAIN candidate : \A j \in DOMAIN candidate' \ DOMAIN candidate : i < j
  BY DEF SweptInv, Collect
<1>2. /\ DOMAIN candidate' \subseteq Nat \ {0} /\ DOMAIN candidate' \subseteq 1 .. MaxEvents
      /\ IsFiniteSet(DOMAIN candidate')
      /\ \A i \in DOMAIN candidate' : candidate'[i].timestamp \in Nat
  <2>1. /\ DOMAIN candidate' = 1 .. Len(candidate') /\ Len(candidate') \in Nat
        /\ DOMAIN candidate' \subseteq 1 .. MaxEvents
    BY IterationAssumption DEF SweptInv, IterationAssumption
  <2>2. IsFiniteSet(1 .. Len(candidate'))
    BY <2>1, FS_Interval
  <2>3. \A i \in DOMAIN candidate' : candidate'[i].timestamp \in Nat
    BY RecordingAssumption DEF SweptInv
  <2> QED
    BY <2>1, <2>2, <2>3
<1>3. S \subseteq T /\ T \subseteq DOMAIN candidate' /\ S = T \intersect DOMAIN candidate
  BY <1>1 DEF Group
<1>4. /\ DOMAIN es = S /\ \A i \in S : es[i] = candidate[i]
      /\ DOMAIN ts = T /\ \A i \in T : ts[i] = candidate'[i]
  BY DEF Restrict
<1> HIDE DEF S, T, es, ts
<1>5. IsFiniteSet(S) /\ IsFiniteSet(T)
  BY <1>2, <1>3, FS_Subset
<1>6. Indexed(es) /\ Indexed(ts)
  BY <1>1, <1>2, <1>3, <1>4, <1>5 DEF Indexed
<1>7. Grown(es, ts)
  BY <1>1, <1>3, <1>4, <1>6 DEF Grown
<1> QED
  BY <1>7 DEF S, T, es, ts

\* VerdictAdvances: for every pack, whatever is collected in whatever order and in whatever
\* order sets are iterated, a rule that relates events by conditions takes no verdict back,
\* unless it is a causal chain that has a choice of siblings on its way.
THEOREM VerdictsAdvance == Spec => VerdictAdvances
<1> DEFINE Rank(s) == CASE s = "visibility_gap" -> 0 [] s \in {"not_detected", "missed"} -> 1
                        [] s = "detected" -> 2
           ids     == [i \in DOMAIN candidate' |-> candidate'[i].source_record_id]
           Unique  == \A i, j \in DOMAIN ids : ids[i] = ids[j] => i = j
           Advance == (candidate' # candidate /\ Unique) =>
                         \A r \in Rules :
                           (Plain(Pack[r].expression) /\ NoChoice(Pack[r].expression, candidate')) =>
                            /\ Rank(swept.candidate[r]) <= Rank(swept.candidate'[r])
                            /\ Rank(swept.live[r]) <= Rank(swept.live'[r])
<1>1. SweptInv /\ SweptInv' /\ [Next]_vars => Advance
  <2> SUFFICES ASSUME SweptInv, SweptInv', [Next]_vars, candidate' # candidate, Unique,
                      NEW r \in Rules, Plain(Pack[r].expression),
                      NoChoice(Pack[r].expression, candidate')
               PROVE  /\ Rank(swept.candidate[r]) <= Rank(swept.candidate'[r])
                      /\ Rank(swept.live[r]) <= Rank(swept.live'[r])
    OBVIOUS
  <2>0. \A i, j \in DOMAIN candidate' :
           candidate'[i].source_record_id = candidate'[j].source_record_id => i = j
    OBVIOUS
  <2>1. PICK e \in Records : Collect(e)
    BY DEF Next, Compare, vars
  <2>2. /\ swept.candidate[r] = SweepStatus(Pack[r], candidate)
        /\ swept.candidate'[r] = SweepStatus(Pack[r], candidate')
        /\ swept.live[r] = LiveStatus(Pack[r], candidate)
        /\ swept.live'[r] = LiveStatus(Pack[r], candidate')
    BY DEF SweptInv, Outcomes, LiveOutcomes
  <2>3. Matched(Pack[r], candidate) => Matched(Pack[r], candidate')
    <3> SUFFICES ASSUME NEW key \in Keys(Pack[r], candidate), GroupMatches(Pack[r], candidate, key) # {}
                 PROVE  Matched(Pack[r], candidate')
      BY DEF Matched
    <3> DEFINE x  == Pack[r].expression
               es == Restrict(candidate, Group(Pack[r], candidate, key))
               ts == Restrict(candidate', Group(Pack[r], candidate', key))
    <3>1. Grown(es, ts)
      BY <2>0, <2>1, GroupGrows
    <3>2. Tree(x) /\ Plain(x)
      BY PackAssumption DEF PackAssumption
    <3>3. Matches(x, es) # {}
      BY DEF GroupMatches
    <3> HIDE DEF x, es, ts
    <3>4. NoChoice(x, ts)
      <4>1. DOMAIN ts \subseteq DOMAIN candidate' /\ \A i \in DOMAIN ts : ts[i] = candidate'[i]
        BY DEF ts, Restrict, Group
      <4>2. NoChoice(x, candidate')
        BY DEF x
      <4> QED
        BY <4>1, <4>2 DEF NoChoice
    <3>5. Matches(x, ts) # {}
      BY <3>1, <3>2, <3>3, <3>4, MatchesGrow
    <3>6. GroupMatches(Pack[r], candidate', key) # {}
      BY <3>5 DEF GroupMatches, x, ts
    <3>7. key \in Keys(Pack[r], candidate')
      BY <2>1, CollectAppends DEF Keys
    <3> QED
      BY <3>6, <3>7 DEF Matched
  <2>4. Rank(SweepStatus(Pack[r], candidate)) <= Rank(SweepStatus(Pack[r], candidate'))
    <3>1. SweepStatus(Pack[r], candidate) = "not_detected" => SweepStatus(Pack[r], candidate') # "visibility_gap"
      BY <2>1, SightStays DEF SweepStatus
    <3>2. SweepStatus(Pack[r], candidate) = "detected" => SweepStatus(Pack[r], candidate') = "detected"
      BY <2>3 DEF SweepStatus
    <3>3. /\ SweepStatus(Pack[r], candidate) \in {"detected", "visibility_gap", "not_detected"}
          /\ SweepStatus(Pack[r], candidate') \in {"detected", "visibility_gap", "not_detected"}
      BY DEF SweepStatus
    <3> QED
      BY <3>1, <3>2, <3>3
  <2>5. Rank(LiveStatus(Pack[r], candidate)) <= Rank(LiveStatus(Pack[r], candidate'))
    <3>1. LiveStatus(Pack[r], candidate) = "missed" => LiveStatus(Pack[r], candidate') # "visibility_gap"
      BY <2>1, SightStays DEF LiveStatus
    <3>2. LiveStatus(Pack[r], candidate) = "detected" => LiveStatus(Pack[r], candidate') = "detected"
      BY <2>3 DEF LiveStatus
    <3>3. /\ LiveStatus(Pack[r], candidate) \in {"detected", "visibility_gap", "missed"}
          /\ LiveStatus(Pack[r], candidate') \in {"detected", "visibility_gap", "missed"}
      BY DEF LiveStatus
    <3> QED
      BY <3>1, <3>2, <3>3
  <2> QED
    BY <2>2, <2>4, <2>5
<1> QED
  BY <1>1, SweptIsCurrent, PTL DEF Spec, VerdictAdvances

\* EvidenceOnlyAdds: evidence disturbs no other group, puts nothing out of sight and takes no
\* verdict back but that of a causal chain with a choice.
THEOREM EvidenceAlwaysAdds == Spec => EvidenceOnlyAdds
BY GroupsAreIndependent, VisibilityAlwaysGrows, VerdictsAdvance, PTL DEF EvidenceOnlyAdds

=============================================================================
