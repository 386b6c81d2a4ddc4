--------------------------- MODULE FlightRecorder ---------------------------
(* The flight recorder and its writers (telemetry/flight_recorder.py,           *)
(* flight_server.py).  Threads of the loopback receiver, or of an agent SDK     *)
(* with a trace processor, record spans under one lock, and each writes the     *)
(* recording to the one output file without it; so does the main thread when    *)
(* it closes.                                                                   *)
EXTENDS Naturals, Sequences, FiniteSets, Functions

CONSTANTS
    Requests,       \* threads, one for each export or trace
    Main,           \* the main thread
    Exports,        \* the sequences of spans that may be delivered
    Bad,            \* spans that the trace contract refuses
    MaxRecorded,    \* max_events
    MaxFailures     \* bound: writes that may fail

Spans == UNION {Range(x) : x \in Exports}

ASSUME RecorderAssumption ==
    /\ Main \notin Requests /\ Exports \subseteq Seq(Spans)
    /\ MaxRecorded \in Nat \ {0} /\ MaxFailures \in Nat

VARIABLES
    runtime,        \* "receiver" or "processor"
    events,         \* ids of the events recorded
    dropped,        \* _dropped_events
    errors,         \* _recording_errors
    thread,         \* what each thread is at
    file,           \* the output file
    failures        \* failed writes

recorderVars == <<runtime, events, dropped, errors, thread, file, failures>>

Threads == Requests \union {Main}

Recorded == Range(events)

\* A thread at its place, with the export, the next span of it, what it has accepted (the
\* answer has the number) and the snapshot it is about to write.
Fresh(pc) ==
    [pc |-> pc, export |-> <<>>, next |-> 1, accepted |-> {}, snapshot |-> <<>>, answer |-> "none"]

Go(t, pc, answer) == [thread EXCEPT ![t].pc = pc, ![t].answer = answer]

Running == thread[Main].pc # "done"

Is(t, pc) == Running /\ thread[t].pc = pc

RecorderInit ==
    /\ runtime \in {"receiver", "processor"}
    /\ events = <<>> /\ dropped = 0 /\ errors = 0 /\ failures = 0
    /\ thread = [t \in Threads |-> Fresh(IF t = Main THEN "serving" ELSE "idle")]
    /\ file = [state |-> "empty", content |-> <<>>, length |-> 0]

-----------------------------------------------------------------------------
(* Recording.                                                                  *)

\* do_POST of a well-formed export; the first callback of a trace.  Nothing connects to
\* the receiver once it is closed.
Receive(t, export) ==
    /\ Is(t, "idle")
    /\ runtime = "receiver" => thread[Main].pc = "serving"
    /\ thread' = [thread EXCEPT ![t].pc = "ingest", ![t].export = export]
    /\ UNCHANGED <<runtime, events, dropped, errors, file, failures>>

\* An export that otlp_records refuses, whole.
RefuseExport(t) ==
    /\ Is(t, "idle") /\ runtime = "receiver" /\ thread[Main].pc = "serving"
    /\ errors' = errors + 1
    /\ thread' = Go(t, "done", "400")
    /\ UNCHANGED <<runtime, events, dropped, file, failures>>

\* Deviation: ids are not looked at.
RecordAgain(span) == IF Len(events) >= MaxRecorded THEN "dropped" ELSE "recorded"

\* Deviation: a span that finds the recorder full is forgotten.
DropSilently(span) ==
    IF span \in Recorded \/ Len(events) >= MaxRecorded THEN "repeated" ELSE "recorded"

\* record, under the lock.
Fate(span) ==
    IF span \in Recorded THEN "repeated"
    ELSE IF Len(events) >= MaxRecorded THEN "dropped" ELSE "recorded"

Span(t) == thread[t].export[thread[t].next]

Record(t) ==
    /\ Is(t, "ingest") /\ thread[t].next <= Len(thread[t].export)
    /\ Span(t) \notin Bad
    /\ LET fate == Fate(Span(t))
       IN  /\ events' = IF fate = "recorded" THEN Append(events, Span(t)) ELSE events
           /\ dropped' = IF fate = "dropped" THEN dropped + 1 ELSE dropped
           /\ thread' = [thread EXCEPT
                  ![t].next = @ + 1,
                  ![t].accepted = IF fate = "recorded" THEN @ \union {Span(t)} ELSE @]
    /\ UNCHANGED <<runtime, errors, file, failures>>

\* The rest of an export goes with its first bad span, and nothing is written; a processor
\* goes on with the next callback.
RecordError(t) ==
    /\ Is(t, "ingest") /\ thread[t].next <= Len(thread[t].export)
    /\ Span(t) \in Bad
    /\ errors' = errors + 1
    /\ thread' = IF runtime = "receiver" THEN Go(t, "done", "400")
                 ELSE [thread EXCEPT ![t].next = @ + 1]
    /\ UNCHANGED <<runtime, events, dropped, file, failures>>

-----------------------------------------------------------------------------
(* Writing the recording: a snapshot under the lock, then open and write.      *)

Snapshot(t) ==
    /\ Is(t, "ingest") /\ thread[t].next > Len(thread[t].export)
    /\ thread' = [thread EXCEPT ![t].pc = "open", ![t].snapshot = events]
    /\ UNCHANGED <<runtime, events, dropped, errors, file, failures>>

\* Deviation: the main thread leaves a file that loads as it is.
TruncateUnlessWritten(t) ==
    /\ Is(t, "open")
    /\ IF t = Main /\ file.state = "whole"
       THEN thread' = Go(t, "done", "200") /\ file' = file
       ELSE /\ thread' = [thread EXCEPT ![t].pc = "write"]
            /\ file' = [state |-> "empty", content |-> <<>>, length |-> 0]
    /\ UNCHANGED <<runtime, events, dropped, errors, failures>>

Truncate(t) ==
    /\ Is(t, "open")
    /\ thread' = [thread EXCEPT ![t].pc = "write"]
    /\ file' = [state |-> "empty", content |-> <<>>, length |-> 0]
    /\ UNCHANGED <<runtime, events, dropped, errors, failures>>

\* A thread writes from the beginning of the file: over what another has written since
\* this one truncated it, of which a longer one's end stays.
Overwritten(snapshot) ==
    LET length == Len(snapshot) + 1
    IN  IF length >= file.length THEN [state |-> "whole", content |-> snapshot, length |-> length]
        ELSE [state |-> "torn", content |-> <<>>, length |-> file.length]

Write(t) ==
    /\ Is(t, "write")
    /\ file' = Overwritten(thread[t].snapshot)
    /\ thread' = Go(t, "done", "200")
    /\ UNCHANGED <<runtime, events, dropped, errors, failures>>

\* An OSError is caught by a processor's guard, and by nothing in the receiver: the
\* request gets no answer.
WriteError(t) ==
    /\ \E pc \in {"open", "write"} : Is(t, pc)
    /\ failures < MaxFailures
    /\ failures' = failures + 1
    /\ errors' = IF runtime = "processor" THEN errors + 1 ELSE errors
    /\ thread' = Go(t, "done", "none")
    /\ UNCHANGED <<runtime, events, dropped, file>>

\* serve_flight_recorder's finally, shutdown: the main thread writes once more and ends;
\* the threads of requests are daemons and end with it, wherever they are.
Close ==
    /\ Is(Main, "serving")
    /\ thread' = [thread EXCEPT ![Main].pc = "ingest"]
    /\ UNCHANGED <<runtime, events, dropped, errors, file, failures>>

\* load_flight_bundle: the digest holds, and the bundle is what was written.
Loads == file.state = "whole"

-----------------------------------------------------------------------------
RecorderNext ==
    \/ \E t \in Requests :
          \/ \E export \in Exports : Receive(t, export)
          \/ RefuseExport(t)
          \/ Record(t)
          \/ RecordError(t)
    \/ \E t \in Threads : Snapshot(t) \/ Truncate(t) \/ Write(t) \/ WriteError(t)
    \/ Close

RecorderSpec == RecorderInit /\ [][RecorderNext]_recorderVars

-----------------------------------------------------------------------------
ThreadState ==
    [pc : {"serving", "idle", "ingest", "open", "write", "done"}, export : Seq(Spans), next : Nat \ {0},
     accepted : SUBSET Spans, snapshot : Seq(Spans), answer : {"none", "200", "400"}]

\* The recording is bounded whatever is delivered, and so is the file.
RecorderTypeOK ==
    /\ runtime \in {"receiver", "processor"}
    /\ events \in Seq(Spans) /\ Len(events) <= MaxRecorded
    /\ dropped \in Nat /\ errors \in Nat /\ failures \in 0..MaxFailures
    /\ thread \in [Threads -> ThreadState]
    /\ \A t \in Threads : Len(thread[t].snapshot) <= MaxRecorded
    /\ file \in [state : {"empty", "whole", "torn"}, content : Seq(Spans), length : 0..(MaxRecorded + 1)]

\* A span that several exports deliver, in a retry or at once, is recorded once, and just
\* one of the answers counts it.
AcceptedOnce ==
    /\ IsInjective(events)
    /\ Recorded = UNION {thread[t].accepted : t \in Threads}
    /\ \A s, t \in Threads : s # t => thread[s].accepted \intersect thread[t].accepted = {}

\* What a thread has delivered, the spans that are nowhere in the recording though nothing is
\* wrong with them, and the exports that were not taken whole.
Delivered(t) == {thread[t].export[k] : k \in 1..(thread[t].next - 1)}

Lost == (UNION {Delivered(t) : t \in Requests}) \ (Recorded \union Bad)

Failing == {t \in Requests : thread[t].answer = "400" \/ Delivered(t) \intersect Bad # {}}

\* Whatever was delivered and is not in the recording shows in a counter: a bad span as an
\* error, a dropped one as a drop, and nothing is dropped while there is room.
NoSilentLoss ==
    /\ Cardinality(Lost) <= dropped
    /\ dropped > 0 => Len(events) = MaxRecorded
    /\ Cardinality(Failing) <= errors

\* The main thread begins to close a receiver while no request is in progress.
ClosesAlone ==
    /\ runtime = "receiver" /\ thread[Main].pc = "ingest"
    /\ \A t \in Requests : thread[t].pc \in {"idle", "done"}

EndsComplete ==
    thread[Main].pc = "done" /\ thread[Main].answer = "200" => Loads /\ file.content = events

\* A receiver that closes while no request is in progress leaves a file that loads and
\* holds the whole recording, whatever the requests before made of it: stale or torn by
\* writers that overlapped, or behind for failed writes and refused exports.
ClosedFileComplete == [](ClosesAlone => []EndsComplete)
=============================================================================
