------------------------------ MODULE Dashboard ------------------------------
(* The local dashboard (web_ui.py): the Flask request threads that start, stop  *)
(* and clear, the worker thread of each run, the event log they share, and one  *)
(* server-sent-events reader.  A step is what one thread does while it holds    *)
(* state_lock, or between two such sections.                                    *)
EXTENDS Naturals, Sequences

CONSTANTS
    MaxRuns,        \* bound: runs started
    Mode,           \* Mode[r]: run_mode of the r-th POST /start that is accepted
    MaxWork,        \* bound: events a worker logs
    MaxStops,       \* bound: POST /stop requests
    MAX_EVENTS      \* length the log is cut to

ASSUME DashboardAssumption ==
    /\ MaxRuns \in Nat \ {0} /\ Mode \in [1..MaxRuns -> {"behavior", "scenario"}]
    /\ MAX_EVENTS \in Nat \ {0}
    /\ MaxWork \in Nat /\ MaxStops \in Nat

VARIABLES
    is_running, last_outcome, stop_event,
    log_queue,          \* events: [id |-> ..., run |-> ...]
    event_sequence,
    paths,              \* kinds of artifact whose last_..._path is set
    file,               \* file[k]: run that last wrote the artifact file, 0 for none
    current,            \* run start_sim claimed last, 0 before the first
    starting,           \* where the start_sim that claimed it has got
    worker,             \* worker[r]: where the thread of run r has got
    stopping,           \* stop requests that have seen is_running
    stops,              \* stop requests so far
    reader,             \* the stream: its cursor, and what it fetched and has yet to send
    base                \* for the properties: event_sequence when the run was claimed

run    == <<is_running, last_outcome, stop_event, paths, file>>
log    == <<log_queue, event_sequence>>
vars   == <<run, log, current, starting, worker, stopping, stops, reader, base>>

Runs  == 1..MaxRuns
Kinds == {"layer", "ground_truth", "validation"}

\* behavior runs export a layer, scenario runs the ground truth, then the report.
Artifacts(mode) == IF mode = "behavior" THEN {"layer"} ELSE {"ground_truth", "validation"}

-----------------------------------------------------------------------------
(* The log.                                                                    *)

\* Deviation: nothing is cut.
Untruncated(s, n) == s

Last(s, n) == IF Len(s) > n THEN SubSeq(s, Len(s) - n + 1, Len(s)) ELSE s

\* _append_event, which takes the lock itself.
AppendEvent(r) ==
    /\ event_sequence' = event_sequence + 1
    /\ log_queue' = Last(Append(log_queue, [id |-> event_sequence + 1, run |-> r]), MAX_EVENTS)

-----------------------------------------------------------------------------
(* POST /start.                                                                *)

\* Deviation: the stop flag is cleared before the request is refused.
ClearBeforeCheck ==
    /\ current < MaxRuns
    /\ stop_event' = FALSE
    /\ IF is_running
       THEN UNCHANGED <<is_running, last_outcome, paths, file, log, current, starting,
                        worker, base>>
       ELSE /\ is_running' = TRUE
            /\ last_outcome' = "running"
            /\ log_queue' = <<>>
            /\ paths' = {}
            /\ current' = current + 1
            /\ starting' = "announce"
            /\ base' = event_sequence
            /\ UNCHANGED <<event_sequence, file, worker>>
    /\ UNCHANGED <<stopping, stops, reader>>

\* Deviation: the artifacts of the run before stay on offer.
StartKeepingPaths ==
    /\ ~is_running
    /\ current < MaxRuns
    /\ is_running' = TRUE
    /\ last_outcome' = "running"
    /\ stop_event' = FALSE
    /\ log_queue' = <<>>
    /\ current' = current + 1
    /\ starting' = "announce"
    /\ base' = event_sequence
    /\ UNCHANGED <<event_sequence, paths, file, worker, stopping, stops, reader>>

\* Deviation: is_running is looked at in a section of its own.
StartUnguarded ==
    /\ starting = "idle"
    /\ current < MaxRuns
    /\ is_running' = TRUE
    /\ last_outcome' = "running"
    /\ stop_event' = FALSE
    /\ log_queue' = <<>>
    /\ paths' = {}
    /\ current' = current + 1
    /\ starting' = "announce"
    /\ base' = event_sequence
    /\ UNCHANGED <<event_sequence, file, worker, stopping, stops, reader>>

\* The section that refuses a second run (409) and claims the first.
ClaimRun ==
    /\ ~is_running
    /\ current < MaxRuns
    /\ is_running' = TRUE
    /\ last_outcome' = "running"
    /\ stop_event' = FALSE
    /\ log_queue' = <<>>
    /\ paths' = {}
    /\ current' = current + 1
    /\ starting' = "announce"
    /\ base' = event_sequence
    /\ UNCHANGED <<event_sequence, file, worker, stopping, stops, reader>>

AnnounceRun ==
    /\ starting = "announce"
    /\ AppendEvent(current)
    /\ starting' = "thread"
    /\ UNCHANGED <<run, current, worker, stopping, stops, reader, base>>

StartThread ==
    /\ starting = "thread"
    /\ starting' = "idle"
    /\ worker' = [worker EXCEPT ![current].pc = "running"]
    /\ UNCHANGED <<run, log, current, stopping, stops, reader, base>>

\* Thread.start raises: no clause catches it and is_running stays set.
ThreadNotStarted ==
    /\ starting = "thread"
    /\ starting' = "idle"
    /\ UNCHANGED <<run, log, current, worker, stopping, stops, reader, base>>

-----------------------------------------------------------------------------
(* The worker threads: run_sim_background, run_scenario_background.            *)

NoWorker ==
    [pc |-> "none", work |-> 0, stopped |-> FALSE, written |-> {}, failed |-> FALSE]

At(r, p) == worker[r].pc = p

\* What is in progress goes on logging after a stop request.
LogWork(r) ==
    /\ At(r, "running")
    /\ worker[r].work < MaxWork
    /\ worker' = [worker EXCEPT ![r].work = @ + 1]
    /\ AppendEvent(r)
    /\ UNCHANGED <<run, current, starting, stopping, stops, reader, base>>

\* The loop is over, whether or not the flag was raised since its last look, or
\* stop_callback was true at its next look.
LoopEnds(r) ==
    /\ At(r, "running")
    /\ \E seen \in {FALSE, stop_event} :
          worker' = [worker EXCEPT ![r].pc = "export", ![r].stopped = seen]
    /\ UNCHANGED <<run, log, current, starting, stopping, stops, reader, base>>

ExportsLeft(r) == Artifacts(Mode[r]) \ worker[r].written

\* The files have fixed paths, which every run overwrites.  A behavior run asks stop_event
\* when it has its layer.
Export(r) ==
    /\ At(r, "export")
    /\ \E k \in ExportsLeft(r) :
          /\ k = "validation" => "ground_truth" \in worker[r].written
          /\ file' = [file EXCEPT ![k] = r]
          /\ worker' = [worker EXCEPT ![r].written = @ \union {k},
                                      ![r].stopped = IF Mode[r] = "behavior" THEN stop_event ELSE @,
                                      ![r].pc = IF ExportsLeft(r) = {k} THEN "finally" ELSE @]
    /\ UNCHANGED <<is_running, last_outcome, stop_event, paths, log, current, starting,
                   stopping, stops, reader, base>>

\* An exception anywhere in the try block.
WorkerRaises(r) ==
    /\ worker[r].pc \in {"running", "export"}
    /\ worker' = [worker EXCEPT ![r].pc = "finally", ![r].failed = TRUE]
    /\ UNCHANGED <<run, log, current, starting, stopping, stops, reader, base>>

\* A scenario run whose validation did not pass keeps the outcome error.
Outcome(r) ==
    IF worker[r].failed THEN {"error"}
    ELSE IF worker[r].stopped THEN {"stopped"}
    ELSE IF Mode[r] = "behavior" THEN {"complete"} ELSE {"complete", "error"}

\* The section of the finally clause.
WorkerEnds(r) ==
    /\ At(r, "finally")
    /\ is_running' = FALSE
    /\ last_outcome' \in Outcome(r)
    /\ paths' = IF worker[r].failed THEN paths ELSE paths \union worker[r].written
    /\ worker' = [worker EXCEPT ![r] = [NoWorker EXCEPT !.pc = "status"]]
    /\ UNCHANGED <<stop_event, file, log, current, starting, stopping, stops, reader,
                   base>>

\* The closing message is logged after that section: a new run may have begun.
LogStatus(r) ==
    /\ At(r, "status")
    /\ AppendEvent(r)
    /\ worker' = [worker EXCEPT ![r].pc = "done"]
    /\ UNCHANGED <<run, current, starting, stopping, stops, reader, base>>

-----------------------------------------------------------------------------
(* POST /stop and POST /clear.                                                 *)

\* The section that reads is_running; the rest of stop_sim holds no lock.
StopRequested ==
    /\ is_running
    /\ stops < MaxStops
    /\ stops' = stops + 1
    /\ stopping' = [stopping EXCEPT !.set = @ + 1]
    /\ UNCHANGED <<run, log, current, starting, worker, reader, base>>

\* The request may by now meet a run that was claimed after it looked.
SetStop ==
    /\ stopping.set > 0
    /\ stop_event' = TRUE
    /\ stopping' = [set |-> stopping.set - 1, announce |-> stopping.announce + 1]
    /\ UNCHANGED <<is_running, last_outcome, paths, file, log, current, starting, worker,
                   stops, reader, base>>

AnnounceStop ==
    /\ stopping.announce > 0
    /\ stopping' = [stopping EXCEPT !.announce = @ - 1]
    /\ AppendEvent(0)
    /\ UNCHANGED <<run, current, starting, worker, stops, reader, base>>

\* Deviation: history can be cleared under a run.
ClearAnytime ==
    /\ log_queue' = <<>>
    /\ last_outcome' = "ready"
    /\ UNCHANGED <<is_running, stop_event, paths, file, event_sequence, current, starting,
                   worker, stopping, stops, reader, base>>

\* Deviation: clearing restarts the numbering of events.
ClearNumbers ==
    /\ ~is_running
    /\ log_queue' = <<>>
    /\ event_sequence' = 0
    /\ last_outcome' = "ready"
    /\ UNCHANGED <<is_running, stop_event, paths, file, current, starting, worker,
                   stopping, stops, reader, base>>

ClearEvents ==
    /\ ~is_running
    /\ log_queue' = <<>>
    /\ last_outcome' = "ready"
    /\ UNCHANGED <<is_running, stop_event, paths, file, event_sequence, current, starting,
                   worker, stopping, stops, reader, base>>

-----------------------------------------------------------------------------
(* GET /stream.                                                                *)

NewEvents == SelectSeq(log_queue, LAMBDA e : e.id > reader.cursor)

\* One section: what is in the log past the cursor; with nothing there it waits.
Fetch ==
    /\ reader.inbox = <<>>
    /\ NewEvents # <<>>
    /\ reader' = [reader EXCEPT !.inbox = NewEvents]
    /\ UNCHANGED <<run, log, current, starting, worker, stopping, stops, base>>

Send ==
    /\ reader.inbox # <<>>
    /\ reader' = [reader EXCEPT !.cursor = Head(reader.inbox).id, !.inbox = Tail(@)]
    /\ UNCHANGED <<run, log, current, starting, worker, stopping, stops, base>>

\* The browser connects again with the last id it was sent.
Reconnect ==
    /\ reader.inbox # <<>>
    /\ reader' = [reader EXCEPT !.inbox = <<>>]
    /\ UNCHANGED <<run, log, current, starting, worker, stopping, stops, base>>

-----------------------------------------------------------------------------
Init ==
    /\ is_running = FALSE /\ last_outcome = "ready" /\ stop_event = FALSE
    /\ log_queue = <<>> /\ event_sequence = 0
    /\ paths = {} /\ file = [k \in Kinds |-> 0]
    /\ current = 0 /\ starting = "idle"
    /\ worker = [r \in Runs |-> NoWorker]
    /\ stopping = [set |-> 0, announce |-> 0] /\ stops = 0
    /\ reader = [cursor |-> 0, inbox |-> <<>>]
    /\ base = 0

\* What a worker does in any case: it looks at the flag, and gets to its end.
WorkerProceeds(r) ==
    \/ stop_event /\ LoopEnds(r)
    \/ Export(r) \/ WorkerEnds(r) \/ LogStatus(r)

Next ==
    \/ ClaimRun \/ AnnounceRun \/ StartThread \/ ThreadNotStarted
    \/ \E r \in Runs :
          \/ LogWork(r) \/ LoopEnds(r) \/ Export(r) \/ WorkerRaises(r)
          \/ WorkerEnds(r) \/ LogStatus(r)
    \/ StopRequested \/ SetStop \/ AnnounceStop \/ ClearEvents
    \/ Fetch \/ Send \/ Reconnect

\* A started worker is scheduled.  Requests need not come, a run that nobody stops may
\* go on for as long as it was asked to, and the stream's connection may be lost again
\* and again, but not each time before an event.
Fairness ==
    /\ WF_vars(\E r \in Runs : WorkerProceeds(r))
    /\ WF_vars(Fetch) /\ SF_vars(Send)

Spec == Init /\ [][Next]_vars /\ Fairness

-----------------------------------------------------------------------------
EventType == [id : Nat, run : 0..MaxRuns]

\* Types of the module state and of the threads' locals.
DashboardTypeOK ==
    /\ is_running \in BOOLEAN /\ stop_event \in BOOLEAN
    /\ last_outcome \in {"ready", "running", "error", "stopped", "complete"}
    /\ log_queue \in Seq(EventType) /\ Len(log_queue) <= MAX_EVENTS
    /\ event_sequence \in Nat /\ base \in Nat
    /\ paths \subseteq Kinds /\ file \in [Kinds -> 0..MaxRuns]
    /\ current \in 0..MaxRuns
    /\ starting \in {"idle", "announce", "thread"}
    /\ worker \in [Runs -> [pc : {"none", "running", "export", "finally", "status", "done"},
                            work : 0..MaxWork, stopped : BOOLEAN,
                            written : SUBSET Kinds, failed : BOOLEAN]]
    /\ stopping \in [set : 0..MaxStops, announce : 0..MaxStops] /\ stops \in 0..MaxStops
    /\ reader \in [cursor : Nat, inbox : Seq(EventType)]

Active(r) == worker[r].pc \in {"running", "export", "finally"}

\* Two runs are never in progress at once, and none outside is_running: no worker
\* writes the shared files while another does.
OneWorker ==
    \A r \in Runs :
        Active(r) => /\ is_running /\ r = current /\ starting = "idle"
                     /\ \A s \in Runs \ {r} : ~Active(s)

\* Every artifact on offer was written by the run that was claimed last.
ArtifactsOfRun == \A k \in paths : file[k] = current

\* While a run is in progress its log is complete: all that was logged since it was
\* claimed, in order of id, up to the length the log is cut to.
RunLogComplete ==
    is_running =>
        LET n == event_sequence - base
        IN  /\ Len(log_queue) = IF n > MAX_EVENTS THEN MAX_EVENTS ELSE n
            /\ \A i \in DOMAIN log_queue :
                  log_queue[i].id = event_sequence - Len(log_queue) + i

\* What the page shows is of one run: one at a time writes the shared files, the artifacts
\* on offer are its own, and its log is whole.
OneRunShown == OneWorker /\ ArtifactsOfRun /\ RunLogComplete

\* A stop flag raised under a run ends that run: a start that is refused meanwhile
\* does not lose it.
StopEndsRun ==
    \A r \in Runs : (worker[r].pc = "running" /\ stop_event) ~> ~Active(r)

\* The reader catches up with the log again and again, reconnecting or not: ids only
\* grow, so whatever was started, cut or cleared, the last event it was sent is the last.
CaughtUp ==
    []<>(log_queue # <<>> => reader.cursor = log_queue[Len(log_queue)].id)
=============================================================================
