------------------------------ MODULE LiveQuery ------------------------------
(* A read-only query of a vendor (telemetry/connectors): the plan made from a   *)
(* specification, the check of a plan that has been through other hands, and    *)
(* the exchange with the vendor, which answers late, wrongly or not at all.     *)
EXTENDS Integers, Sequences, SequencesExt

\* What an answer's items are: records as the vendor wraps them, other objects, the rest.
Items == {"wrapped", "bare", "junk"}

CONSTANTS
    Specifications,         \* what users ask for
    Answers,                \* the vendor's answers
    Second,                 \* in units of a query's times
    MaxWindow, MaxRecords,  \* MAX_QUERY_WINDOW, MAX_LIVE_RECORDS
    MaxPolls,               \* 20 in the code
    MaxPlanEdits            \* bound

ASSUME QueryAssumption ==
    /\ Second \in Nat \ {0} /\ MaxWindow \in Nat /\ MaxRecords \in Nat \ {0}
    /\ MaxPolls \in Nat \ {0} /\ MaxPlanEdits \in Nat
    /\ \A s \in Specifications :
          /\ s.since \in Int /\ s.until \in Int
          /\ s.dataset \in [workspace : STRING, table : STRING, exact : BOOLEAN]
    /\ \A a \in Answers : a.items \in Seq(Items)

VARIABLES
    plan,       \* the plan as it is executed
    planEdits,  \* bound counter
    exchange    \* what was sent, what came back, and the result

queryVars == <<plan, planEdits, exchange>>

-----------------------------------------------------------------------------
(* Plans.                                                                      *)

\* validate_base_url.
OriginAccepted(origin) ==
    /\ origin.plain
    /\ \/ origin.scheme = "https"
       \/ origin.scheme = "http" /\ origin.loopback

\* QuerySpec.__post_init__; "exact" is the shape of a name, without wildcards.
SpecificationAccepted(s) ==
    /\ OriginAccepted(s.origin)
    /\ s.dataset.exact /\ s.target.exact
    /\ s.limit \in 1 .. MaxRecords
    /\ s.since < s.until /\ s.until - s.since <= MaxWindow

\* The builder needs both parts of a workspace's dataset.
Buildable(s) == SpecificationAccepted(s) /\ (s.connector = "sentinel" => s.dataset.table # "")

DefaultField ==
    [splunk |-> "host", elastic |-> "host.id", crowdstrike |-> "aid", sentinel |-> "Computer",
     panther |-> "p_any_hostname", graylog |-> "source"]

FieldOf(s) == IF s.field = "" THEN DefaultField[s.connector] ELSE s.field

\* Which part of the dataset the endpoint names.
PathOf(connector, dataset) ==
    [endpoint |-> connector,
     dataset  |-> CASE connector \in {"elastic", "crowdstrike"} -> dataset
                    [] connector = "sentinel" -> [dataset EXCEPT !.table = ""]
                    [] OTHER -> [dataset EXCEPT !.workspace = "", !.table = ""]]

\* The times that a query's text has: one vendor's have no fractions of a second.
TextOf(connector, time) == IF connector = "panther" THEN (time \div Second) * Second ELSE time

\* The query's text and what it is bounded by; the rest of the dataset is in it.
BodyOf(s) ==
    [dataset |-> CASE s.connector \in {"elastic", "crowdstrike"} -> [s.dataset EXCEPT !.workspace = "", !.table = ""]
                   [] s.connector = "sentinel" -> [s.dataset EXCEPT !.workspace = ""]
                   [] OTHER -> s.dataset,
     target  |-> s.target, field |-> FieldOf(s), limit |-> s.limit,
     since   |-> TextOf(s.connector, s.since), until |-> TextOf(s.connector, s.until)]

\* build_query_plan: the request, and the facts that are recorded with it.
Built(s) ==
    [connector |-> s.connector, origin |-> s.origin, path |-> PathOf(s.connector, s.dataset),
     body |-> BodyOf(s), credential |-> s.credential, style |-> s.connector,
     since |-> s.since, until |-> s.until, target |-> s.target, dataset |-> s.dataset,
     limit |-> s.limit, field |-> FieldOf(s)]

\* The specification that the recorded facts of a plan would be.
SpecificationOf(p) ==
    [connector |-> p.connector, origin |-> p.origin, dataset |-> p.dataset, target |-> p.target,
     since |-> p.since, until |-> p.until, limit |-> p.limit, field |-> p.field,
     credential |-> p.credential]

\* Deviation: only the endpoint and the facts are checked, and not the query.
GeneratedByFacts(p) ==
    p.path = PathOf(p.connector, p.dataset) /\ Buildable(SpecificationOf(p))

\* _validate_generated_plan.
Generated(p) ==
    /\ p.path = PathOf(p.connector, p.dataset)
    /\ Buildable(SpecificationOf(p))
    /\ p = Built(SpecificationOf(p))

-----------------------------------------------------------------------------
(* Answers.                                                                    *)

\* _extract_records: which items are taken for records; an answer may also be a plain list.
Kept(answer, connector) ==
    IF connector \in {"splunk", "panther"} \union (IF answer.listed THEN {} ELSE {"elastic", "sentinel"})
    THEN {"wrapped"} ELSE {"wrapped", "bare"}

Extracted(answer, connector) ==
    FlattenSeq([n \in DOMAIN answer.items |->
                   IF answer.items[n] \in Kept(answer, connector) THEN <<answer.items[n]>> ELSE <<>>])

Cut(items, limit) == SubSeq(items, 1, IF Len(items) < limit THEN Len(items) ELSE limit)

\* len(content).
Size(answer) == 1 + Len(answer.items)

-----------------------------------------------------------------------------
(* The query.                                                                  *)

Unsent(pc) == [pc |-> pc, sent |-> <<>>, answers |-> <<>>, bytes |-> 0, events |-> <<>>]

QueryInit ==
    /\ plan \in {Built(s) : s \in {s \in Specifications : Buildable(s)}}
    /\ planEdits = 0
    /\ exchange = Unsent("planned")

\* A caller has changed a field to what another plan has there.
Forge(s, f) ==
    /\ exchange.pc = "planned" /\ planEdits < MaxPlanEdits
    /\ Built(s)[f] # plan[f]
    /\ plan' = [plan EXCEPT ![f] = Built(s)[f]]
    /\ planEdits' = planEdits + 1
    /\ UNCHANGED exchange

\* execute_query_plan: the opt-in, the plan, the credential's variable.
Execute(allowed, environment) ==
    /\ exchange.pc = "planned"
    /\ exchange' = IF allowed /\ Generated(plan) /\ plan.credential \in environment
                   THEN [exchange EXCEPT !.pc = IF plan.connector = "panther" THEN "issue" ELSE "request"]
                   ELSE [exchange EXCEPT !.pc = "refused"]
    /\ UNCHANGED <<plan, planEdits>>

\* transport.request: what is sent, and what is known of the answer.
Exchanged(question, answer, pc) ==
    [exchange EXCEPT !.sent = Append(@, question), !.answers = Append(@, answer),
                     !.bytes = @ + Size(answer), !.pc = pc]

Asked == [origin |-> plan.origin, path |-> plan.path, credential |-> plan.credential, body |-> plan.body]
Polled == [origin |-> plan.origin, path |-> plan.path, credential |-> plan.credential, body |-> "poll"]

\* normalize_records of what the plan's limit leaves.
Resulting(e, items) == [e EXCEPT !.pc = "completed", !.events = Cut(items, plan.limit)]

\* _single_request.
SingleRequest(answer) ==
    /\ exchange.pc = "request"
    /\ exchange' = IF answer.transport # "ok" THEN Exchanged(Asked, answer, "failed")
                   ELSE Resulting(Exchanged(Asked, answer, "completed"), Extracted(answer, plan.connector))
    /\ UNCHANGED <<plan, planEdits>>

\* _panther_request: the answer to the first request has the query's id.
IssueQuery(answer) ==
    /\ exchange.pc = "issue"
    /\ exchange' = Exchanged(Asked, answer,
                             IF answer.transport = "ok" /\ answer.id THEN "poll" ELSE "failed")
    /\ UNCHANGED <<plan, planEdits>>

\* Deviation: a query that does not run any more has ended well.
PollUntilEnded(answer) ==
    /\ exchange.pc = "poll"
    /\ exchange' = IF answer.transport # "ok" THEN Exchanged(Polled, answer, "failed")
                   ELSE IF answer.status = "running" THEN Exchanged(Polled, answer,
                           IF Len(exchange.sent) = MaxPolls THEN "failed" ELSE "poll")
                   ELSE Resulting(Exchanged(Polled, answer, "completed"), Extracted(answer, plan.connector))
    /\ UNCHANGED <<plan, planEdits>>

\* Each poll, the last of which may not find it running.
Poll(answer) ==
    /\ exchange.pc = "poll"
    /\ exchange' = CASE answer.transport = "ok" /\ answer.status = "succeeded" ->
                           Resulting(Exchanged(Polled, answer, "completed"), Extracted(answer, plan.connector))
                     [] answer.transport = "ok" /\ answer.status = "running" /\ Len(exchange.sent) < MaxPolls ->
                           Exchanged(Polled, answer, "poll")
                     [] OTHER -> Exchanged(Polled, answer, "failed")
    /\ UNCHANGED <<plan, planEdits>>

QueryNext ==
    \/ \E s \in {s \in Specifications : Buildable(s)} : \E f \in DOMAIN plan : Forge(s, f)
    \/ \E allowed \in BOOLEAN, environment \in SUBSET {s.credential : s \in Specifications} : Execute(allowed, environment)
    \/ \E answer \in Answers : SingleRequest(answer) \/ IssueQuery(answer) \/ Poll(answer)

-----------------------------------------------------------------------------
(* Property.                                                                   *)

\* Each answer, and each of its items.
Counted(answers) == Len(answers) + Len(FlattenSeq([n \in DOMAIN answers |-> answers[n].items]))

\* Whoever has changed a plan, what is sent is sent to an accepted origin, with the plan's
\* credential, and asks what the plan records: its dataset, target, field and limit, for a
\* window that starts and ends within a second of the recorded one, which is no longer than
\* allowed.  A result comes from an answer that says the query succeeded, has the first of
\* its records in their order and no more than the limit, and counts every byte; and a
\* vendor that is never done is asked no more than MaxPolls times.
QueryAnswersItsPlan ==
    exchange.pc # "none" =>
        /\ Len(exchange.sent) <= MaxPolls + 1
        /\ exchange.sent # <<>> =>
              LET asked == exchange.sent[1] IN
              /\ OriginAccepted(asked.origin) /\ asked.origin = plan.origin
              /\ \A n \in DOMAIN exchange.sent : exchange.sent[n].credential = plan.credential
              /\ {asked.path.dataset.workspace, asked.body.dataset.workspace} \ {""} = {plan.dataset.workspace} \ {""}
              /\ {asked.path.dataset.table, asked.body.dataset.table} \ {""} = {plan.dataset.table} \ {""}
              /\ asked.body.target = plan.target /\ asked.body.field = plan.field /\ asked.body.limit = plan.limit
              /\ plan.limit <= MaxRecords /\ plan.until - plan.since <= MaxWindow
              /\ asked.body.since \in plan.since - Second + 1 .. plan.since
              /\ asked.body.until \in plan.until - Second + 1 .. plan.until
        /\ exchange.pc = "completed" =>
              LET answer == Last(exchange.answers) IN
              /\ answer.transport = "ok"
              /\ plan.connector = "panther" => answer.status = "succeeded" /\ exchange.answers[1].id
              /\ Len(exchange.events) <= plan.limit
              /\ IsPrefix(exchange.events, Extracted(answer, plan.connector))
              /\ exchange.bytes = Counted(exchange.answers)
=============================================================================
