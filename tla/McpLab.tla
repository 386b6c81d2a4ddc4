------------------------------- MODULE McpLab -------------------------------
(* The MCP lab (mcp_lab.py): a server that authorizes each message by the       *)
(* context it comes with and binds sessions to principals, and the report that  *)
(* exercises the server's controls.                                             *)
EXTENDS Naturals, Sequences, FiniteSets

CONSTANTS
    Principals, Sessions,
    MaxMessages     \* bound: messages to the server

VARIABLES
    bound,          \* _session_principals, where set
    results,        \* bound counter and the <<session, principal>> that got a result
    report          \* the report on disk, if there is one

mcpVars == <<bound, results, report>>

McpInit == bound = <<>> /\ results = [messages |-> 0, given |-> {}] /\ report = "none"

Contexts ==
    [principal : Principals, session : Sessions, passthrough : BOOLEAN, audience : BOOLEAN,
     consent : BOOLEAN, scope : BOOLEAN]

Messages ==
    [version : BOOLEAN, method : {"initialize", "tools/list", "tools/call", "other"}, known : BOOLEAN]

\* The checks of the server, by what each rejects; a property looks at servers without one.
Controls == {"passthrough", "audience", "consent", "session", "tool", "scope", "version"}

\* setdefault.
BindSession(sessions, context) ==
    [s \in DOMAIN sessions \union {context.session} |->
        IF s \in DOMAIN sessions THEN sessions[s] ELSE context.principal]

\* Deviation: only the first message of a session is compared.
AuthorizeUnbound(sessions, context, controls) ==
    IF "passthrough" \in controls /\ context.passthrough THEN 32001
    ELSE IF "audience" \in controls /\ ~context.audience THEN 32002
    ELSE IF "consent" \in controls /\ ~context.consent THEN 32003
    ELSE 0

\* _authorize: the (negated) code of the first check that fails, 0 if none does.
Authorize(sessions, context, controls) ==
    IF "passthrough" \in controls /\ context.passthrough THEN 32001
    ELSE IF "audience" \in controls /\ ~context.audience THEN 32002
    ELSE IF "consent" \in controls /\ ~context.consent THEN 32003
    ELSE IF /\ "session" \in controls /\ context.session \in DOMAIN sessions
            /\ sessions[context.session] # context.principal THEN 32004
    ELSE 0

\* The method, of an authorized message.
Dispatch(message, context, controls) ==
    IF message.method \in {"initialize", "tools/list"} THEN 0
    ELSE IF message.method # "tools/call" \/ ("tool" \in controls /\ ~message.known) THEN 32601
    ELSE IF "scope" \in controls /\ ~context.scope THEN 32005
    ELSE 0

\* handle: the version is looked at first, and an authorized message binds its session
\* whatever becomes of it.
Handled(sessions, message, context, controls) ==
    IF "version" \in controls /\ ~message.version
    THEN [code |-> 32600, sessions |-> sessions]
    ELSE LET denied == Authorize(sessions, context, controls)
         IN  IF denied # 0
             THEN [code |-> denied, sessions |-> sessions]
             ELSE [code |-> Dispatch(message, context, controls), sessions |-> BindSession(sessions, context)]

Handle(message, context) ==
    LET handled == Handled(bound, message, context, Controls) IN
    /\ results.messages < MaxMessages
    /\ bound' = handled.sessions
    /\ results' = [messages |-> results.messages + 1,
                   given |-> IF handled.code = 0
                             THEN results.given \union {<<context.session, context.principal>>}
                             ELSE results.given]
    /\ UNCHANGED report

-----------------------------------------------------------------------------
(* build_mcp_lab_report.                                                       *)

Valid(session) ==
    [principal |-> "a", session |-> session, passthrough |-> FALSE, audience |-> TRUE,
     consent |-> TRUE, scope |-> TRUE]

Message(method) == [version |-> TRUE, method |-> method, known |-> TRUE]

\* The exchanges, in order, each with the code that is expected of it; the one that opens
\* the shared session is not a check, and its code is not looked at.
Exchanges ==
    <<<<Message("tools/call"), Valid("sa"), 0>>,
      <<Message("tools/list"), [Valid("sb") EXCEPT !.passthrough = TRUE], 32001>>,
      <<Message("tools/list"), [Valid("sc") EXCEPT !.audience = FALSE], 32002>>,
      <<Message("tools/list"), [Valid("sd") EXCEPT !.consent = FALSE], 32003>>,
      <<Message("initialize"), Valid("shared"), 0>>,
      <<Message("tools/list"), [Valid("shared") EXCEPT !.principal = "b"], 32004>>,
      <<[Message("tools/call") EXCEPT !.known = FALSE], Valid("se"), 32601>>>>

\* Deviation: the hijacker comes with a session of its own.
ExchangesApart ==
    [Exchanges EXCEPT ![6][2].session = "sf"]

ReportExchanges == Exchanges

\* The sessions before the n-th exchange with a server that has these controls.
SessionsBefore(controls) ==
    LET before[n \in 1 .. Len(ReportExchanges)] ==
            IF n = 1 THEN <<>>
            ELSE Handled(before[n - 1], ReportExchanges[n - 1][1], ReportExchanges[n - 1][2], controls).sessions
    IN  before

AllPassed(controls) ==
    \A n \in DOMAIN ReportExchanges \ {5} :
        Handled(SessionsBefore(controls)[n], ReportExchanges[n][1], ReportExchanges[n][2], controls).code
            = ReportExchanges[n][3]

\* run_mcp_lab: the report is of a server of its own.
WriteReport ==
    /\ report = "none"
    /\ report' = IF AllPassed(Controls) THEN "all_passed" ELSE "failed"
    /\ UNCHANGED <<bound, results>>

McpNext ==
    \/ \E message \in Messages, context \in Contexts : Handle(message, context)
    \/ WriteReport

-----------------------------------------------------------------------------
(* Properties.                                                                 *)

\* Whatever messages come, in whatever order and however they fail, the results of a
\* session all go to one principal: the one it is bound to.
SessionHasOnePrincipal ==
    \A r \in results.given : r[1] \in DOMAIN bound /\ bound[r[1]] = r[2]

\* The report that passes this server would have failed one that has lost a control (the
\* scope and the version apart, which the report does not exercise).
ReportTellsControls ==
    report # "none" =>
        /\ report = "all_passed"
        /\ \A c \in Controls \ {"scope", "version"} : ~AllPassed(Controls \ {c})
=============================================================================
