--------------------------- MODULE AgentLabsProofs ---------------------------
(* Proofs about the labs: any principals, sessions and messages; any files, and *)
(* any changes of a file and its reference while it is reviewed.                *)
EXTENDS AgentLabs, SequenceTheorems, TLAPS

-----------------------------------------------------------------------------
(* The MCP lab.                                                                *)

\* A message takes no session from its principal, and gets a result only as the principal
\* that its session is bound to then.
LEMMA HandledBinds ==
    ASSUME NEW sessions, NEW message, NEW context
    PROVE  LET handled == Handled(sessions, message, context, Controls) IN
           /\ DOMAIN sessions \subseteq DOMAIN handled.sessions
           /\ \A s \in DOMAIN sessions : handled.sessions[s] = sessions[s]
           /\ handled.code = 0 => /\ context.session \in DOMAIN handled.sessions
                                  /\ handled.sessions[context.session] = context.principal
<1> DEFINE handled == Handled(sessions, message, context, Controls)
           denied  == Authorize(sessions, context, Controls)
<1>1. CASE ~message.version
  <2>1. handled = [code |-> 32600, sessions |-> sessions]
    BY <1>1 DEF Handled, Controls
  <2> QED
    BY <2>1
<1>2. CASE message.version /\ denied # 0
  <2>1. handled = [code |-> denied, sessions |-> sessions]
    BY <1>2 DEF Handled
  <2> QED
    BY <1>2, <2>1
<1>3. CASE message.version /\ denied = 0
  <2>1. handled = [code |-> Dispatch(message, context, Controls), sessions |-> BindSession(sessions, context)]
    BY <1>3 DEF Handled
  <2>2. context.session \in DOMAIN sessions => sessions[context.session] = context.principal
    BY <1>3 DEF Authorize, Controls
  <2> QED
    BY <2>1, <2>2 DEF BindSession
<1> QED
  BY <1>1, <1>2, <1>3

\* All results of a session go to the principal it is bound to (SessionHasOnePrincipal).
THEOREM OnePrincipal == Spec => []SessionHasOnePrincipal
<1>1. Init => SessionHasOnePrincipal
  BY DEF Init, McpInit, SessionHasOnePrincipal
<1>2. SessionHasOnePrincipal /\ [Next]_labVars => SessionHasOnePrincipal'
  <2> SUFFICES ASSUME SessionHasOnePrincipal, [Next]_labVars PROVE SessionHasOnePrincipal'
    OBVIOUS
  <2>1. ASSUME NEW message \in Messages, NEW context \in Contexts, Handle(message, context)
        PROVE  SessionHasOnePrincipal'
    <3> DEFINE handled == Handled(bound, message, context, Controls)
    <3>1. /\ DOMAIN bound \subseteq DOMAIN handled.sessions
          /\ \A s \in DOMAIN bound : handled.sessions[s] = bound[s]
          /\ handled.code = 0 => /\ context.session \in DOMAIN handled.sessions
                                 /\ handled.sessions[context.session] = context.principal
      BY HandledBinds
    <3>2. bound' = handled.sessions
      BY <2>1 DEF Handle
    <3>3. \A r \in results'.given :
             \/ r \in results.given
             \/ handled.code = 0 /\ r = <<context.session, context.principal>>
      BY <2>1 DEF Handle
    <3> QED
      BY <3>1, <3>2, <3>3 DEF SessionHasOnePrincipal
  <2>2. CASE UNCHANGED mcpVars
    BY <2>2 DEF mcpVars, SessionHasOnePrincipal
  <2>3. CASE WriteReport
    BY <2>3 DEF WriteReport, SessionHasOnePrincipal
  <2> QED
    BY <2>1, <2>2, <2>3 DEF Next, Serve, RunMcp, Review, McpNext, labVars, mcpVars
<1> QED
  BY <1>1, <1>2, PTL DEF Spec

-----------------------------------------------------------------------------
(* The review of an artifact.                                                  *)

Reading == {"path", "resolve", "file", "stat", "open", "read"}

\* From the time the reference was read, the reviewer has one that is as it was made, and
\* has noted it if nobody approved it.
ReferenceNoted ==
    review.pc \in Reading =>
        /\ review.ref.digest = Body(review.ref)
        /\ review.ref.status = "approved" \/ \E f \in review.findings : f[1] \in {"block", "review"}

ReviewInv ==
    /\ DOMAIN review = {"pc", "ref", "target", "open", "same", "stat", "read", "findings"}
    /\ ReferenceNoted
    /\ ApprovedWasRead

\* What blocks is not approved.
LEMMA NotApproved ==
    ASSUME NEW findings, NEW f \in findings, f[1] \in {"block", "review"}
    PROVE  ReviewVerdict(findings) # "approved"
BY DEF ReviewVerdict

\* A review that ends with a finding that blocks ends well.
LEMMA BlockedIsSound ==
    ASSUME ReviewInv, NEW f \in review'.findings, f[1] = "block",
           review'.pc = "done", DOMAIN review' = DOMAIN review
    PROVE  ReviewInv'
<1>1. ReviewVerdict(review'.findings) # "approved"
  BY NotApproved
<1> QED
  BY <1>1 DEF ReviewInv, ReferenceNoted, ApprovedWasRead, Reading

\* A step within a review, or a change of the file that an open reader sees, leaves the
\* reference and the findings alone.
LEMMA StepIsSound ==
    ASSUME ReviewInv, DOMAIN review' = DOMAIN review,
           review'.ref = review.ref, review'.findings = review.findings,
           \/ review.pc \in Reading /\ review'.pc \in Reading \union {"error"}
           \/ review'.pc = review.pc /\ review'.read = review.read
    PROVE  ReviewInv'
BY DEF ReviewInv, ReferenceNoted, ApprovedWasRead, Reading, Body

LEMMA ReadReferenceIsSound == ASSUME ReviewInv, ReadReference PROVE ReviewInv'
<1>1. CASE ~ReferenceOk(reference)
  <2>1. review' = Finds({<<"block", "reference_invalid">>}, "done")
    BY <1>1 DEF ReadReference
  <2>2. /\ DOMAIN review' = DOMAIN review /\ review'.pc = "done"
        /\ <<"block", "reference_invalid">> \in review'.findings
    BY <2>1 DEF Finds, ReviewInv
  <2> QED
    BY <2>2, BlockedIsSound
<1>2. CASE ReferenceOk(reference)
  <2> DEFINE severity == IF reference.status = "rejected" THEN "block" ELSE "review"
             noted == IF reference.status = "approved" THEN {} ELSE {<<severity, "artifact_review_status">>}
  <2>1. review' = [review EXCEPT !.ref = reference, !.pc = "path", !.findings = noted]
    BY <1>2 DEF ReadReference
  <2>2. reference.status = "approved" \/ \E f \in noted : f[1] \in {"block", "review"}
    OBVIOUS
  <2> HIDE DEF noted
  <2>3. /\ DOMAIN review' = DOMAIN review /\ review'.pc = "path" /\ review'.ref = reference
        /\ review'.findings = noted
    BY <2>1 DEF ReviewInv
  <2>4. reference.digest = Body(reference)
    BY <1>2 DEF ReferenceOk
  <2> QED
    BY <2>2, <2>3, <2>4 DEF ReviewInv, ReferenceNoted, ApprovedWasRead, Body
<1> QED
  BY <1>1, <1>2

\* The steps to the file either block or leave all but the target alone.
LEMMA StepToFileIsSound ==
    ASSUME ReviewInv,
           \/ \E code : review' = Finds({<<"block", code>>}, "done")
           \/ /\ review.pc \in Reading /\ review'.pc \in Reading
              /\ DOMAIN review' = DOMAIN review /\ review'.ref = review.ref
              /\ review'.findings = review.findings
    PROVE  ReviewInv'
<1>1. ASSUME NEW code, review' = Finds({<<"block", code>>}, "done") PROVE ReviewInv'
  <2>1. DOMAIN review' = DOMAIN review /\ review'.pc = "done" /\ <<"block", code>> \in review'.findings
    BY <1>1 DEF Finds, ReviewInv
  <2> QED
    BY <2>1, BlockedIsSound
<1> QED
  BY <1>1, StepIsSound

LEMMA CheckPathIsSound == ASSUME ReviewInv, CheckPath PROVE ReviewInv'
<1>1. \/ \E code : review' = Finds({<<"block", code>>}, "done")
      \/ review.pc = "path" /\ review' = [review EXCEPT !.pc = "resolve"]
  BY DEF CheckPath
<1> QED
  BY <1>1, StepToFileIsSound DEF ReviewInv, Reading

LEMMA ResolveIsSound == ASSUME ReviewInv, Resolve PROVE ReviewInv'
<1>1. \/ \E code : review' = Finds({<<"block", code>>}, "done")
      \/ /\ review.pc = "resolve"
         /\ \/ review' = [review EXCEPT !.pc = "file", !.target = content]
            \/ review' = [review EXCEPT !.pc = "file"]
  BY DEF Resolve
<1> QED
  BY <1>1, StepToFileIsSound DEF ReviewInv, Reading

LEMMA CheckFileIsSound == ASSUME ReviewInv, CheckFile PROVE ReviewInv'
<1>1. \/ \E code : review' = Finds({<<"block", code>>}, "done")
      \/ review.pc = "file" /\ review' = [review EXCEPT !.pc = "stat"]
  BY DEF CheckFile
<1> QED
  BY <1>1, StepToFileIsSound DEF ReviewInv, Reading

LEMMA StatIsSound == ASSUME ReviewInv, Stat PROVE ReviewInv'
<1>1. CASE Readable /\ Len(Resolved) > MaxChunks
  <2>1. review' = [Finds({<<"block", "artifact_too_large">>}, "done") EXCEPT !.stat = Len(Resolved)]
    BY <1>1 DEF Stat
  <2>2. /\ DOMAIN review' = DOMAIN review /\ review'.pc = "done"
        /\ <<"block", "artifact_too_large">> \in review'.findings
    BY <2>1 DEF Finds, ReviewInv
  <2> QED
    BY <2>2, BlockedIsSound
<1>2. CASE ~(Readable /\ Len(Resolved) > MaxChunks)
  <2>1. /\ review.pc = "stat"
        /\ \/ review' = [review EXCEPT !.pc = "error"]
           \/ review' = [review EXCEPT !.stat = Len(Resolved), !.pc = "open"]
    BY <1>2 DEF Stat
  <2>2. /\ DOMAIN review' = DOMAIN review /\ review'.ref = review.ref /\ review'.findings = review.findings
        /\ review.pc \in Reading /\ review'.pc \in Reading \union {"error"}
    BY <2>1 DEF ReviewInv, Reading
  <2> QED
    BY <2>2, StepIsSound
<1> QED
  BY <1>1, <1>2

LEMMA OpenIsSound == ASSUME ReviewInv, Open PROVE ReviewInv'
<1>1. /\ review.pc = "open"
      /\ \/ review' = [review EXCEPT !.open = Resolved, !.same = review.target = Unread, !.pc = "read"]
         \/ review' = [review EXCEPT !.pc = "error"]
  BY DEF Open
<1>2. /\ DOMAIN review' = DOMAIN review /\ review'.ref = review.ref /\ review'.findings = review.findings
      /\ review.pc \in Reading /\ review'.pc \in Reading \union {"error"}
  BY <1>1 DEF ReviewInv, Reading
<1> QED
  BY <1>2, StepIsSound

LEMMA ReadChunkIsSound == ASSUME ReviewInv, ReadChunk PROVE ReviewInv'
<1>1. CASE Len(review.read) + 1 > MaxChunks
  <2>1. review' = Finds({<<"block", "artifact_too_large">>}, "done")
    BY <1>1 DEF ReadChunk
  <2>2. /\ DOMAIN review' = DOMAIN review /\ review'.pc = "done"
        /\ <<"block", "artifact_too_large">> \in review'.findings
    BY <2>1 DEF Finds, ReviewInv
  <2> QED
    BY <2>2, BlockedIsSound
<1>2. CASE ~(Len(review.read) + 1 > MaxChunks)
  <2> DEFINE longer == Append(review.read, review.open[Len(review.read) + 1])
  <2>1. review.pc = "read" /\ review' = [review EXCEPT !.read = longer]
    BY <1>2 DEF ReadChunk
  <2> HIDE DEF longer
  <2>2. /\ DOMAIN review' = DOMAIN review /\ review'.ref = review.ref /\ review'.findings = review.findings
        /\ review.pc \in Reading /\ review'.pc \in Reading \union {"error"}
    BY <2>1 DEF ReviewInv, Reading
  <2> QED
    BY <2>2, StepIsSound
<1> QED
  BY <1>1, <1>2

\* The end of a review: it approves only what an approved reference names.
LEMMA CompareIsSound == ASSUME ReviewInv, Compare PROVE ReviewInv'
<1> DEFINE risky == IF review.ref.type \in {"executable", "script"}
                    THEN {<<"review", "executable_inspection_only">>} ELSE {}
           found == Mismatches(review) \union risky
<1>1. review.pc = "read" /\ review' = Finds(found, "done")
  BY DEF Compare
<1>2. /\ DOMAIN review' = DOMAIN review /\ review'.pc = "done" /\ review'.ref = review.ref
      /\ review'.read = review.read
      /\ review'.findings = review.findings \union found
  <2> HIDE DEF found
  <2> QED
    BY <1>1 DEF Finds, ReviewInv
<1>3. ASSUME ReviewVerdict(review'.findings) = "approved"
      PROVE  /\ review.ref.digest = Body(review.ref) /\ review.ref.status = "approved"
             /\ review.ref.type \notin {"executable", "script"}
             /\ review.read = review.ref.content /\ Len(review.read) = review.ref.size
  <2>1. \A f \in review.findings \union found : f[1] \notin {"block", "review"}
    BY <1>2, <1>3, NotApproved
  <2>2. review.ref.digest = Body(review.ref) /\ review.ref.status = "approved"
    BY <1>1, <2>1 DEF ReviewInv, ReferenceNoted, Reading
  <2>6. \A severity \in {"block", "review"} : \A code : <<severity, code>> \notin found
    BY <2>1
  <2>3. review.ref.type \notin {"executable", "script"}
    <3>1. review.ref.type \in {"executable", "script"} => <<"review", "executable_inspection_only">> \in found
      OBVIOUS
    <3> QED
      BY <2>6, <3>1
  <2>4. review.read = review.ref.content
    <3>1. review.read # review.ref.content => <<"block", "digest_mismatch">> \in found
      BY DEF Mismatches
    <3> QED
      BY <2>6, <3>1
  <2>5. Len(review.read) = review.ref.size
    <3>1. Len(review.read) # review.ref.size => <<"block", "size_mismatch">> \in found
      BY DEF Mismatches
    <3> QED
      BY <2>6, <3>1
  <2> QED
    BY <2>2, <2>3, <2>4, <2>5
<1> HIDE DEF found
<1> QED
  BY <1>2, <1>3 DEF ReviewInv, ReferenceNoted, ApprovedWasRead, Reading, Body

\* An approval is of bytes that were read, that an approved and unchanged reference names,
\* however the file and the reference change during the review (ApprovedWasRead).
THEOREM ApprovalWasRead == Spec => []ApprovedWasRead
<1>1. Init => ReviewInv
  BY DEF Init, ArtifactInit, Idling, ReviewInv, ReferenceNoted, ApprovedWasRead, Reading
<1>2. ReviewInv /\ [Next]_labVars => ReviewInv'
  <2> SUFFICES ASSUME ReviewInv, [Next]_labVars PROVE ReviewInv'
    OBVIOUS
  <2>1. CASE UNCHANGED artifactVars
    BY <2>1 DEF artifactVars, ReviewInv, ReferenceNoted, ApprovedWasRead, Reading, Body
  <2>2. ASSUME NEW field, NEW value, EditReference(field, value) PROVE ReviewInv'
    BY <2>2, StepIsSound DEF EditReference
  <2>3. ASSUME NEW file, Overwrite(file) PROVE ReviewInv'
    <3>1. DOMAIN review' = DOMAIN review /\ review'.ref = review.ref /\ review'.findings = review.findings
          /\ review'.pc = review.pc /\ review'.read = review.read
      BY <2>3 DEF Overwrite, ReviewInv
    <3> QED
      BY <2>3, <3>1, StepIsSound DEF Overwrite
  <2>4. ASSUME NEW kind, NEW file, Replace(kind, file) PROVE ReviewInv'
    <3>1. DOMAIN review' = DOMAIN review /\ review'.ref = review.ref /\ review'.findings = review.findings
          /\ review'.pc = review.pc /\ review'.read = review.read
      BY <2>4 DEF Replace, ReviewInv
    <3> QED
      BY <2>4, <3>1, StepIsSound DEF Replace
  <2>5. CASE ReadReference
    BY <2>5, ReadReferenceIsSound
  <2>6. CASE CheckPath
    BY <2>6, CheckPathIsSound
  <2>7. CASE Stat
    BY <2>7, StatIsSound
  <2>8. CASE Open
    BY <2>8, OpenIsSound
  <2>9. CASE ReadChunk
    BY <2>9, ReadChunkIsSound
  <2>10. CASE Compare
    BY <2>10, CompareIsSound
  <2>11. CASE ReviewAgain
    BY <2>11 DEF ReviewAgain, Idling, ReviewInv, ReferenceNoted, ApprovedWasRead, Reading
  <2>12. CASE Resolve
    BY <2>12, ResolveIsSound
  <2>13. CASE CheckFile
    BY <2>13, CheckFileIsSound
  <2>14. CASE ArtifactNext
    BY <2>14, <2>2, <2>3, <2>4, <2>5, <2>6, <2>7, <2>8, <2>9, <2>10, <2>11, <2>12, <2>13 DEF ArtifactNext
  <2> QED
    BY <2>1, <2>14 DEF Next, Serve, RunMcp, Review, labVars
<1>3. ReviewInv => ApprovedWasRead
  BY DEF ReviewInv
<1> QED
  BY <1>1, <1>2, <1>3, PTL DEF Spec
-----------------------------------------------------------------------------
(* The MCP lab's report.                                                       *)

\* What each exchange of the report leaves is what the next one finds.
LEMMA SessionsFollow ==
    ASSUME NEW controls
    PROVE  /\ SessionsBefore(controls)[1] = <<>>
           /\ \A n \in 2..7 : SessionsBefore(controls)[n]
                 = Handled(SessionsBefore(controls)[n - 1], ReportExchanges[n - 1][1],
                           ReportExchanges[n - 1][2], controls).sessions
<1> DEFINE Follows(sessions, n) == Handled(sessions, ReportExchanges[n][1], ReportExchanges[n][2], controls).sessions
           Step(f) == [n \in 1..7 |-> IF n = 1 THEN <<>> ELSE Follows(f[n - 1], n - 1)]
<1>1. Len(ReportExchanges) = 7
  BY DEF ReportExchanges, Exchanges
<1>2. SessionsBefore(controls) = CHOOSE f : f = Step(f)
  BY <1>1, Zenon DEF SessionsBefore
<1> HIDE DEF Follows
<1>3. \E f : f = Step(f)
  <2> DEFINE s2 == Follows(<<>>, 1)
             s3 == Follows(s2, 2)
             s4 == Follows(s3, 3)
             s5 == Follows(s4, 4)
             s6 == Follows(s5, 5)
             s7 == Follows(s6, 6)
             all == [n \in 1..7 |-> CASE n = 1 -> <<>> [] n = 2 -> s2 [] n = 3 -> s3 [] n = 4 -> s4
                                      [] n = 5 -> s5 [] n = 6 -> s6 [] n = 7 -> s7]
  <2>1. \A n \in 1..7 : all[n] = IF n = 1 THEN <<>> ELSE Follows(all[n - 1], n - 1)
    <3> HIDE DEF s2, s3, s4, s5, s6, s7
    <3>1. /\ all[1] = <<>> /\ all[2] = s2 /\ all[3] = s3 /\ all[4] = s4 /\ all[5] = s5
          /\ all[6] = s6 /\ all[7] = s7
      OBVIOUS
    <3> HIDE DEF all
    <3>2. /\ s2 = Follows(<<>>, 1) /\ s3 = Follows(s2, 2) /\ s4 = Follows(s3, 3) /\ s5 = Follows(s4, 4)
          /\ s6 = Follows(s5, 5) /\ s7 = Follows(s6, 6)
      BY DEF s2, s3, s4, s5, s6, s7
    <3>3. \A n \in 1..7 : n \in {1, 2, 3, 4, 5, 6, 7}
      OBVIOUS
    <3> QED
      BY <3>1, <3>2, <3>3
  <2>2. all = [n \in 1..7 |-> all[n]]
    OBVIOUS
  <2> HIDE DEF all
  <2>3. all = Step(all)
    BY <2>1, <2>2
  <2> QED
    BY <2>3
<1>4. SessionsBefore(controls) = Step(SessionsBefore(controls))
  BY <1>2, <1>3, Zenon
<1>5. \A n \in 1..7 : SessionsBefore(controls)[n]
                        = IF n = 1 THEN <<>> ELSE Follows(SessionsBefore(controls)[n - 1], n - 1)
  BY <1>4
<1> QED
  BY <1>5 DEF Follows

\* Sessions that are all bound to principal a stay so under messages of a, and each message
\* of a that is let through binds its session to a.
AllOfA(sessions) == \A s \in DOMAIN sessions : sessions[s] = "a"

LEMMA MessageOfA ==
    ASSUME NEW sessions, AllOfA(sessions), NEW message, NEW context, context.principal = "a"
    PROVE  LET handled == Handled(sessions, message, context, Controls) IN
           /\ AllOfA(handled.sessions)
           /\ (/\ message.version /\ ~context.passthrough /\ context.audience /\ context.consent)
              => /\ handled.code = Dispatch(message, context, Controls)
                 /\ context.session \in DOMAIN handled.sessions
<1> DEFINE handled == Handled(sessions, message, context, Controls)
<1>1. CASE handled.sessions = sessions /\ ~message.version
  BY <1>1
<1>2. CASE message.version /\ Authorize(sessions, context, Controls) # 0
  <2>1. handled.sessions = sessions
    BY <1>2 DEF Handled
  <2>2. context.passthrough \/ ~context.audience \/ ~context.consent
    BY <1>2 DEF Authorize, AllOfA
  <2> QED
    BY <2>1, <2>2
<1>3. CASE message.version /\ Authorize(sessions, context, Controls) = 0
  <2>1. handled = [code |-> Dispatch(message, context, Controls), sessions |-> BindSession(sessions, context)]
    BY <1>3 DEF Handled
  <2> QED
    BY <2>1 DEF BindSession, AllOfA
<1>4. ~message.version => handled.sessions = sessions
  BY DEF Handled, Controls
<1> QED
  BY <1>1, <1>2, <1>3, <1>4

\* The checks of a context and of a tool, each where those before it pass.
LEMMA ChecksOfContext ==
    ASSUME NEW sessions, NEW context
    PROVE  /\ context.passthrough => Authorize(sessions, context, Controls) = 32001
           /\ ~context.passthrough /\ ~context.audience => Authorize(sessions, context, Controls) = 32002
           /\ ~context.passthrough /\ context.audience /\ ~context.consent
                 => Authorize(sessions, context, Controls) = 32003
<1>1. "passthrough" \in Controls /\ "audience" \in Controls /\ "consent" \in Controls
  BY DEF Controls
<1>2. CASE context.passthrough
  BY <1>1, <1>2 DEF Authorize
<1>3. CASE ~context.passthrough /\ ~context.audience
  BY <1>1, <1>3 DEF Authorize
<1>4. CASE ~context.passthrough /\ context.audience /\ ~context.consent
  BY <1>1, <1>4 DEF Authorize
<1> QED
  BY <1>2, <1>3, <1>4

LEMMA ChecksOfTool ==
    ASSUME NEW message, NEW context, message.method = "tools/call", ~message.known
    PROVE  Dispatch(message, context, Controls) = 32601
<1>1. "tool" \in Controls
  BY DEF Controls
<1> QED
  BY <1>1 DEF Dispatch

\* The server passes its own report: the exchange that opens the shared session binds it to
\* a, so that b is refused there, and each of the others is refused by the check it is for.
LEMMA ReportPasses == AllPassed(Controls)
<1> DEFINE before == SessionsBefore(Controls)
           message(n) == ReportExchanges[n][1]
           context(n) == ReportExchanges[n][2]
           handled(n) == Handled(before[n], message(n), context(n), Controls)
<1>1. before[1] = <<>> /\ \A n \in 2..7 : before[n] = handled(n - 1).sessions
  BY SessionsFollow
<1>2. \A n \in {1, 2, 3, 4, 5, 7} : context(n).principal = "a"
  BY DEF ReportExchanges, Exchanges, Valid
<1>3. \A n \in {1, 2, 3, 4, 5, 7} : AllOfA(before[n]) => AllOfA(handled(n).sessions)
  BY <1>2, MessageOfA
<1>4. AllOfA(before[1])
  BY <1>1 DEF AllOfA
<1>5. AllOfA(before[2])
  BY <1>1, <1>3, <1>4
<1>6. AllOfA(before[3])
  BY <1>1, <1>3, <1>5
<1>7. AllOfA(before[4])
  BY <1>1, <1>3, <1>6
<1>8. AllOfA(before[5])
  BY <1>1, <1>3, <1>7
<1>9. AllOfA(before[6]) /\ "shared" \in DOMAIN before[6]
  <2>1. before[6] = handled(5).sessions
    BY <1>1
  <2>2. message(5).version /\ ~context(5).passthrough /\ context(5).audience /\ context(5).consent
        /\ context(5).session = "shared"
    BY DEF ReportExchanges, Exchanges, Valid, Message
  <2> QED
    BY <1>2, <1>8, <2>1, <2>2, MessageOfA
<1>10. handled(1).code = 0
  <2>1. /\ message(1) = Message("tools/call") /\ context(1) = Valid("sa")
    BY DEF ReportExchanges, Exchanges
  <2>2. handled(1).code = Dispatch(message(1), context(1), Controls)
    <3>1. message(1).version /\ ~context(1).passthrough /\ context(1).audience /\ context(1).consent
      BY <2>1 DEF Valid, Message
    <3> QED
      BY <1>2, <1>4, <3>1, MessageOfA
  <2> QED
    BY <2>1, <2>2 DEF Dispatch, Valid, Message
<1>11. handled(2).code = 32001 /\ handled(3).code = 32002 /\ handled(4).code = 32003
  <2>1. /\ message(2).version /\ context(2).passthrough
        /\ message(3).version /\ ~context(3).passthrough /\ ~context(3).audience
        /\ message(4).version /\ ~context(4).passthrough /\ context(4).audience /\ ~context(4).consent
    BY DEF ReportExchanges, Exchanges, Valid, Message
  <2> HIDE DEF message, context
  <2>2. \A sessions : /\ Authorize(sessions, context(2), Controls) = 32001
                       /\ Authorize(sessions, context(3), Controls) = 32002
                       /\ Authorize(sessions, context(4), Controls) = 32003
    BY <2>1, ChecksOfContext
  <2> QED
    BY <2>1, <2>2 DEF Handled
<1>12. handled(6).code = 32004 /\ handled(6).sessions = before[6]
  BY <1>9 DEF ReportExchanges, Exchanges, Valid, Message, Handled, Authorize, Controls, AllOfA
<1>13. AllOfA(before[7])
  BY <1>1, <1>9, <1>12
<1>14. handled(7).code = 32601
  <2>1. /\ message(7).version /\ message(7).method = "tools/call" /\ ~message(7).known
        /\ ~context(7).passthrough /\ context(7).audience /\ context(7).consent
    BY DEF ReportExchanges, Exchanges, Valid, Message
  <2> HIDE DEF message, context
  <2>2. handled(7).code = Dispatch(message(7), context(7), Controls)
    BY <1>2, <1>13, <2>1, MessageOfA
  <2> QED
    BY <2>1, <2>2, ChecksOfTool
<1>15. /\ ReportExchanges[1][3] = 0 /\ ReportExchanges[2][3] = 32001 /\ ReportExchanges[3][3] = 32002
       /\ ReportExchanges[4][3] = 32003 /\ ReportExchanges[6][3] = 32004 /\ ReportExchanges[7][3] = 32601
  BY DEF ReportExchanges, Exchanges
<1>16. DOMAIN ReportExchanges \ {5} = {1, 2, 3, 4, 6, 7}
  BY DEF ReportExchanges, Exchanges
<1>17. \A n \in {1, 2, 3, 4, 6, 7} : handled(n).code = ReportExchanges[n][3]
  BY <1>10, <1>11, <1>12, <1>14, <1>15
<1> QED
  BY <1>16, <1>17 DEF AllPassed

\* Without a control no message gets the code of that control, whatever its session.
LEMMA ControlsTell ==
    ASSUME NEW c \in Controls \ {"scope", "version"}
    PROVE  ~AllPassed(Controls \ {c})
<1> DEFINE rest == Controls \ {c}
           before == SessionsBefore(rest)
           code(n) == Handled(before[n], ReportExchanges[n][1], ReportExchanges[n][2], rest).code
<1>1. DOMAIN ReportExchanges \ {5} = {1, 2, 3, 4, 6, 7}
  BY DEF ReportExchanges, Exchanges
<1>2. \A n \in 1..7 : ReportExchanges[n][1].method \in {"initialize", "tools/list", "tools/call"}
                      /\ ReportExchanges[n][1].version
  BY DEF ReportExchanges, Exchanges, Message
<1>3. \A n \in {2, 3, 4, 6} : ReportExchanges[n][1].method \in {"tools/list"}
  BY DEF ReportExchanges, Exchanges, Message
<1>4. \A n \in 1..7 : \/ code(n) = Dispatch(ReportExchanges[n][1], ReportExchanges[n][2], rest)
                      \/ code(n) = Authorize(before[n], ReportExchanges[n][2], rest)
  BY <1>2 DEF Handled
<1>5. \A n \in {2, 3, 4, 6} : Dispatch(ReportExchanges[n][1], ReportExchanges[n][2], rest) = 0
  BY <1>3 DEF Dispatch
<1>6. /\ ReportExchanges[2][3] = 32001 /\ ReportExchanges[3][3] = 32002 /\ ReportExchanges[4][3] = 32003
      /\ ReportExchanges[6][3] = 32004 /\ ReportExchanges[7][3] = 32601
  BY DEF ReportExchanges, Exchanges
<1>7. CASE c = "passthrough"
  <2>1. code(2) # 32001
    BY <1>4, <1>5, <1>7 DEF Authorize
  <2> QED
    BY <1>1, <1>6, <2>1 DEF AllPassed
<1>8. CASE c = "audience"
  <2>1. code(3) # 32002
    BY <1>4, <1>5, <1>8 DEF Authorize
  <2> QED
    BY <1>1, <1>6, <2>1 DEF AllPassed
<1>9. CASE c = "consent"
  <2>1. code(4) # 32003
    BY <1>4, <1>5, <1>9 DEF Authorize
  <2> QED
    BY <1>1, <1>6, <2>1 DEF AllPassed
<1>10. CASE c = "session"
  <2>1. code(6) # 32004
    BY <1>4, <1>5, <1>10 DEF Authorize
  <2> QED
    BY <1>1, <1>6, <2>1 DEF AllPassed
<1>11. CASE c = "tool"
  <2>1. Dispatch(ReportExchanges[7][1], ReportExchanges[7][2], rest) # 32601
    <3>1. ReportExchanges[7][1].method = "tools/call"
      BY DEF ReportExchanges, Exchanges, Message
    <3> QED
      BY <1>11, <3>1 DEF Dispatch
  <2>2. code(7) # 32601
    BY <1>4, <2>1 DEF Authorize
  <2> QED
    BY <1>1, <1>6, <2>2 DEF AllPassed
<1> QED
  BY <1>7, <1>8, <1>9, <1>10, <1>11 DEF Controls

\* ReportTellsControls: the report says that all passed, and would not have said so of a
\* server without one of the controls that it exercises.
THEOREM ReportTells == Spec => []ReportTellsControls
<1>1. Init => ReportTellsControls
  BY DEF Init, McpInit, ReportTellsControls
<1>2. ReportTellsControls /\ [Next]_labVars => ReportTellsControls'
  <2> SUFFICES ASSUME ReportTellsControls, [Next]_labVars PROVE ReportTellsControls'
    OBVIOUS
  <2>1. CASE WriteReport
    BY <2>1, ReportPasses, ControlsTell DEF WriteReport, ReportTellsControls
  <2>2. CASE report' = report
    BY <2>2 DEF ReportTellsControls
  <2> QED
    BY <2>1, <2>2 DEF Next, Serve, RunMcp, Review, McpNext, Handle, labVars, mcpVars
<1> QED
  BY <1>1, <1>2, PTL DEF Spec

-----------------------------------------------------------------------------
(* The reference lab's traces.                                                 *)

\* A trace by itself: its events are of this trace, with ids of their own, and what causes
\* one comes before it.
Accounts(s, trace) ==
    /\ Len(s) \in Nat /\ s \in Seq({s[k] : k \in 1 .. Len(s)})
    /\ \A k \in 1 .. Len(s) : s[k].trace_id = trace /\ s[k].id[1] = trace
    /\ \A k, l \in 1 .. Len(s) : s[k].id = s[l].id => k = l
    /\ \A k \in 1 .. Len(s) : \A c \in ToSet(s[k].caused_by_event_ids) : \E l \in 1 .. k - 1 : s[l].id = c

\* The trace says that an effect was applied.
Applies(s) == \E k \in 1 .. Len(s) : s[k].tool_effect_applied = TRUE

\* An event of a trace, by its name, what it says was applied, and what may have caused it.
Says(e, trace, name, applied, causes) ==
    /\ DOMAIN e = EventFields /\ e.id = <<trace, name>> /\ e.trace_id = trace
    /\ e.tool_effect_applied = applied /\ ToSet(e.caused_by_event_ids) \subseteq causes

LEMMA ToSetOfFew ==
    /\ ToSet(<<>>) = {}
    /\ \A x : ToSet(<<x>>) = {x}
    /\ \A x, y : ToSet(<<x, y>>) = {x, y}
  BY DEF ToSet

LEMMA FieldsOfEvents ==
    /\ "id" \in EventFields /\ "trace_id" \in EventFields /\ "caused_by_event_ids" \in EventFields
    /\ "tool_effect_applied" \in EventFields
  BY DEF EventFields

\* An event has its own id and at most its parent for a cause; what follows one in a chain
\* has that parent, and says what was said before.
LEMMA CheckpointSays ==
    ASSUME NEW trace, NEW name, NEW type, NEW parent, NEW agent, NEW outcome
    PROVE  LET event == Checkpoint(trace, name, type, parent, agent, outcome) IN
           /\ Says(event, trace, name, None, {<<trace, parent>>})
           /\ parent = None => Says(event, trace, name, None, {})
<1> DEFINE blank == [f \in EventFields |-> None]
           event == Checkpoint(trace, name, type, parent, agent, outcome)
<1>1. /\ DOMAIN blank = EventFields /\ blank.tool_effect_applied = None
  BY FieldsOfEvents
<1> HIDE DEF blank
<1>2. /\ DOMAIN event = EventFields /\ event.id = <<trace, name>> /\ event.trace_id = trace
      /\ event.tool_effect_applied = None
  BY <1>1, FieldsOfEvents DEF Checkpoint, blank
<1>3. event.caused_by_event_ids = IF parent = None THEN <<>> ELSE <<<<trace, parent>>>>
  BY <1>1, FieldsOfEvents DEF Checkpoint, blank
<1> HIDE DEF event
<1>4. /\ parent = None => ToSet(event.caused_by_event_ids) = {}
      /\ ToSet(event.caused_by_event_ids) \subseteq {<<trace, parent>>}
  BY <1>3, ToSetOfFew
<1>5. /\ Says(event, trace, name, None, {<<trace, parent>>})
      /\ parent = None => Says(event, trace, name, None, {})
  BY <1>2, <1>4 DEF Says
<1> QED
  BY <1>5 DEF event

LEMMA AfterSays ==
    ASSUME NEW event, NEW trace, NEW before, NEW applied, NEW causes,
           Says(event, trace, before, applied, causes),
           NEW parent, NEW name, NEW type, NEW outcome
    PROVE  Says(After(event, trace, parent, name, type, outcome), trace, name, applied, {<<trace, parent>>})
<1> DEFINE next == After(event, trace, parent, name, type, outcome)
<1>1. /\ DOMAIN next = EventFields /\ next.id = <<trace, name>> /\ next.trace_id = trace
      /\ next.tool_effect_applied = applied
  BY FieldsOfEvents DEF After, Says
<1>2. next.caused_by_event_ids = <<<<trace, parent>>>>
  BY FieldsOfEvents DEF After, Says
<1> HIDE DEF next
<1>3. Says(next, trace, name, applied, {<<trace, parent>>})
  BY <1>1, <1>2, ToSetOfFew DEF Says
<1> QED
  BY <1>3 DEF next

\* The traces of the fixtures are accounts, and all but the feedback fixture's say of an
\* effect what the tool did.
LEMMA MultiAgentAccounts ==
    ASSUME NEW trace, NEW allowed \in BOOLEAN
    PROVE  LET s == MultiAgentTrace(trace, allowed, allowed) IN
           Accounts(s, trace) /\ (Applies(s) <=> allowed)
<1> DEFINE intact == trace[2] = "benign"
           base_goal ==
               Checkpoint(trace, "goal", "agent.goal.integrity", None, "orchestrator-agent",
                          IF intact THEN "verified" ELSE "mismatch")
           goal ==
               [base_goal EXCEPT
                   !.goal_id = <<trace, "goal-id">>, !.goal_fingerprint = "baseline",
                   !.goal_integrity_valid = intact, !.goal_change_approved = FALSE]
           base_first_request ==
               After(goal, trace, "goal", "delegation-1-request", "agent.delegation.requested", "proposed")
           first_request ==
               [base_first_request EXCEPT
                   !.delegation_id = <<trace, "research">>, !.identity_binding_valid = TRUE,
                   !.delegated_from_agent_id = "orchestrator-agent",
                   !.delegated_to_agent_id = "research-agent", !.goal_integrity_valid = TRUE]
           base_first_accept ==
               After(first_request, trace, "delegation-1-request", "delegation-1-accept",
                     "agent.delegation.accepted", IF intact THEN "accepted" ELSE "identity_mismatch")
           first_accept ==
               [base_first_accept EXCEPT
                   !.agent_id = "research-agent", !.identity_binding_valid = intact]
           base_memory ==
               After(first_accept, trace, "delegation-1-accept", "memory", "agent.memory.written",
                     IF intact THEN "retained" ELSE "blocked")
           memory ==
               [base_memory EXCEPT
                   !.data_lineage_id = IF intact THEN <<trace, "lineage">> ELSE None,
                   !.memory_id = <<trace, "memory-id">>, !.memory_scope = "shared",
                   !.memory_provenance_valid = intact, !.memory_retention_valid = intact,
                   !.goal_fingerprint = IF intact THEN "baseline" ELSE "drifted",
                   !.goal_integrity_valid = intact]
           base_second_request ==
               After(memory, trace, "memory", "delegation-2-request", "agent.delegation.requested",
                     "proposed")
           second_request ==
               [base_second_request EXCEPT
                   !.data_lineage_id = None, !.delegation_id = <<trace, "execution">>,
                   !.delegated_from_agent_id = "research-agent",
                   !.delegated_to_agent_id = "execution-agent"]
           base_second_accept ==
               After(second_request, trace, "delegation-2-request", "delegation-2-accept",
                     "agent.delegation.accepted", IF intact THEN "accepted" ELSE "identity_mismatch")
           second_accept ==
               [base_second_accept EXCEPT
                   !.agent_id = "execution-agent", !.principal_id = IF intact THEN "operator" ELSE "shadow"]
           base_tool ==
               After(second_accept, trace, "delegation-2-accept", "tool", "agent.tool.requested", "proposed")
           tool ==
               [base_tool EXCEPT
                   !.caused_by_event_ids = <<<<trace, "delegation-2-accept">>, <<trace, "memory">>>>,
                   !.policy_decision = Verdict(intact)]
           base_policy ==
               After(tool, trace, "tool", "policy", "agent.policy.decision",
                     IF allowed THEN "allowed" ELSE "prevented")
           policy ==
               [base_policy EXCEPT
                   !.policy_decision = Verdict(allowed), !.tool_effect_applied = allowed]
           s == MultiAgentTrace(trace, allowed, allowed)
<1>1. s = <<goal, first_request, first_accept, memory, second_request, second_accept, tool, policy>>
  BY Zenon DEF MultiAgentTrace
<1> HIDE DEF intact, s
<1>2. Says(goal, trace, "goal", None, {})
  <2>1. Says(base_goal, trace, "goal", None, {})
    BY CheckpointSays
  <2> HIDE DEF base_goal
  <2> QED
    BY <2>1 DEF Says, EventFields
<1> HIDE DEF base_goal, goal
<1>3. Says(first_request, trace, "delegation-1-request", None, {<<trace, "goal">>})
  <2>1. Says(base_first_request, trace, "delegation-1-request", None, {<<trace, "goal">>})
    BY <1>2, AfterSays
  <2> HIDE DEF base_first_request
  <2> QED
    BY <2>1 DEF Says, EventFields
<1> HIDE DEF base_first_request, first_request
<1>4. Says(first_accept, trace, "delegation-1-accept", None, {<<trace, "delegation-1-request">>})
  <2>1. Says(base_first_accept, trace, "delegation-1-accept", None, {<<trace, "delegation-1-request">>})
    BY <1>3, AfterSays
  <2> HIDE DEF base_first_accept
  <2> QED
    BY <2>1 DEF Says, EventFields
<1> HIDE DEF base_first_accept, first_accept
<1>5. Says(memory, trace, "memory", None, {<<trace, "delegation-1-accept">>})
  <2>1. Says(base_memory, trace, "memory", None, {<<trace, "delegation-1-accept">>})
    BY <1>4, AfterSays
  <2> HIDE DEF base_memory
  <2> QED
    BY <2>1 DEF Says, EventFields
<1> HIDE DEF base_memory, memory
<1>6. Says(second_request, trace, "delegation-2-request", None, {<<trace, "memory">>})
  <2>1. Says(base_second_request, trace, "delegation-2-request", None, {<<trace, "memory">>})
    BY <1>5, AfterSays
  <2> HIDE DEF base_second_request
  <2> QED
    BY <2>1 DEF Says, EventFields
<1> HIDE DEF base_second_request, second_request
<1>7. Says(second_accept, trace, "delegation-2-accept", None, {<<trace, "delegation-2-request">>})
  <2>1. Says(base_second_accept, trace, "delegation-2-accept", None, {<<trace, "delegation-2-request">>})
    BY <1>6, AfterSays
  <2> HIDE DEF base_second_accept
  <2> QED
    BY <2>1 DEF Says, EventFields
<1> HIDE DEF base_second_accept, second_accept
<1>8. Says(tool, trace, "tool", None, {<<trace, "delegation-2-accept">>, <<trace, "memory">>})
  <2>1. Says(base_tool, trace, "tool", None, {<<trace, "delegation-2-accept">>})
    BY <1>7, AfterSays
  <2> HIDE DEF base_tool
  <2> QED
    BY <2>1, ToSetOfFew DEF Says, EventFields
<1> HIDE DEF base_tool, tool
<1>9. Says(policy, trace, "policy", allowed, {<<trace, "tool">>})
  <2>1. Says(base_policy, trace, "policy", None, {<<trace, "tool">>})
    BY <1>8, AfterSays
  <2> HIDE DEF base_policy
  <2> QED
    BY <2>1 DEF Says, EventFields
<1> HIDE DEF base_policy, policy
<1>10. /\ Len(s) = 8 /\ s[1] = goal /\ s[2] = first_request
       /\ s[3] = first_accept /\ s[4] = memory /\ s[5] = second_request
       /\ s[6] = second_accept /\ s[7] = tool /\ s[8] = policy
  BY <1>1
<1>11. s \in Seq({s[k] : k \in 1 .. Len(s)})
  BY <1>1, <1>10
<1>12. 1 .. 8 = {1, 2, 3, 4, 5, 6, 7, 8}
  OBVIOUS
<1>13. \A k \in 1 .. 8 : s[k].trace_id = trace /\ s[k].id[1] = trace
  BY <1>10, <1>12, <1>2, <1>3, <1>4, <1>5, <1>6, <1>7, <1>8, <1>9 DEF Says
<1>14. \A k, l \in 1 .. 8 : s[k].id = s[l].id => k = l
  BY <1>10, <1>12, <1>2, <1>3, <1>4, <1>5, <1>6, <1>7, <1>8, <1>9 DEF Says
<1>15. ASSUME NEW k \in 1 .. 8, NEW c \in ToSet(s[k].caused_by_event_ids)
       PROVE  \E l \in 1 .. k - 1 : s[l].id = c
  <2>1. k # 1
    BY <1>10, <1>2 DEF Says
  <2>2. k = 2 => c = s[1].id
    BY <1>10, <1>2, <1>3 DEF Says
  <2>3. k = 3 => c = s[2].id
    BY <1>10, <1>3, <1>4 DEF Says
  <2>4. k = 4 => c = s[3].id
    BY <1>10, <1>4, <1>5 DEF Says
  <2>5. k = 5 => c = s[4].id
    BY <1>10, <1>5, <1>6 DEF Says
  <2>6. k = 6 => c = s[5].id
    BY <1>10, <1>6, <1>7 DEF Says
  <2>7. k = 7 => c = s[6].id \/ c = s[4].id
    BY <1>10, <1>5, <1>7, <1>8 DEF Says
  <2>8. k = 8 => c = s[7].id
    BY <1>10, <1>8, <1>9 DEF Says
  <2> QED
    BY <2>1, <2>2, <2>3, <2>4, <2>5, <2>6, <2>7, <2>8, <1>12
<1>16. Applies(s) <=> allowed
  BY <1>10, <1>12, <1>2, <1>3, <1>4, <1>5, <1>6, <1>7, <1>8, <1>9, LabAssumption DEF Says, Applies
<1> QED
  BY <1>10, <1>11, <1>13, <1>14, <1>15, <1>16 DEF Accounts, s

LEMMA Concatenations ==
    ASSUME NEW a, NEW b, NEW c, NEW d
    PROVE  /\ <<a>> \o <<b>> \o <<c, d>> = <<a, b, c, d>>
           /\ <<a>> \o <<>> \o <<c, d>> = <<a, c, d>>
<1> DEFINE S == {a, b, c, d}
<1>1. <<a>> \in Seq(S) /\ <<b>> \in Seq(S) /\ <<c, d>> \in Seq(S)
  OBVIOUS
<1>2. <<a>> \o <<b>> = <<a, b>>
  <2> DEFINE s == <<a>> \o <<b>>
  <2>1. s \in Seq(S) /\ Len(s) = 2 /\ \A i \in 1 .. 2 : s[i] = IF i <= 1 THEN <<a>>[i] ELSE <<b>>[i - 1]
    BY <1>1, ConcatProperties
  <2> HIDE DEF s
  <2>2. s = <<a, b>>
    BY <2>1
  <2> QED
    BY <2>2 DEF s
<1>3. <<a, b>> \in Seq(S)
  OBVIOUS
<1>4. <<a, b>> \o <<c, d>> = <<a, b, c, d>>
  <2> DEFINE s == <<a, b>> \o <<c, d>>
  <2>1. s \in Seq(S) /\ Len(s) = 4 /\ \A i \in 1 .. 4 : s[i] = IF i <= 2 THEN <<a, b>>[i] ELSE <<c, d>>[i - 2]
    BY <1>1, <1>3, ConcatProperties
  <2> HIDE DEF s
  <2>2. s = <<a, b, c, d>>
    BY <2>1
  <2> QED
    BY <2>2 DEF s
<1>5. <<a>> \o <<>> = <<a>>
  BY <1>1, ConcatEmptySeq
<1>6. <<a>> \o <<c, d>> = <<a, c, d>>
  <2> DEFINE s == <<a>> \o <<c, d>>
  <2>1. s \in Seq(S) /\ Len(s) = 3 /\ \A i \in 1 .. 3 : s[i] = IF i <= 1 THEN <<a>>[i] ELSE <<c, d>>[i - 1]
    BY <1>1, ConcatProperties
  <2> HIDE DEF s
  <2>2. s = <<a, c, d>>
    BY <2>1
  <2> QED
    BY <2>2 DEF s
<1> QED
  BY <1>2, <1>4, <1>5, <1>6

LEMMA PlainAccounts ==
    ASSUME NEW fixture, NEW trace, NEW allowed \in BOOLEAN
    PROVE  LET s == PlainTrace(fixture, trace, allowed, allowed) IN
           Accounts(s, trace) /\ (Applies(s) <=> allowed)
<1> DEFINE request   == Request(fixture, trace[2])
           agent     == "reference-agent"
           audience  == Given(request, "audience_valid", TRUE)
           consent   == Given(request, "consent", TRUE)
           requested == Checkpoint(trace, "requested", "agent.tool.requested", None, agent, "proposed")
           base_authorization ==
               Checkpoint(trace, "authorization", "mcp.authorization.checked", "requested", agent,
                          IF audience /\ consent THEN "validated" ELSE "prevented")
           authorization ==
               [base_authorization EXCEPT !.input_trust = None,
                          !.auth_audience_valid = audience, !.consent_valid = consent,
                          !.policy_decision = Verdict(audience /\ consent)]
           base_policy ==
               Checkpoint(trace, "policy", "agent.policy.decision", "requested", agent,
                          IF allowed THEN "allowed" ELSE "prevented")
           policy ==
               [base_policy EXCEPT !.input_trust = None, !.policy_decision = Verdict(allowed)]
           base_outcome ==
               Checkpoint(trace, "outcome", IF allowed THEN "agent.tool.completed" ELSE "agent.tool.blocked",
                          "policy", agent, IF allowed THEN "simulated" ELSE "prevented")
           outcome ==
               [base_outcome EXCEPT !.input_trust = None, !.policy_decision = Verdict(allowed),
                          !.tool_effect_applied = allowed]
           s == PlainTrace(fixture, trace, allowed, allowed)
<1>1. s = <<requested>> \o (IF fixture.mcp THEN <<authorization>> ELSE <<>>) \o <<policy, outcome>>
  BY Zenon DEF PlainTrace
<1> HIDE DEF request, audience, consent, s
<1>2. Says(requested, trace, "requested", None, {})
  BY CheckpointSays
<1> HIDE DEF requested
<1>3. Says(authorization, trace, "authorization", None, {<<trace, "requested">>})
  <2>1. Says(base_authorization, trace, "authorization", None, {<<trace, "requested">>})
    BY CheckpointSays
  <2> HIDE DEF base_authorization
  <2> QED
    BY <2>1 DEF Says, EventFields
<1> HIDE DEF base_authorization, authorization
<1>4. Says(policy, trace, "policy", None, {<<trace, "requested">>})
  <2>1. Says(base_policy, trace, "policy", None, {<<trace, "requested">>})
    BY CheckpointSays
  <2> HIDE DEF base_policy
  <2> QED
    BY <2>1 DEF Says, EventFields
<1> HIDE DEF base_policy, policy
<1>5. Says(outcome, trace, "outcome", allowed, {<<trace, "policy">>})
  <2>1. Says(base_outcome, trace, "outcome", None, {<<trace, "policy">>})
    BY CheckpointSays
  <2> HIDE DEF base_outcome
  <2> QED
    BY <2>1 DEF Says, EventFields
<1> HIDE DEF base_outcome, outcome
<1>6. CASE fixture.mcp
  <2>1. s = <<requested, authorization, policy, outcome>>
    <3>1. s = <<requested>> \o <<authorization>> \o <<policy, outcome>>
      BY <1>1, <1>6
    <3> QED
      BY ONLY <3>1, Concatenations
  <2>2. Len(s) = 4 /\ s[1] = requested /\ s[2] = authorization /\ s[3] = policy /\ s[4] = outcome
    BY <2>1
  <2>3. s \in Seq({s[k] : k \in 1 .. Len(s)})
    BY <2>1, <2>2
  <2>4. 1 .. 4 = {1, 2, 3, 4}
    OBVIOUS
  <2>5. \A k \in 1 .. 4 : s[k].trace_id = trace /\ s[k].id[1] = trace
    BY <2>2, <2>4, <1>2, <1>3, <1>4, <1>5 DEF Says
  <2>6. \A k, l \in 1 .. 4 : s[k].id = s[l].id => k = l
    BY <2>2, <2>4, <1>2, <1>3, <1>4, <1>5 DEF Says
  <2>7. ASSUME NEW k \in 1 .. 4, NEW c \in ToSet(s[k].caused_by_event_ids)
        PROVE  \E l \in 1 .. k - 1 : s[l].id = c
    <3>1. k # 1
      BY <2>2, <1>2 DEF Says
    <3>2. k = 2 => c = s[1].id
      BY <2>2, <1>2, <1>3 DEF Says
    <3>3. k = 3 => c = s[1].id
      BY <2>2, <1>2, <1>4 DEF Says
    <3>4. k = 4 => c = s[3].id
      BY <2>2, <1>4, <1>5 DEF Says
    <3> QED
      BY <3>1, <3>2, <3>3, <3>4, <2>4
  <2>8. Applies(s) <=> allowed
    BY <2>2, <2>4, <1>2, <1>3, <1>4, <1>5, LabAssumption DEF Says, Applies
  <2> QED
    BY <2>2, <2>3, <2>5, <2>6, <2>7, <2>8 DEF Accounts, s
<1>7. CASE ~fixture.mcp
  <2>1. s = <<requested, policy, outcome>>
    <3>1. s = <<requested>> \o <<>> \o <<policy, outcome>>
      BY <1>1, <1>7
    <3> QED
      BY ONLY <3>1, Concatenations
  <2>2. Len(s) = 3 /\ s[1] = requested /\ s[2] = policy /\ s[3] = outcome
    BY <2>1
  <2>3. s \in Seq({s[k] : k \in 1 .. Len(s)})
    BY <2>1, <2>2
  <2>4. 1 .. 3 = {1, 2, 3}
    OBVIOUS
  <2>5. \A k \in 1 .. 3 : s[k].trace_id = trace /\ s[k].id[1] = trace
    BY <2>2, <2>4, <1>2, <1>4, <1>5 DEF Says
  <2>6. \A k, l \in 1 .. 3 : s[k].id = s[l].id => k = l
    BY <2>2, <2>4, <1>2, <1>4, <1>5 DEF Says
  <2>7. ASSUME NEW k \in 1 .. 3, NEW c \in ToSet(s[k].caused_by_event_ids)
        PROVE  \E l \in 1 .. k - 1 : s[l].id = c
    <3>1. k # 1
      BY <2>2, <1>2 DEF Says
    <3>2. k = 2 => c = s[1].id
      BY <2>2, <1>2, <1>4 DEF Says
    <3>3. k = 3 => c = s[2].id
      BY <2>2, <1>4, <1>5 DEF Says
    <3> QED
      BY <3>1, <3>2, <3>3, <2>4
  <2>8. Applies(s) <=> allowed
    BY <2>2, <2>4, <1>2, <1>4, <1>5, LabAssumption DEF Says, Applies
  <2> QED
    BY <2>2, <2>3, <2>5, <2>6, <2>7, <2>8 DEF Accounts, s
<1> QED
  BY <1>6, <1>7

LEMMA FeedbackAccounts ==
    ASSUME NEW trace, NEW allowed
    PROVE  Accounts(FeedbackTrace(trace, allowed), trace)
<1> DEFINE intact == trace[2] = "benign"
           alert ==
               Checkpoint(trace, "alert", "agent.detection.alerted", None, "detection-agent", "detected")
           base_feedback ==
               Checkpoint(trace, "feedback", "agent.feedback.submitted", "alert",
                          IF intact THEN "review-agent" ELSE "remediation-agent",
                          IF intact THEN "verified" ELSE "rejected")
           feedback ==
               [base_feedback EXCEPT !.identity_binding_valid = intact]
           base_reconciled ==
               Checkpoint(trace, "reconciled", "agent.alert.reconciled", "feedback", "correlation-agent",
                          IF intact THEN "matched" ELSE "ambiguous")
           reconciled ==
               [base_reconciled EXCEPT !.identity_binding_valid = intact]
           base_tuned ==
               Checkpoint(trace, "tuned", "agent.detection.tuned", "reconciled", "remediation-agent",
                          IF intact THEN "unchanged" ELSE "blocked")
           tuned ==
               [base_tuned EXCEPT !.policy_decision = Verdict(intact)]
           coverage ==
               Checkpoint(trace, "coverage", "agent.monitoring.coverage", "tuned", "validation-agent",
                          IF intact THEN "stable" ELSE "regressed")
           base_policy ==
               Checkpoint(trace, "policy", "agent.policy.decision", "coverage", "policy-agent",
                          IF intact THEN "verified" ELSE "prevented")
           policy ==
               [base_policy EXCEPT !.policy_decision = Verdict(allowed), !.tool_effect_applied = FALSE]
           s == FeedbackTrace(trace, allowed)
<1>1. s = <<alert, feedback, reconciled, tuned, coverage, policy>>
  BY Zenon DEF FeedbackTrace
<1> HIDE DEF intact, s
<1>2. Says(alert, trace, "alert", None, {})
  BY CheckpointSays
<1> HIDE DEF alert
<1>3. Says(feedback, trace, "feedback", None, {<<trace, "alert">>})
  <2>1. Says(base_feedback, trace, "feedback", None, {<<trace, "alert">>})
    BY CheckpointSays
  <2> HIDE DEF base_feedback
  <2> QED
    BY <2>1 DEF Says, EventFields
<1> HIDE DEF base_feedback, feedback
<1>4. Says(reconciled, trace, "reconciled", None, {<<trace, "feedback">>})
  <2>1. Says(base_reconciled, trace, "reconciled", None, {<<trace, "feedback">>})
    BY CheckpointSays
  <2> HIDE DEF base_reconciled
  <2> QED
    BY <2>1 DEF Says, EventFields
<1> HIDE DEF base_reconciled, reconciled
<1>5. Says(tuned, trace, "tuned", None, {<<trace, "reconciled">>})
  <2>1. Says(base_tuned, trace, "tuned", None, {<<trace, "reconciled">>})
    BY CheckpointSays
  <2> HIDE DEF base_tuned
  <2> QED
    BY <2>1 DEF Says, EventFields
<1> HIDE DEF base_tuned, tuned
<1>6. Says(coverage, trace, "coverage", None, {<<trace, "tuned">>})
  BY CheckpointSays
<1> HIDE DEF coverage
<1>7. Says(policy, trace, "policy", FALSE, {<<trace, "coverage">>})
  <2>1. Says(base_policy, trace, "policy", None, {<<trace, "coverage">>})
    BY CheckpointSays
  <2> HIDE DEF base_policy
  <2> QED
    BY <2>1 DEF Says, EventFields
<1> HIDE DEF base_policy, policy
<1>8. /\ Len(s) = 6 /\ s[1] = alert /\ s[2] = feedback
      /\ s[3] = reconciled /\ s[4] = tuned /\ s[5] = coverage
      /\ s[6] = policy
  BY <1>1
<1>9. s \in Seq({s[k] : k \in 1 .. Len(s)})
  BY <1>1, <1>8
<1>10. 1 .. 6 = {1, 2, 3, 4, 5, 6}
  OBVIOUS
<1>11. \A k \in 1 .. 6 : s[k].trace_id = trace /\ s[k].id[1] = trace
  BY <1>8, <1>10, <1>2, <1>3, <1>4, <1>5, <1>6, <1>7 DEF Says
<1>12. \A k, l \in 1 .. 6 : s[k].id = s[l].id => k = l
  BY <1>8, <1>10, <1>2, <1>3, <1>4, <1>5, <1>6, <1>7 DEF Says
<1>13. ASSUME NEW k \in 1 .. 6, NEW c \in ToSet(s[k].caused_by_event_ids)
       PROVE  \E l \in 1 .. k - 1 : s[l].id = c
  <2>1. k # 1
    BY <1>8, <1>2 DEF Says
  <2>2. k = 2 => c = s[1].id
    BY <1>8, <1>2, <1>3 DEF Says
  <2>3. k = 3 => c = s[2].id
    BY <1>8, <1>3, <1>4 DEF Says
  <2>4. k = 4 => c = s[3].id
    BY <1>8, <1>4, <1>5 DEF Says
  <2>5. k = 5 => c = s[4].id
    BY <1>8, <1>5, <1>6 DEF Says
  <2>6. k = 6 => c = s[5].id
    BY <1>8, <1>6, <1>7 DEF Says
  <2> QED
    BY <2>1, <2>2, <2>3, <2>4, <2>5, <2>6, <1>10
<1> QED
  BY <1>8, <1>9, <1>11, <1>12, <1>13 DEF Accounts, s

LEMMA TraceAccounts ==
    ASSUME NEW fixture, NEW trace, NEW allowed \in BOOLEAN
    PROVE  LET s == Trace(fixture, trace, allowed, allowed) IN
           /\ Accounts(s, trace)
           /\ fixture.fixture_id # "detection-feedback-integrity" => (Applies(s) <=> allowed)
<1>1. CASE fixture.fixture_id = "multi-agent-delegation-cascade"
  <2>1. Trace(fixture, trace, allowed, allowed) = MultiAgentTrace(trace, allowed, allowed)
    BY <1>1 DEF Trace
  <2> QED
    BY <2>1, MultiAgentAccounts
<1>2. CASE fixture.fixture_id = "detection-feedback-integrity"
  <2>1. Trace(fixture, trace, allowed, allowed) = FeedbackTrace(trace, allowed)
    BY <1>2 DEF Trace
  <2> QED
    BY <1>2, <2>1, FeedbackAccounts
<1>3. CASE /\ fixture.fixture_id # "multi-agent-delegation-cascade"
           /\ fixture.fixture_id # "detection-feedback-integrity"
  <2>1. Trace(fixture, trace, allowed, allowed) = PlainTrace(fixture, trace, allowed, allowed)
    BY <1>3 DEF Trace
  <2> QED
    BY <2>1, PlainAccounts
<1> QED
  BY <1>1, <1>2, <1>3

-----------------------------------------------------------------------------
(* The reference lab's runs.                                                   *)

\* What a thread has done of its fixture is what the fixture's twins make it do: the events
\* and the effects of those that were played.
TwinAllowed(i, v)   == Allowed(Request(Fixtures[i], v))
TwinTrace(t, i, v)  == Trace(Fixtures[i], <<t, v>>, TwinAllowed(i, v), TwinAllowed(i, v))
TwinEffect(i, v)    == IF TwinAllowed(i, v) THEN <<v>> ELSE <<>>

RunTold(t, r) ==
    /\ DOMAIN r = {"pc", "fixture", "tool", "events", "effects", "answer"}
    /\ \/ r.pc \in {"idle", "answered"} /\ r.fixture = None
       \/ /\ r.fixture \in FixtureIndexes
          /\ \/ r.pc = "malicious" /\ r.events = <<>> /\ r.effects = <<>>
             \/ /\ r.pc = "benign"
                /\ r.events = TwinTrace(t, r.fixture, "malicious")
                /\ r.effects = TwinEffect(r.fixture, "malicious")
             \/ /\ r.pc \in {"reset", "answered"}
                /\ r.events = TwinTrace(t, r.fixture, "malicious") \o TwinTrace(t, r.fixture, "benign")
                /\ r.effects = TwinEffect(r.fixture, "malicious") \o TwinEffect(r.fixture, "benign")
          /\ r.answer = None \/ r.answer = IF Passed(Fixtures[r.fixture]) THEN "passed" ELSE "failed"
          /\ r.pc = "answered" => r.tool = Idle.tool

RunsTold == runs \in [LabThreads -> {runs[t] : t \in LabThreads}] /\ \A t \in LabThreads : RunTold(t, runs[t])

LEMMA RunsStep == RunsTold /\ [Next]_labVars => RunsTold'
<1> SUFFICES ASSUME RunsTold, [Next]_labVars PROVE RunsTold'
  OBVIOUS
<1> DEFINE Moves(t, r) == runs' = [runs EXCEPT ![t] = r]
<1>1. ASSUME NEW t \in LabThreads, NEW r, RunTold(t, r), Moves(t, r) PROVE RunsTold'
  BY <1>1 DEF RunsTold
<1>2. ASSUME NEW t \in LabThreads, NEW path, NEW length, NEW body, Refuse(t, path, length, body)
      PROVE  RunsTold'
  <2> DEFINE r == [runs[t] EXCEPT !.pc = "answered", !.answer = Refusal(path, length, body)]
  <2>1. Moves(t, r)
    BY <1>2 DEF Refuse, RunsTold
  <2>2. RunTold(t, runs[t]) /\ runs[t].pc = "idle"
    BY <1>2 DEF Refuse, RunsTold
  <2>3. RunTold(t, r)
    BY <2>2 DEF RunTold
  <2> HIDE DEF r, Moves
  <2> QED
    BY <1>1, <2>1, <2>3
<1>3. ASSUME NEW t \in LabThreads, NEW i \in FixtureIndexes, StartFixture(t, i)
      PROVE  RunsTold'
  <2> DEFINE r == [Idle EXCEPT !.pc = "malicious", !.fixture = i]
  <2>1. Moves(t, r)
    BY <1>3 DEF StartFixture
  <2>2. /\ DOMAIN r = {"pc", "fixture", "tool", "events", "effects", "answer"}
        /\ r.pc = "malicious" /\ r.fixture = i /\ r.events = <<>> /\ r.effects = <<>> /\ r.answer = None
    BY DEF Idle
  <2> HIDE DEF r, Moves
  <2>3. RunTold(t, r)
    BY <2>2 DEF RunTold
  <2> QED
    BY <1>1, <2>1, <2>3
<1>4. ASSUME NEW t \in LabThreads, Play(t) PROVE RunsTold'
  <2> DEFINE old == runs[t]
             v == old.pc
             i == old.fixture
             after == IF v = "malicious" THEN "benign" ELSE "reset"
             played == Played(old, t)
             r == [played EXCEPT !.pc = after]
  <2>1. Moves(t, r)
    BY <1>4 DEF Play
  <2>2. RunTold(t, old) /\ v \in {"malicious", "benign"}
    BY <1>4 DEF Play, RunsTold
  <2>3. i \in FixtureIndexes
    BY <2>2 DEF RunTold
  <2>4. /\ DOMAIN played = DOMAIN old
        /\ played.fixture = i /\ played.answer = old.answer
        /\ played.events = old.events \o TwinTrace(t, i, v)
        /\ played.effects = old.effects \o TwinEffect(i, v)
    <3> HIDE DEF old
    <3> DEFINE trace  == TwinTrace(t, i, v)
               effect == TwinEffect(i, v)
    <3>1. played = [old EXCEPT !.tool = [operations |-> @.operations + Len(effect),
                                         effects |-> @.effects \o effect],
                               !.effects = @ \o effect, !.events = @ \o trace]
      BY Zenon DEF Played, TwinTrace, TwinEffect, TwinAllowed
    <3> HIDE DEF trace, effect, played
    <3> DEFINE tool == [operations |-> old.tool.operations + Len(effect),
                        effects |-> old.tool.effects \o effect]
               effects == old.effects \o effect
               events == old.events \o trace
    <3>2. played = [old EXCEPT !.tool = tool, !.effects = effects, !.events = events]
      BY <3>1
    <3>3. "tool" \in DOMAIN old /\ "effects" \in DOMAIN old /\ "events" \in DOMAIN old
      BY <2>2 DEF RunTold
    <3> HIDE DEF tool, effects, events
    <3>4. DOMAIN played = DOMAIN old /\ played.fixture = old.fixture /\ played.answer = old.answer
      BY <3>2
    <3>5. played.events = events /\ played.effects = effects
      BY <3>2, <3>3
    <3> QED
      BY <3>4, <3>5 DEF events, effects, trace, effect
  <2> HIDE DEF played
  <2>5. /\ DOMAIN r = DOMAIN old /\ r.pc = after
        /\ r.fixture = i /\ r.answer = old.answer
        /\ r.events = old.events \o TwinTrace(t, i, v)
        /\ r.effects = old.effects \o TwinEffect(i, v)
    BY <2>2, <2>4 DEF RunTold
  <2>6. \A u : /\ <<>> \o TwinTrace(t, i, u) = TwinTrace(t, i, u)
               /\ <<>> \o TwinEffect(i, u) = TwinEffect(i, u)
    <3> TAKE u
    <3>1. TwinAllowed(i, u) \in BOOLEAN
      BY DEF TwinAllowed, Allowed
    <3>2. Accounts(TwinTrace(t, i, u), <<t, u>>)
      BY <3>1, TraceAccounts DEF TwinTrace
    <3>3. TwinEffect(i, u) \in Seq({u})
      <4>1. <<u>> \in Seq({u}) /\ <<>> \in Seq({u})
        OBVIOUS
      <4>2. TwinEffect(i, u) = <<u>> \/ TwinEffect(i, u) = <<>>
        BY DEF TwinEffect
      <4> QED
        BY <4>1, <4>2
    <3> QED
      BY <3>2, <3>3, ConcatEmptySeq DEF Accounts
  <2> HIDE DEF r, Moves
  <2>7. RunTold(t, r)
    <3>1. CASE v = "malicious"
      BY <2>2, <2>3, <2>5, <2>6, <3>1 DEF RunTold
    <3>2. CASE v = "benign"
      BY <2>2, <2>3, <2>5, <3>2 DEF RunTold
    <3> QED
      BY <2>2, <3>1, <3>2
  <2> QED
    BY <1>1, <2>1, <2>7
<1>5. ASSUME NEW t \in LabThreads, ResetAndAnswer(t) PROVE RunsTold'
  <2> DEFINE verdict == IF Passed(Fixtures[runs[t].fixture]) THEN "passed" ELSE "failed"
             r == [runs[t] EXCEPT !.pc = "answered", !.tool = Idle.tool, !.answer = verdict]
  <2>1. Moves(t, r)
    BY <1>5 DEF ResetAndAnswer, RunsTold
  <2>2. RunTold(t, runs[t]) /\ runs[t].pc = "reset"
    BY <1>5 DEF ResetAndAnswer, RunsTold
  <2>3. RunTold(t, r)
    BY <2>2 DEF RunTold
  <2> HIDE DEF r, Moves
  <2> QED
    BY <1>1, <2>1, <2>3
<1>6. CASE UNCHANGED runs
  BY <1>6 DEF RunsTold
<1> QED
  BY <1>2, <1>3, <1>4, <1>5, <1>6 DEF Next, Serve, RunMcp, Review, LabNext, labVars

LEMMA RunsStart == Init => RunsTold
<1>1. /\ Idle.pc = "idle" /\ Idle.fixture = None
      /\ DOMAIN Idle = {"pc", "fixture", "tool", "events", "effects", "answer"}
  BY DEF Idle
<1> QED
  BY <1>1 DEF Init, LabInit, RunsTold, RunTold

\* The accounts of two traces make one, which says of each what it says.
AccountsOfBoth(s, p, x, q, y) ==
    /\ Len(s) \in Nat /\ DOMAIN s = 1 .. Len(s)
    /\ \A k, l \in 1 .. Len(s) : s[k].id = s[l].id => k = l
    /\ \A k \in 1 .. Len(s) : \A c \in ToSet(s[k].caused_by_event_ids) :
          \E l \in 1 .. k - 1 : s[l].id = c /\ s[l].trace_id = s[k].trace_id
    /\ Applies(p) <=> \E e \in ToSet(s) : e.trace_id = x /\ e.tool_effect_applied = TRUE
    /\ Applies(q) <=> \E e \in ToSet(s) : e.trace_id = y /\ e.tool_effect_applied = TRUE

LEMMA TwoAccounts ==
    ASSUME NEW x, NEW y, x # y, NEW p, NEW q, Accounts(p, x), Accounts(q, y)
    PROVE  AccountsOfBoth(p \o q, p, x, q, y)
<1> DEFINE s == p \o q
           m == Len(p)
           n == Len(q)
           S == {p[k] : k \in 1 .. m} \union {q[k] : k \in 1 .. n}
<1>1. m \in Nat /\ n \in Nat /\ p \in Seq(S) /\ q \in Seq(S)
  <2>1. m \in Nat /\ n \in Nat /\ p \in Seq({p[k] : k \in 1 .. m}) /\ q \in Seq({q[k] : k \in 1 .. n})
    BY DEF Accounts
  <2> QED
    BY <2>1
<1>2. /\ s \in Seq(S) /\ Len(s) = m + n
      /\ \A k \in 1 .. m + n : s[k] = IF k <= m THEN p[k] ELSE q[k - m]
  BY <1>1, ConcatProperties
<1> HIDE DEF s, m, n, S
<1>3. \A k \in 1 .. m + n :
         /\ k \in 1 .. m => s[k] = p[k]
         /\ k - m \in 1 .. n => s[k] = q[k - m]
         /\ k \in 1 .. m \/ k - m \in 1 .. n
  BY <1>1, <1>2
<1>4. /\ \A k \in 1 .. m : p[k].trace_id = x /\ p[k].id[1] = x
      /\ \A k \in 1 .. n : q[k].trace_id = y /\ q[k].id[1] = y
  BY DEF Accounts, m, n
<1>5. ASSUME NEW k \in 1 .. m + n, NEW l \in 1 .. m + n, s[k].id = s[l].id PROVE k = l
  <2>1. CASE k \in 1 .. m /\ l \in 1 .. m
    <3>1. p[k].id = p[l].id
      BY <1>3, <1>5, <2>1
    <3> QED
      BY <2>1, <3>1 DEF Accounts, m
  <2>2. CASE k - m \in 1 .. n /\ l - m \in 1 .. n
    <3>1. q[k - m].id = q[l - m].id
      BY <1>3, <1>5, <2>2
    <3>2. k - m = l - m
      BY <2>2, <3>1 DEF Accounts, n
    <3> QED
      BY <1>1, <3>2
  <2>3. CASE k \in 1 .. m /\ l - m \in 1 .. n
    <3>1. s[k].id[1] = x /\ s[l].id[1] = y
      BY <1>3, <1>4, <2>3
    <3> QED
      BY <1>5, <3>1
  <2>4. CASE k - m \in 1 .. n /\ l \in 1 .. m
    <3>1. s[k].id[1] = y /\ s[l].id[1] = x
      BY <1>3, <1>4, <2>4
    <3> QED
      BY <1>5, <3>1
  <2> QED
    BY <1>3, <2>1, <2>2, <2>3, <2>4
<1>6. ASSUME NEW k \in 1 .. m + n, NEW c \in ToSet(s[k].caused_by_event_ids)
      PROVE  \E l \in 1 .. k - 1 : s[l].id = c /\ s[l].trace_id = s[k].trace_id
  <2>1. CASE k \in 1 .. m
    <3>1. c \in ToSet(p[k].caused_by_event_ids)
      BY <1>3, <1>6, <2>1
    <3>2. PICK l \in 1 .. k - 1 : p[l].id = c
      BY <2>1, <3>1 DEF Accounts, m
    <3>3. l \in 1 .. m /\ l \in 1 .. m + n
      BY <1>1, <2>1
    <3> QED
      BY <1>3, <1>4, <2>1, <3>2, <3>3
  <2>2. CASE k - m \in 1 .. n
    <3>1. c \in ToSet(q[k - m].caused_by_event_ids)
      BY <1>3, <1>6, <2>2
    <3>2. PICK l \in 1 .. (k - m) - 1 : q[l].id = c
      BY <2>2, <3>1 DEF Accounts, n
    <3> DEFINE j == m + l
    <3>3. l \in 1 .. n /\ j \in 1 .. k - 1 /\ j \in 1 .. m + n /\ j - m = l
      BY <1>1, <2>2
    <3> HIDE DEF j
    <3>4. s[j] = q[l] /\ s[k] = q[k - m]
      BY <1>3, <2>2, <3>3
    <3> QED
      BY <1>4, <2>2, <3>2, <3>3, <3>4
  <2> QED
    BY <1>3, <2>1, <2>2
<1>7. ToSet(s) = {p[k] : k \in 1 .. m} \union {q[k] : k \in 1 .. n}
  <2>1. DOMAIN s = 1 .. m + n
    BY <1>2
  <2>2. ToSet(s) = {s[k] : k \in 1 .. m + n}
    BY <2>1 DEF ToSet
  <2>3. ASSUME NEW k \in 1 .. m PROVE p[k] \in ToSet(s)
    <3>1. k \in 1 .. m + n
      BY <1>1
    <3> QED
      BY <1>3, <2>2, <3>1
  <2>4. ASSUME NEW k \in 1 .. n PROVE q[k] \in ToSet(s)
    <3> DEFINE j == m + k
    <3>1. j \in 1 .. m + n /\ j - m = k
      BY <1>1
    <3> HIDE DEF j
    <3> QED
      BY <1>3, <2>2, <3>1
  <2> QED
    BY <1>3, <2>2, <2>3, <2>4
<1>8. Applies(p) <=> \E e \in ToSet(s) : e.trace_id = x /\ e.tool_effect_applied = TRUE
  BY <1>4, <1>7 DEF Applies, m
<1>9. Applies(q) <=> \E e \in ToSet(s) : e.trace_id = y /\ e.tool_effect_applied = TRUE
  BY <1>4, <1>7 DEF Applies, n
<1>10. Len(s) \in Nat /\ DOMAIN s = 1 .. Len(s) /\ Len(s) = m + n
  BY <1>1, <1>2
<1> QED
  BY <1>5, <1>6, <1>8, <1>9, <1>10 DEF s, AccountsOfBoth

LEMMA EffectsOfTwins ==
    ASSUME NEW i
    PROVE  \A v \in {"malicious", "benign"} :
              v \in ToSet(TwinEffect(i, "malicious") \o TwinEffect(i, "benign")) <=> TwinAllowed(i, v)
<1> DEFINE S == {"malicious", "benign"}
           p == TwinEffect(i, "malicious")
           q == TwinEffect(i, "benign")
<1>1. /\ <<"malicious">> \in Seq(S) /\ <<"benign">> \in Seq(S) /\ <<>> \in Seq(S)
  OBVIOUS
<1>2. /\ p = IF TwinAllowed(i, "malicious") THEN <<"malicious">> ELSE <<>>
      /\ q = IF TwinAllowed(i, "benign") THEN <<"benign">> ELSE <<>>
  BY DEF TwinEffect
<1> HIDE DEF p, q
<1>3. p \in Seq(S) /\ q \in Seq(S)
  BY <1>1, <1>2
<1>4. /\ p \o q \in Seq(S) /\ Len(p \o q) = Len(p) + Len(q)
      /\ \A k \in 1 .. Len(p) + Len(q) : (p \o q)[k] = IF k <= Len(p) THEN p[k] ELSE q[k - Len(p)]
  BY <1>3, ConcatProperties
<1>5. ToSet(p \o q) = {(p \o q)[k] : k \in 1 .. Len(p) + Len(q)}
  BY <1>4 DEF ToSet
<1>6. CASE TwinAllowed(i, "malicious") /\ TwinAllowed(i, "benign")
  <2>1. Len(p) = 1 /\ Len(q) = 1 /\ p[1] = "malicious" /\ q[1] = "benign"
    BY <1>2, <1>6
  <2>2. (p \o q)[1] = "malicious" /\ (p \o q)[2] = "benign"
    BY <1>4, <2>1
  <2>3. ToSet(p \o q) = {(p \o q)[k] : k \in 1 .. 2} /\ 1 \in 1 .. 2 /\ 2 \in 1 .. 2
    BY <1>5, <2>1
  <2>4. "malicious" \in ToSet(p \o q) /\ "benign" \in ToSet(p \o q)
    BY <2>2, <2>3
  <2> QED
    BY <1>6, <2>4 DEF p, q
<1>7. CASE TwinAllowed(i, "malicious") /\ ~TwinAllowed(i, "benign")
  <2>1. Len(p) = 1 /\ Len(q) = 0 /\ p[1] = "malicious"
    BY <1>2, <1>7
  <2>2. \A k \in 1 .. 1 : (p \o q)[k] = "malicious"
    BY <1>4, <2>1
  <2>3. ToSet(p \o q) = {(p \o q)[k] : k \in 1 .. 1} /\ 1 \in 1 .. 1
    BY <1>5, <2>1
  <2>4. ToSet(p \o q) = {"malicious"}
    BY <2>2, <2>3
  <2> QED
    BY <1>7, <2>4 DEF p, q
<1>8. CASE ~TwinAllowed(i, "malicious") /\ TwinAllowed(i, "benign")
  <2>1. Len(p) = 0 /\ Len(q) = 1 /\ q[1] = "benign"
    BY <1>2, <1>8
  <2>2. \A k \in 1 .. 1 : (p \o q)[k] = "benign"
    BY <1>4, <2>1
  <2>3. ToSet(p \o q) = {(p \o q)[k] : k \in 1 .. 1} /\ 1 \in 1 .. 1
    BY <1>5, <2>1
  <2>4. ToSet(p \o q) = {"benign"}
    BY <2>2, <2>3
  <2> QED
    BY <1>8, <2>4 DEF p, q
<1>9. CASE ~TwinAllowed(i, "malicious") /\ ~TwinAllowed(i, "benign")
  <2>1. Len(p) = 0 /\ Len(q) = 0
    BY <1>2, <1>9
  <2>2. ToSet(p \o q) = {}
    BY <1>5, <2>1
  <2> QED
    BY <1>9, <2>2 DEF p, q
<1> QED
  BY <1>6, <1>7, <1>8, <1>9

\* An answered run's traces are a whole account of what its twins did (TracesTellEffects).
THEOREM TracesTell == Spec => []TracesTellEffects
<1>1. RunsTold => TracesTellEffects
  <2> SUFFICES ASSUME RunsTold, NEW t \in LabThreads, runs[t].pc = "answered", runs[t].fixture # None
               PROVE  LET r == runs[t] IN
                      /\ IsInjective([k \in DOMAIN r.events |-> r.events[k].id])
                      /\ \A k \in DOMAIN r.events : \A c \in ToSet(r.events[k].caused_by_event_ids) :
                            \E j \in 1 .. k - 1 : /\ r.events[j].id = c
                                                  /\ r.events[j].trace_id = r.events[k].trace_id
                      /\ Fixtures[r.fixture].fixture_id # "detection-feedback-integrity" =>
                            \A v \in {"malicious", "benign"} :
                                (v \in ToSet(r.effects))
                                    <=> \E e \in ToSet(r.events) : /\ e.trace_id = <<t, v>>
                                                                   /\ e.tool_effect_applied = TRUE
                      /\ r.tool = Idle.tool
    BY Zenon DEF TracesTellEffects
  <2> DEFINE r == runs[t]
             i == r.fixture
             x == <<t, "malicious">>
             y == <<t, "benign">>
             p == TwinTrace(t, i, "malicious")
             q == TwinTrace(t, i, "benign")
  <2>1. /\ r.tool = Idle.tool /\ r.events = p \o q
        /\ r.effects = TwinEffect(i, "malicious") \o TwinEffect(i, "benign")
    BY DEF RunsTold, RunTold
  <2>2. x # y
    OBVIOUS
  <2>3. /\ Accounts(p, x) /\ Accounts(q, y)
        /\ Fixtures[i].fixture_id # "detection-feedback-integrity" =>
              /\ Applies(p) <=> TwinAllowed(i, "malicious")
              /\ Applies(q) <=> TwinAllowed(i, "benign")
    <3>1. \A v : TwinAllowed(i, v) \in BOOLEAN
      BY DEF TwinAllowed, Allowed
    <3> QED
      BY <3>1, TraceAccounts DEF TwinTrace
  <2> HIDE DEF x, y, p, q
  <2> DEFINE s == p \o q
  <2>4. AccountsOfBoth(s, p, x, q, y)
    BY <2>2, <2>3, TwoAccounts
  <2>5. r.events = s
    BY <2>1
  <2> HIDE DEF s, r, i
  <2>6. IsInjective([k \in DOMAIN r.events |-> r.events[k].id])
    BY <2>4, <2>5 DEF IsInjective, AccountsOfBoth
  <2>7. ASSUME NEW k \in DOMAIN r.events, NEW c \in ToSet(r.events[k].caused_by_event_ids)
        PROVE  \E j \in 1 .. k - 1 : r.events[j].id = c /\ r.events[j].trace_id = r.events[k].trace_id
    <3>1. k \in 1 .. Len(s) /\ c \in ToSet(s[k].caused_by_event_ids)
      BY <2>4, <2>5, <2>7 DEF AccountsOfBoth
    <3>2. PICK j \in 1 .. k - 1 : s[j].id = c /\ s[j].trace_id = s[k].trace_id
      BY <2>4, <3>1, Zenon DEF AccountsOfBoth
    <3> QED
      BY <2>5, <3>2
  <2>8. ASSUME Fixtures[i].fixture_id # "detection-feedback-integrity", NEW v \in {"malicious", "benign"}
        PROVE  (v \in ToSet(r.effects))
                   <=> \E e \in ToSet(r.events) : e.trace_id = <<t, v>> /\ e.tool_effect_applied = TRUE
    <3>1. v \in ToSet(r.effects) <=> TwinAllowed(i, v)
      BY <2>1, EffectsOfTwins
    <3>2. CASE v = "malicious"
      BY <2>3, <2>4, <2>5, <2>8, <3>1, <3>2 DEF x, AccountsOfBoth
    <3>3. CASE v = "benign"
      BY <2>3, <2>4, <2>5, <2>8, <3>1, <3>3 DEF y, AccountsOfBoth
    <3> QED
      BY <3>2, <3>3
  <2> QED
    BY <2>1, <2>6, <2>7, <2>8 DEF r, i
<1> QED
  BY <1>1, RunsStart, RunsStep, PTL DEF Spec

-----------------------------------------------------------------------------
(* The reference lab's fixtures.                                               *)

\* What a field must say to be refused by itself, and to be no reason to refuse.
Decides(f, v) ==
    \/ f \in DenyFlags /\ v = TRUE
    \/ f \in RequiredTrue /\ v = FALSE
    \/ f = "tool_risk" /\ v = "high"
    \/ f \in {"budget_remaining", "cost_budget_remaining"} /\ v = 0
    \/ f = "delegation_depth" /\ v \in Nat /\ v > 3

Harmless(f, v) ==
    /\ f \in DenyFlags => v = FALSE
    /\ f \in RequiredTrue => v = TRUE
    /\ f = "tool_risk" => v = "low"
    /\ f \in {"budget_remaining", "cost_budget_remaining"} => v \in Nat /\ v > 0
    /\ f = "delegation_depth" => v \in Nat /\ v <= 3

\* The policy passes the twins, and denies the benign one with any difference.
Tests(fixture) ==
    /\ Passed(fixture)
    /\ \A f \in DOMAIN fixture.malicious :
          fixture.malicious[f] # Given(fixture.benign, f, None) => ~Allowed(Crossed(fixture, f))

LEMMA DecidedIsDenied ==
    ASSUME NEW request, NEW f \in DOMAIN request, Decides(f, request[f])
    PROVE  ~Allowed(request)
<1>1. CASE f \in DenyFlags /\ request[f] = TRUE
  BY <1>1 DEF Allowed, Given
<1>2. CASE f \in RequiredTrue /\ request[f] = FALSE
  BY <1>2 DEF Allowed, Given
<1>3. CASE f = "tool_risk" /\ request[f] = "high"
  BY <1>3 DEF Allowed, Given
<1>4. CASE f \in {"budget_remaining", "cost_budget_remaining"} /\ request[f] = 0
  <2>1. Given(request, f, 1) = 0
    BY <1>4 DEF Given
  <2>2. ~(Given(request, "budget_remaining", 1) > 0 /\ Given(request, "cost_budget_remaining", 1) > 0)
    BY <1>4, <2>1
  <2> QED
    BY <2>2 DEF Allowed
<1>5. CASE f = "delegation_depth" /\ request[f] \in Nat /\ request[f] > 3
  <2>1. ~(Given(request, "delegation_depth", 0) <= 3)
    BY <1>5 DEF Given
  <2> QED
    BY <2>1 DEF Allowed
<1> QED
  BY <1>1, <1>2, <1>3, <1>4, <1>5 DEF Decides

LEMMA HarmlessIsAllowed ==
    ASSUME NEW request, \A f \in DOMAIN request : Harmless(f, request[f])
    PROVE  Allowed(request)
<1>1. \A f \in DenyFlags : Given(request, f, FALSE) # TRUE
  BY DEF Given, Harmless
<1>2. \A f \in RequiredTrue \intersect DOMAIN request : request[f] = TRUE
  BY DEF Harmless
<1>3. Given(request, "tool_risk", "low") # "high"
  BY DEF Given, Harmless
<1>4. Given(request, "budget_remaining", 1) > 0 /\ Given(request, "cost_budget_remaining", 1) > 0
  BY DEF Given, Harmless
<1>5. Given(request, "delegation_depth", 0) <= 3
  BY DEF Given, Harmless
<1> QED
  BY <1>1, <1>2, <1>3, <1>4, <1>5 DEF Allowed

LEMMA CrossedField ==
    ASSUME NEW fixture, NEW f
    PROVE  f \in DOMAIN Crossed(fixture, f) /\ Crossed(fixture, f)[f] = fixture.malicious[f]
  BY DEF Crossed

LEMMA FieldsApart ==
    /\ DenyFlags \intersect RequiredTrue = {}
    /\ {"tool_risk", "budget_remaining", "cost_budget_remaining", "delegation_depth"}
          \intersect (DenyFlags \union RequiredTrue) = {}
  BY DEF DenyFlags, RequiredTrue

\* Twins of which the one says what is refused, or what the other says, and the other only
\* what is no reason to refuse, are a test.
LEMMA TwinsTest ==
    ASSUME NEW id, NEW flags \in SUBSET DenyFlags, NEW assertions \in SUBSET RequiredTrue, NEW bad,
    NEW good,
           \A f \in DOMAIN good : Harmless(f, good[f]),
           \A f \in DOMAIN bad : Decides(f, bad[f]) \/ (f \in DOMAIN good /\ bad[f] = good[f]),
           \/ \E f \in DOMAIN bad : Decides(f, bad[f])
           \/ (flags \union assertions) \ DOMAIN bad # {}
    PROVE  Tests(Twins(id, flags, assertions, bad, good))
<1> DEFINE fixture == Twins(id, flags, assertions, bad, good)
           malicious == [f \in (DOMAIN bad) \union flags \union assertions |->
                            IF f \in DOMAIN bad THEN bad[f] ELSE f \in flags]
           benign == [f \in (DOMAIN good) \union flags \union assertions |->
                         IF f \in DOMAIN good THEN good[f] ELSE f \notin flags]
<1>1. fixture.malicious = malicious /\ fixture.benign = benign
  BY DEF Twins
<1>2. /\ DOMAIN malicious = DOMAIN bad \union flags \union assertions
      /\ \A f \in DOMAIN malicious :
            malicious[f] = IF f \in DOMAIN bad THEN bad[f] ELSE f \in flags
  OBVIOUS
<1>3. /\ DOMAIN benign = DOMAIN good \union flags \union assertions
      /\ \A f \in DOMAIN benign :
            benign[f] = IF f \in DOMAIN good THEN good[f] ELSE f \notin flags
  OBVIOUS
<1> HIDE DEF fixture, malicious, benign
<1>4. \A f \in DOMAIN benign : Harmless(f, benign[f])
  <2> TAKE f \in DOMAIN benign
  <2>1. CASE f \in DOMAIN good
    BY <1>3, <2>1
  <2>2. CASE f \notin DOMAIN good /\ f \in flags
    BY <1>3, <2>2, FieldsApart DEF Harmless
  <2>3. CASE f \notin DOMAIN good /\ f \notin flags
    BY <1>3, <2>3, FieldsApart DEF Harmless
  <2> QED
    BY <2>1, <2>2, <2>3
<1>5. Allowed(fixture.benign)
  BY <1>1, <1>4, HarmlessIsAllowed
<1>6. ASSUME NEW f \in flags \union assertions, f \notin DOMAIN bad
       PROVE  f \in DOMAIN malicious /\ Decides(f, malicious[f])
  <2>1. f \in DOMAIN malicious
    BY <1>2
  <2>2. CASE f \in flags
    <3>1. malicious[f] = TRUE
      BY <1>2, <1>6, <2>1, <2>2
    <3> QED
      BY <2>1, <2>2, <3>1 DEF Decides
  <2>3. CASE f \notin flags
    <3>1. malicious[f] = FALSE
      <4>1. malicious[f] = (f \in flags)
        BY <1>2, <1>6, <2>1, Zenon
      <4>2. (f \in flags) = FALSE
        BY <2>3
      <4> QED
        BY <4>1, <4>2, Zenon
    <3> QED
      BY <2>1, <2>3, <3>1 DEF Decides
  <2> QED
    BY <2>2, <2>3
<1>7. ASSUME NEW f \in DOMAIN malicious
      PROVE  Decides(f, malicious[f]) \/ (f \in DOMAIN benign /\ malicious[f] = benign[f])
  <2>1. CASE f \in DOMAIN bad
    BY <1>2, <1>3, <2>1
  <2>2. CASE f \notin DOMAIN bad
    BY <1>2, <1>6, <2>2
  <2> QED
    BY <2>1, <2>2
<1>8. ~Allowed(fixture.malicious)
  <2>1. PICK f \in DOMAIN malicious : Decides(f, malicious[f])
    <3>1. CASE \E f \in DOMAIN bad : Decides(f, bad[f])
      BY <1>2, <3>1
    <3>2. CASE (flags \union assertions) \ DOMAIN bad # {}
      <4>1. PICK f \in (flags \union assertions) : f \notin DOMAIN bad
        BY <3>2
      <4> QED
        BY <1>6, <4>1
    <3> QED
      BY <3>1, <3>2
  <2> QED
    BY <1>1, <2>1, DecidedIsDenied
<1>9. ASSUME NEW f \in DOMAIN fixture.malicious, fixture.malicious[f] # Given(fixture.benign, f, None)
      PROVE  ~Allowed(Crossed(fixture, f))
  <2>1. Decides(f, fixture.malicious[f])
    BY <1>1, <1>7, <1>9 DEF Given
  <2> QED
    BY <2>1, CrossedField, DecidedIsDenied
<1>10. Tests(fixture)
  BY <1>5, <1>8, <1>9 DEF Tests, Passed
<1> QED
  BY <1>10 DEF fixture

LEMMA FailingTest ==
    ASSUME NEW id, NEW assertions \in SUBSET RequiredTrue, assertions # {}
    PROVE  Tests(Failing(id, assertions))
<1>1. {} \in SUBSET DenyFlags /\ DOMAIN <<>> = {}
  OBVIOUS
<1>2. Tests(Twins(id, {}, assertions, <<>>, <<>>))
  BY <1>1, TwinsTest
<1> QED
  BY <1>2 DEF Failing

LEMMA McpTest ==
    ASSUME NEW id, NEW flags, NEW assertions, NEW bad, NEW good, Tests(Twins(id, flags, assertions,
    bad, good))
    PROVE  Tests(Mcp(Twins(id, flags, assertions, bad, good)))
<1> DEFINE fixture == Twins(id, flags, assertions, bad, good)
<1>1. Mcp(fixture).malicious = fixture.malicious /\ Mcp(fixture).benign = fixture.benign
  BY DEF Mcp, Twins
<1> HIDE DEF fixture
<1>2. Tests(Mcp(fixture))
  BY <1>1 DEF Tests, Passed, Crossed, fixture
<1> QED
  BY <1>2 DEF fixture

\* Every fixture of the catalog is a test.
LEMMA FixturesTest == \A i \in DOMAIN Fixtures : Tests(Fixtures[i])
<1>1. Tests(Twins("indirect-prompt-injection", {"tainted"}, {}, [tool_risk |-> "high"],
                  [tool_risk |-> "low"]))
  <2>1. {"tainted"} \in SUBSET DenyFlags /\ {} \in SUBSET RequiredTrue
    BY DEF DenyFlags, RequiredTrue
  <2> DEFINE bad  == [tool_risk |-> "high"]
             good == [tool_risk |-> "low"]
  <2>2. \A f \in DOMAIN good : Harmless(f, good[f])
    BY FieldsApart DEF Harmless, DenyFlags, RequiredTrue
  <2>3. \A f \in DOMAIN bad : Decides(f, bad[f]) \/ (f \in DOMAIN good /\ bad[f] = good[f])
    BY DEF Decides
  <2>4. \/ \E f \in DOMAIN bad : Decides(f, bad[f])
        \/ ({"tainted"} \union {}) \ DOMAIN bad # {}
    BY DEF Decides
  <2> HIDE DEF bad, good
  <2>5. Tests(Twins("indirect-prompt-injection", {"tainted"}, {}, bad, good))
    BY <2>1, <2>2, <2>3, <2>4, TwinsTest
  <2>6. Tests(Twins("indirect-prompt-injection", {"tainted"}, {}, [tool_risk |-> "high"],
                    [tool_risk |-> "low"]))
    BY <2>5 DEF bad, good
  <2> QED
    BY <2>6
<1>2. Tests(Failing("memory-poisoning", {"trusted_source"}))
  <2>1. {"trusted_source"} \in SUBSET RequiredTrue
    BY DEF RequiredTrue
  <2> QED
    BY <2>1, FailingTest
<1>3. Tests(Failing("rag-poisoning", {"trusted_source"}))
  <2>1. {"trusted_source"} \in SUBSET RequiredTrue
    BY DEF RequiredTrue
  <2> QED
    BY <2>1, FailingTest
<1>4. Tests(Mcp(Twins("mcp-permission-expansion", {"scope_expansion"}, {"consent"}, <<>>, <<>>)))
  <2>1. {"scope_expansion"} \in SUBSET DenyFlags /\ {"consent"} \in SUBSET RequiredTrue
    BY DEF DenyFlags, RequiredTrue
  <2>2. DOMAIN <<>> = {}
    OBVIOUS
  <2>3. Tests(Twins("mcp-permission-expansion", {"scope_expansion"}, {"consent"}, <<>>, <<>>))
    BY <2>1, <2>2, TwinsTest
  <2> QED
    BY <2>3, McpTest
<1>5. Tests(Mcp(Failing("mcp-identity-audience", {"audience_valid", "identity_bound"})))
  <2>1. {"audience_valid", "identity_bound"} \in SUBSET RequiredTrue
    BY DEF RequiredTrue
  <2>2. Tests(Failing("mcp-identity-audience", {"audience_valid", "identity_bound"}))
    BY <2>1, FailingTest
  <2> QED
    BY <2>2, McpTest DEF Failing
<1>6. Tests(Failing("confused-deputy", {"principal_bound", "resource_allowed"}))
  <2>1. {"principal_bound", "resource_allowed"} \in SUBSET RequiredTrue
    BY DEF RequiredTrue
  <2> QED
    BY <2>1, FailingTest
<1>7. Tests(Failing("delegation-spoofing", {"delegation_valid", "peer_verified"}))
  <2>1. {"delegation_valid", "peer_verified"} \in SUBSET RequiredTrue
    BY DEF RequiredTrue
  <2> QED
    BY <2>1, FailingTest
<1>8. Tests(Twins("approval-deception", {}, {"approval_matches"}, [approval_present |-> TRUE],
                  [approval_present |-> TRUE]))
  <2>1. {} \in SUBSET DenyFlags /\ {"approval_matches"} \in SUBSET RequiredTrue
    BY DEF DenyFlags, RequiredTrue
  <2> DEFINE bad  == [approval_present |-> TRUE]
             good == [approval_present |-> TRUE]
  <2>2. \A f \in DOMAIN good : Harmless(f, good[f])
    BY FieldsApart DEF Harmless, DenyFlags, RequiredTrue
  <2>3. \A f \in DOMAIN bad : Decides(f, bad[f]) \/ (f \in DOMAIN good /\ bad[f] = good[f])
    BY DEF Decides
  <2>4. \/ \E f \in DOMAIN bad : Decides(f, bad[f])
        \/ ({} \union {"approval_matches"}) \ DOMAIN bad # {}
    BY DEF Decides
  <2> HIDE DEF bad, good
  <2>5. Tests(Twins("approval-deception", {}, {"approval_matches"}, bad, good))
    BY <2>1, <2>2, <2>3, <2>4, TwinsTest
  <2>6. Tests(Twins("approval-deception", {}, {"approval_matches"}, [approval_present |-> TRUE],
                    [approval_present |-> TRUE]))
    BY <2>5 DEF bad, good
  <2> QED
    BY <2>6
<1>9. Tests(Twins("decoy-secret-access", {"decoy_secret_requested"}, {"purpose_allowed"}, <<>>, <<>>))
  <2>1. {"decoy_secret_requested"} \in SUBSET DenyFlags /\ {"purpose_allowed"} \in SUBSET RequiredTrue
    BY DEF DenyFlags, RequiredTrue
  <2>2. DOMAIN <<>> = {}
    OBVIOUS
  <2>3. Tests(Twins("decoy-secret-access", {"decoy_secret_requested"}, {"purpose_allowed"}, <<>>, <<>>))
    BY <2>1, <2>2, TwinsTest
  <2> QED
    BY <2>3
<1>10. Tests(Twins("budget-recursion", {}, {}, [budget_remaining |-> 0, delegation_depth |-> 9],
                   [budget_remaining |-> 10, delegation_depth |-> 1]))
  <2>1. {} \in SUBSET DenyFlags /\ {} \in SUBSET RequiredTrue
    BY DEF DenyFlags, RequiredTrue
  <2> DEFINE bad  == [budget_remaining |-> 0, delegation_depth |-> 9]
             good == [budget_remaining |-> 10, delegation_depth |-> 1]
  <2>2. \A f \in DOMAIN good : Harmless(f, good[f])
    BY FieldsApart DEF Harmless, DenyFlags, RequiredTrue
  <2>3. \A f \in DOMAIN bad : Decides(f, bad[f]) \/ (f \in DOMAIN good /\ bad[f] = good[f])
    BY DEF Decides
  <2>4. \/ \E f \in DOMAIN bad : Decides(f, bad[f])
        \/ ({} \union {}) \ DOMAIN bad # {}
    BY DEF Decides
  <2> HIDE DEF bad, good
  <2>5. Tests(Twins("budget-recursion", {}, {}, bad, good))
    BY <2>1, <2>2, <2>3, <2>4, TwinsTest
  <2>6. Tests(Twins("budget-recursion", {}, {}, [budget_remaining |-> 0, delegation_depth |-> 9],
                    [budget_remaining |-> 10, delegation_depth |-> 1]))
    BY <2>5 DEF bad, good
  <2> QED
    BY <2>6
<1>11. Tests(Twins("goal-hijack", {}, {"goal_integrity_valid"}, [tool_risk |-> "high"],
                   [tool_risk |-> "low"]))
  <2>1. {} \in SUBSET DenyFlags /\ {"goal_integrity_valid"} \in SUBSET RequiredTrue
    BY DEF DenyFlags, RequiredTrue
  <2> DEFINE bad  == [tool_risk |-> "high"]
             good == [tool_risk |-> "low"]
  <2>2. \A f \in DOMAIN good : Harmless(f, good[f])
    BY FieldsApart DEF Harmless, DenyFlags, RequiredTrue
  <2>3. \A f \in DOMAIN bad : Decides(f, bad[f]) \/ (f \in DOMAIN good /\ bad[f] = good[f])
    BY DEF Decides
  <2>4. \/ \E f \in DOMAIN bad : Decides(f, bad[f])
        \/ ({} \union {"goal_integrity_valid"}) \ DOMAIN bad # {}
    BY DEF Decides
  <2> HIDE DEF bad, good
  <2>5. Tests(Twins("goal-hijack", {}, {"goal_integrity_valid"}, bad, good))
    BY <2>1, <2>2, <2>3, <2>4, TwinsTest
  <2>6. Tests(Twins("goal-hijack", {}, {"goal_integrity_valid"}, [tool_risk |-> "high"],
                    [tool_risk |-> "low"]))
    BY <2>5 DEF bad, good
  <2> QED
    BY <2>6
<1>12. Tests(Failing("tool-definition-poisoning", {"tool_signature_valid"}))
  <2>1. {"tool_signature_valid"} \in SUBSET RequiredTrue
    BY DEF RequiredTrue
  <2> QED
    BY <2>1, FailingTest
<1>13. Tests(Failing("tool-result-poisoning", {"tool_result_trusted"}))
  <2>1. {"tool_result_trusted"} \in SUBSET RequiredTrue
    BY DEF RequiredTrue
  <2> QED
    BY <2>1, FailingTest
<1>14. Tests(Failing("configuration-tampering", {"configuration_signature_valid"}))
  <2>1. {"configuration_signature_valid"} \in SUBSET RequiredTrue
    BY DEF RequiredTrue
  <2> QED
    BY <2>1, FailingTest
<1>15. Tests(Failing("supply-chain-rug-pull", {"package_provenance_valid"}))
  <2>1. {"package_provenance_valid"} \in SUBSET RequiredTrue
    BY DEF RequiredTrue
  <2> QED
    BY <2>1, FailingTest
<1>16. Tests(Failing("cross-session-replay", {"session_binding_valid"}))
  <2>1. {"session_binding_valid"} \in SUBSET RequiredTrue
    BY DEF RequiredTrue
  <2> QED
    BY <2>1, FailingTest
<1>17. Tests(Failing("approval-replay", {"approval_fresh"}))
  <2>1. {"approval_fresh"} \in SUBSET RequiredTrue
    BY DEF RequiredTrue
  <2> QED
    BY <2>1, FailingTest
<1>18. Tests(Failing("delayed-exfiltration", {"egress_allowed"}))
  <2>1. {"egress_allowed"} \in SUBSET RequiredTrue
    BY DEF RequiredTrue
  <2> QED
    BY <2>1, FailingTest
<1>19. Tests(Twins("cost-harvesting", {}, {}, [cost_budget_remaining |-> 0],
                   [cost_budget_remaining |-> 100]))
  <2>1. {} \in SUBSET DenyFlags /\ {} \in SUBSET RequiredTrue
    BY DEF DenyFlags, RequiredTrue
  <2> DEFINE bad  == [cost_budget_remaining |-> 0]
             good == [cost_budget_remaining |-> 100]
  <2>2. \A f \in DOMAIN good : Harmless(f, good[f])
    BY FieldsApart DEF Harmless, DenyFlags, RequiredTrue
  <2>3. \A f \in DOMAIN bad : Decides(f, bad[f]) \/ (f \in DOMAIN good /\ bad[f] = good[f])
    BY DEF Decides
  <2>4. \/ \E f \in DOMAIN bad : Decides(f, bad[f])
        \/ ({} \union {}) \ DOMAIN bad # {}
    BY DEF Decides
  <2> HIDE DEF bad, good
  <2>5. Tests(Twins("cost-harvesting", {}, {}, bad, good))
    BY <2>1, <2>2, <2>3, <2>4, TwinsTest
  <2>6. Tests(Twins("cost-harvesting", {}, {}, [cost_budget_remaining |-> 0],
                    [cost_budget_remaining |-> 100]))
    BY <2>5 DEF bad, good
  <2> QED
    BY <2>6
<1>20. Tests(Failing("trust-summary-deception", {"summary_evidence_valid"}))
  <2>1. {"summary_evidence_valid"} \in SUBSET RequiredTrue
    BY DEF RequiredTrue
  <2> QED
    BY <2>1, FailingTest
<1>21. Tests(Failing("multi-agent-delegation-cascade", {"delegation_valid", "goal_integrity_valid",
                     "memory_retention_allowed"}))
  <2>1. {"delegation_valid", "goal_integrity_valid", "memory_retention_allowed"} \in SUBSET RequiredTrue
    BY DEF RequiredTrue
  <2> QED
    BY <2>1, FailingTest
<1>22. Tests(Twins("detection-feedback-integrity", {"suppression_expanded",
                   "drift_exceeds_threshold"}, {"identity_binding_valid", "evidence_digest_match"}, <<>>, <<>>))
  <2>1. {"suppression_expanded", "drift_exceeds_threshold"} \in SUBSET DenyFlags
        /\ {"identity_binding_valid", "evidence_digest_match"} \in SUBSET RequiredTrue
    BY DEF DenyFlags, RequiredTrue
  <2>2. DOMAIN <<>> = {}
    OBVIOUS
  <2>3. Tests(Twins("detection-feedback-integrity", {"suppression_expanded",
                    "drift_exceeds_threshold"}, {"identity_binding_valid", "evidence_digest_match"}, <<>>, <<>>))
    BY <2>1, <2>2, TwinsTest
  <2> QED
    BY <2>3
<1>23. Tests(Failing("lab-artifact-reference-substitution", {"artifact_digest_match",
                     "artifact_reviewed", "artifact_scope_valid"}))
  <2>1. {"artifact_digest_match", "artifact_reviewed", "artifact_scope_valid"} \in SUBSET RequiredTrue
    BY DEF RequiredTrue
  <2> QED
    BY <2>1, FailingTest
<1>24. DOMAIN Fixtures = 1 .. 23
  BY DEF Fixtures
<1>25. /\ Tests(Fixtures[1])
       /\ Tests(Fixtures[2])
       /\ Tests(Fixtures[3])
       /\ Tests(Fixtures[4])
       /\ Tests(Fixtures[5])
       /\ Tests(Fixtures[6])
  BY <1>1, <1>2, <1>3, <1>4, <1>5, <1>6 DEF Fixtures
<1>26. /\ Tests(Fixtures[7])
       /\ Tests(Fixtures[8])
       /\ Tests(Fixtures[9])
       /\ Tests(Fixtures[10])
       /\ Tests(Fixtures[11])
       /\ Tests(Fixtures[12])
  BY <1>7, <1>8, <1>9, <1>10, <1>11, <1>12 DEF Fixtures
<1>27. /\ Tests(Fixtures[13])
       /\ Tests(Fixtures[14])
       /\ Tests(Fixtures[15])
       /\ Tests(Fixtures[16])
       /\ Tests(Fixtures[17])
       /\ Tests(Fixtures[18])
  BY <1>13, <1>14, <1>15, <1>16, <1>17, <1>18 DEF Fixtures
<1>28. /\ Tests(Fixtures[19])
       /\ Tests(Fixtures[20])
       /\ Tests(Fixtures[21])
       /\ Tests(Fixtures[22])
       /\ Tests(Fixtures[23])
  BY <1>19, <1>20, <1>21, <1>22, <1>23 DEF Fixtures
<1> QED
  BY <1>24, <1>25, <1>26, <1>27, <1>28

\* Each of the reference lab's twins differ only in what the policy decides on by itself
\* (EveryDifferenceDenied).
THEOREM DifferencesDenied == Spec => []EveryDifferenceDenied
<1>1. RunsTold => EveryDifferenceDenied
  <2> SUFFICES ASSUME RunsTold, NEW t \in LabThreads, runs[t].fixture # None
               PROVE  LET fixture == Fixtures[runs[t].fixture]
                      IN  /\ runs[t].answer # "failed"
                          /\ \A f \in DOMAIN fixture.malicious :
                                fixture.malicious[f] # Given(fixture.benign, f, None)
                                    => ~Allowed(Crossed(fixture, f))
    BY Zenon DEF EveryDifferenceDenied
  <2> DEFINE i == runs[t].fixture
  <2>1. /\ i \in FixtureIndexes
        /\ runs[t].answer = None \/ runs[t].answer = IF Passed(Fixtures[i]) THEN "passed" ELSE "failed"
    BY DEF RunsTold, RunTold
  <2> HIDE DEF i
  <2>2. Tests(Fixtures[i])
    BY <2>1, LabAssumption, FixturesTest
  <2>3. runs[t].answer # "failed"
    BY <2>1, <2>2, LabAssumption DEF Tests
  <2> QED
    BY <2>2, <2>3 DEF Tests, i
<1> QED
  BY <1>1, RunsStart, RunsStep, PTL DEF Spec

=============================================================================
