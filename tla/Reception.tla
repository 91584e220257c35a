------------------------------ MODULE Reception ------------------------------
(***************************************************************************)
(* From the message to the report: the receiver's authentication results   *)
(* are evaluated and written into the message, then the checks run; a      *)
(* reader may have the stored message verified anew (processInbound,       *)
(* reverifyReceiverAuth and reanalyzeAPI).  The local state of the SPF     *)
(* evaluator and of the check runner is gone once they return.             *)
(***************************************************************************)
EXTENDS SpfEvaluation, CheckRunner, ReceiverHeaders

CONSTANT MaxRounds   \* evaluations of one message

VARIABLES
  stage,     \* "verify", "analyze" or "report"
  headers,   \* the header lines of the message
  arrived,   \* history: the header lines it arrived with
  secure,    \* history: the delivery was encrypted
  verdict,   \* the SPF result of this round
  round

messageVars == <<stage, headers, arrived, secure, verdict, round>>
vars == <<spfVars, runnerVars, messageVars>>

TypeOK ==
  /\ SpfTypeOK /\ RunnerTypeOK
  /\ stage \in {"verify", "analyze", "report"}
  /\ secure \in BOOLEAN
  /\ verdict \in Results
  /\ round \in 1..MaxRounds

\* A message comes with headers of other servers, and possibly with the lines of
\* an earlier passage through this one, all of them or what a forwarder kept.
Arrivals ==
  {<<Header("authentication-results", FALSE, "pass"), Header("received", FALSE, "ESMTPS")>>,
   <<Header("received", FALSE, "ESMTP"), Header("received-spf", FALSE, "fail"),
     Header("x-sender-report-detail", FALSE, "fail"), Header("received", TRUE, "ESMTP")>>,
   Append(enrichWithReceiverAuthHeaders(<<>>, FALSE, "pass"), Header("subject", FALSE, "text"))}

Init ==
  /\ SpfInit /\ RunnerInit
  /\ stage = "verify" /\ round = 1 /\ verdict = "none"
  /\ headers \in Arrivals /\ arrived = headers
  /\ secure \in BOOLEAN

-----------------------------------------------------------------------------
SpfStep ==
  /\ stage = "verify"
  /\ SpfNext
  /\ UNCHANGED <<runnerVars, messageVars>>

\* Fault variant: the lines of an earlier round stay.
Cleaned_NotStripped ==
  [clean |-> headers,
   tls |-> IF round = 1 THEN secure ELSE stripReceiverHeaders(headers).tls]

\* What the message says about its own delivery; in the first round the session
\* knows, later it is read from the line that is taken off.
Cleaned ==
  IF round = 1 THEN [clean |-> headers, tls |-> secure] ELSE stripReceiverHeaders(headers)

\* The evaluation is over: its result goes into the message and the checks start.
Stamp ==
  /\ stage = "verify" /\ at.pc = "done"
  /\ headers' = enrichWithReceiverAuthHeaders(Cleaned.clean, Cleaned.tls, at.result)
  /\ verdict' = at.result
  /\ stage' = "analyze"
  /\ at' = Idle /\ stack' = <<>> /\ lookups' = 0 /\ seen' = {} /\ lost' = FALSE /\ decider' = {}
  /\ spawner' = [spawner EXCEPT !.pc = "add"]
  /\ UNCHANGED <<task, sem, wg, results, out, panicked, arrived, secure, round>>

RunnerStep == RunnerNext /\ UNCHANGED <<spfVars, messageVars>>

Report ==
  /\ stage = "analyze" /\ spawner.pc = "returned"
  /\ stage' = "report"
  /\ RunnerReset
  /\ UNCHANGED <<spfVars, headers, arrived, secure, verdict, round>>

\* POST /api/reanalyze with the message as the reader has it.
Reanalyze ==
  /\ stage = "report" /\ round < MaxRounds
  /\ round' = round + 1
  /\ stage' = "verify"
  /\ UNCHANGED <<spfVars, runnerVars, headers, arrived, secure, verdict>>

Next == SpfStep \/ Stamp \/ RunnerStep \/ Report \/ Reanalyze

\* Every lookup and every check returns within its timeout, so the evaluator and
\* each goroutine make progress; nobody has to ask for a new analysis.
Fairness ==
  /\ WF_vars(SpfStep) /\ WF_vars(Stamp) /\ WF_vars(Report)
  /\ WF_vars(SpawnerStep /\ UNCHANGED <<spfVars, messageVars>>)
  /\ \A i \in TaskIds : WF_vars(TaskStep(i) /\ UNCHANGED <<spfVars, messageVars>>)

Spec == Init /\ [][Next]_vars /\ Fairness

-----------------------------------------------------------------------------
ResultLines(name) == SelectSeq(headers, LAMBDA h : h.name = name /\ ResultLine(h))
Lasting(lines) == SelectSeq(lines, LAMBDA h : ~ResultLine(h))

\* The verdict of the last evaluation is what a reader of the message meets: it is
\* the topmost result line of each name and, once the message was verified anew,
\* the only one, even if the message came with such lines of an earlier passage.
\* Everything else it arrived with stays, in its order, however often it is verified.
OneVerdict ==
  stage \in {"analyze", "report"} =>
    /\ \A name \in {"authentication-results", "received-spf", "x-sender-report-detail"} :
         /\ Head(ResultLines(name)) = Header(name, TRUE, verdict)
         /\ round > 1 => Len(ResultLines(name)) = 1
    /\ Tail(Lasting(headers)) = Lasting(arrived)

\* How the message was delivered survives: the newest Received line says whether
\* this delivery was encrypted, also after the line was rewritten.
TlsKept ==
  stage \in {"analyze", "report"} => headers[1] = Header("received", TRUE, proto(secure))

\* Verification and analysis end, with loops of includes, unanswered lookups and
\* checks that panic: every message gets its report.
ReportComes == stage = "verify" ~> stage = "report"
=============================================================================
