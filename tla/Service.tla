------------------------------- MODULE Service -------------------------------
(***************************************************************************)
(* The server process with the HTTP handlers it runs: requests are taken   *)
(* only while main serves, go on during the shutdown, and end with the     *)
(* process.                                                                *)
(***************************************************************************)
EXTENDS ReportApi, Process

CONSTANT MaxTotal   \* bound on events and turns together

vars == <<apiVars, procVars>>

TypeOK == ApiTypeOK /\ ProcTypeOK

Init == ApiInit /\ ProcInit

\* Handlers that end with the process: a store between its two statements
\* stays half done.
Abandoned ==
  /\ req' = NoRequests /\ stream' = Closed
  /\ mixed' = (mixed \/ \E r \in Requests : req[r].pc = "score")
  /\ UNCHANGED <<events, mailbox, message, wanted, chosen>>

Ends == (Crash \/ Exit) /\ Abandoned

Drains == Drained(~InFlight /\ ~stream.open) /\ UNCHANGED apiVars

\* A delivery over SMTP, by a session that is running.
Delivers ==
  /\ proc \in Up
  /\ Arrive \/ ReportStored
  /\ UNCHANGED procVars

Handles ==
  /\ \/ proc = "serving" /\ NewRequest
     \/ proc \in Up /\ HandlerStep
  /\ UNCHANGED procVars

Boots ==
  /\ Boot \/ Migrate \/ WriteEnv \/ SetUp \/ LoadPair \/ GenerateCert \/ GenerateKey \/ ShutdownOnSignal
  /\ UNCHANGED apiVars

Background == (SmtpStep \/ HealthStep \/ Environment) /\ UNCHANGED apiVars

Next ==
  /\ Boots \/ Background \/ Ends \/ Drains \/ Delivers \/ Handles
  /\ events' + turns' <= MaxTotal

\* The scheduler runs main, the SMTP goroutines and the ticker of the stream; a
\* session ends by its deadline.  Nothing makes a client leave.
Fairness ==
  /\ WF_vars(Boots /\ proc \notin {"down", "stopped"})
  /\ WF_vars(Exit /\ Abandoned) /\ WF_vars(Drains)
  /\ WF_vars(SmtpStep /\ UNCHANGED apiVars)
  /\ WF_vars(proc \in Up /\ StreamTick /\ UNCHANGED procVars)

Spec == Init /\ [][Next]_vars /\ Fairness

\* Whatever clients keep open, a shutdown comes to its end.
ShutdownEnds == proc = "drain" ~> proc \in {"stopped", "down"}

\* A stream that stays open shows the latest status sooner or later, scores that
\* a recheck changes included.
StreamCatchesUp == stream.open ~> (~stream.open \/ stream.shown = Status)
=============================================================================
