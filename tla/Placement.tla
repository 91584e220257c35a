----------------------------- MODULE Placement -----------------------------
(***************************************************************************)
(* One inbox placement test: internal/ipt's pollers (one per seed account) *)
(* search the IMAP folders, iptStartAPI's collector writes what they find  *)
(* to the test's row, and iptEventsAPI streams the row to the open dialog. *)
(* Meanwhile the message arrives and moves, the deadline of the test       *)
(* passes, the mailbox is deleted and the process dies.                    *)
(***************************************************************************)
EXTENDS Integers, FiniteSets, SequencesExt

CONSTANTS
  Providers,   \* providers of seeds.json
  MaxFaults    \* bound: failed updates of the row, and crashes

ASSUME PlacementAssumption == IsFiniteSet(Providers) /\ MaxFaults \in Nat

VARIABLES
  infos,      \* the providers of the test, {} before it starts
  row,        \* the row of inbox_placement_tests
  mail,       \* mail[p]: where the message is in p's account (external)
  poller,     \* poller[p]: where pollOne is
  chan,       \* the results channel
  collected,  \* the results the collector has received
  expired,    \* the deadline of pollCtx has passed
  stream,     \* the dialog's event stream: its state and the last payload
  faults

vars == <<infos, row, mail, poller, chan, collected, expired, stream, faults>>

Statuses == {"inbox", "spam", "timeout"}
Result == [provider : Providers, status : Statuses]
NoRow == [status |-> "none", results |-> <<>>]
Closed == [pc |-> "off", seen |-> NoRow]

TypeOK ==
  /\ infos \subseteq Providers
  /\ row.status \in {"none", "waiting", "running", "done", "timeout"}
  /\ {row.results, chan, collected, stream.seen.results} \subseteq Seq(Result)
  /\ Len(chan) + Len(collected) <= Cardinality(infos)
  /\ mail \in [Providers -> {"none", "inbox", "spam", "elsewhere"}]
  /\ poller \in [Providers -> {"off", "inbox", "spam", "wait", "sent"}]
  /\ expired \in BOOLEAN
  /\ stream.pc \in {"off", "open", "done", "gone"}
  /\ faults \in 0..MaxFaults

Init ==
  /\ infos = {}
  /\ row = NoRow
  /\ mail = [p \in Providers |-> "none"]
  /\ poller = [p \in Providers |-> "off"]
  /\ chan = <<>> /\ collected = <<>>
  /\ expired = FALSE
  /\ stream = Closed
  /\ faults = 0

----------------------------------------------------------------------------
\* iptStartAPI past its checks: the providers that are selected and healthy,
\* one account each; the row is created and the pollers are started.
Start(ps) ==
  /\ infos = {} /\ ps # {}
  /\ infos' = ps
  /\ row' = [status |-> "waiting", results |-> <<>>]
  /\ poller' = [p \in Providers |-> IF p \in ps THEN "inbox" ELSE "off"]
  /\ UNCHANGED <<mail, chan, collected, expired, stream, faults>>

\* The message reaches a folder of the account, or is moved (external).
MailMoves(p, folder) ==
  /\ infos # {}
  /\ mail[p] # folder
  /\ mail' = [mail EXCEPT ![p] = folder]
  /\ UNCHANGED <<infos, row, poller, chan, collected, expired, stream, faults>>

Deadline ==
  /\ infos # {} /\ ~expired
  /\ expired' = TRUE
  /\ UNCHANGED <<infos, row, mail, poller, chan, collected, stream, faults>>

\* pollOne returns and its goroutine sends the result.
Resolve(p, status) ==
  /\ chan' = Append(chan, [provider |-> p, status |-> status])
  /\ poller' = [poller EXCEPT ![p] = "sent"]

\* tryFind searches one folder after the other: it finds the message, goes on
\* to the next folder, or fails to connect and gives up for this round.
SearchInbox(p) ==
  /\ poller[p] = "inbox"
  /\ \/ mail[p] = "inbox" /\ Resolve(p, "inbox")
     \/ mail[p] # "inbox" /\ poller' = [poller EXCEPT ![p] = "spam"] /\ UNCHANGED chan
  /\ UNCHANGED <<infos, row, mail, collected, expired, stream, faults>>

\* Select or Search fails on INBOX and the spam folders are searched still, or
\* there is no connection at all.
ImapError(p) ==
  /\ poller[p] \in {"inbox", "spam"}
  /\ \E next \in {"spam", "wait"} : poller' = [poller EXCEPT ![p] = next]
  /\ poller' # poller
  /\ UNCHANGED <<infos, row, mail, chan, collected, expired, stream, faults>>

SearchSpam(p) ==
  /\ poller[p] = "spam"
  /\ \/ mail[p] = "spam" /\ Resolve(p, "spam")
     \/ mail[p] # "spam" /\ poller' = [poller EXCEPT ![p] = "wait"] /\ UNCHANGED chan
  /\ UNCHANGED <<infos, row, mail, collected, expired, stream, faults>>

\* The two branches of pollOne's select.
NextTick(p) ==
  /\ poller[p] = "wait"
  /\ poller' = [poller EXCEPT ![p] = "inbox"]
  /\ UNCHANGED <<infos, row, mail, chan, collected, expired, stream, faults>>

TimesOut(p) ==
  /\ poller[p] = "wait" /\ expired
  /\ Resolve(p, "timeout")
  /\ UNCHANGED <<infos, row, mail, collected, expired, stream, faults>>

\* Fault variant: the test counts as finished one result too early.
statusOf_OneShort(results) ==
  IF Len(results) + 1 < Cardinality(infos) THEN "running"
  ELSE IF \E i \in DOMAIN results : results[i].status = "timeout" THEN "timeout"
  ELSE "done"

statusOf(results) ==
  IF Len(results) # Cardinality(infos) THEN "running"
  ELSE IF \E i \in DOMAIN results : results[i].status = "timeout" THEN "timeout"
  ELSE "done"

\* Fault variant: each update holds the new result only.
UpdatePlacementTestResult_Latest(results) ==
  IF row.status = "none" THEN NoRow
  ELSE [status |-> statusOf(results), results |-> <<Last(results)>>]

\* The row after an update; updating a deleted row changes nothing.
UpdatePlacementTestResult(results) ==
  IF row.status = "none" THEN NoRow
  ELSE [status |-> statusOf(results), results |-> results]

\* Fault variant: the collector stops at the first result.
Collect_Once ==
  /\ chan # <<>> /\ collected = <<>>
  /\ collected' = <<Head(chan)>>
  /\ row' = UpdatePlacementTestResult(collected')
  /\ chan' = Tail(chan)
  /\ UNCHANGED <<infos, mail, poller, expired, stream, faults>>

\* The collector takes a result and updates the row with all it has so far;
\* the error of the update is ignored.
Collect ==
  /\ chan # <<>>
  /\ LET results == Append(collected, Head(chan))
     IN  /\ collected' = results
         /\ \/ row' = UpdatePlacementTestResult(results) /\ UNCHANGED faults
            \/ faults < MaxFaults /\ faults' = faults + 1 /\ UNCHANGED row
  /\ chan' = Tail(chan)
  /\ UNCHANGED <<infos, mail, poller, expired, stream>>

----------------------------------------------------------------------------
Finished(r) == r.status \in {"done", "timeout"}

\* Fault variant: only "done" ends the stream.
send_OnlyDone ==
  IF row.status = "none" THEN [stream EXCEPT !.pc = "gone"]
  ELSE [pc |-> IF row.status = "done" THEN "done" ELSE "open", seen |-> row]

\* Fault variant: the end of the test is announced before its result is sent.
send_DoneFirst ==
  IF row.status = "none" THEN [stream EXCEPT !.pc = "gone"]
  ELSE IF Finished(row) THEN [stream EXCEPT !.pc = "done"]
  ELSE [pc |-> "open", seen |-> row]

\* send(): read the row, stream it when it changed, and end the stream when
\* the test is over; a deleted test ends it with an error.
send ==
  IF row.status = "none" THEN [stream EXCEPT !.pc = "gone"]
  ELSE [pc |-> IF Finished(row) THEN "done" ELSE "open", seen |-> row]

Send ==
  /\ stream' = send
  /\ UNCHANGED <<infos, row, mail, poller, chan, collected, expired, faults>>

\* The dialog opens the stream, which sends at once, then on every tick.
OpenStream == stream.pc = "off" /\ row.status # "none" /\ Send

SendTick == stream.pc = "open" /\ Send

\* The client goes away, or the server's WriteTimeout cuts the stream.
Disconnect ==
  /\ stream.pc = "open"
  /\ stream' = Closed
  /\ UNCHANGED <<infos, row, mail, poller, chan, collected, expired, faults>>

\* The mailbox is deleted; its placement tests go with it.
DeleteMailbox ==
  /\ row.status # "none"
  /\ row' = NoRow
  /\ UNCHANGED <<infos, mail, poller, chan, collected, expired, stream, faults>>

\* The process dies: the row is all that remains, and nothing resumes it.
Crash ==
  /\ infos # {} /\ faults < MaxFaults
  /\ faults' = faults + 1
  /\ poller' = [p \in Providers |-> "off"]
  /\ chan' = <<>> /\ collected' = <<>>
  /\ stream' = Closed
  /\ UNCHANGED <<infos, row, mail, expired>>

Search(p) == SearchInbox(p) \/ SearchSpam(p) \/ ImapError(p)

Next ==
  \/ \E ps \in SUBSET Providers : Start(ps)
  \/ \E p \in infos : Search(p) \/ NextTick(p) \/ TimesOut(p)
  \/ \E p \in infos, folder \in {"inbox", "spam", "elsewhere"} : MailMoves(p, folder)
  \/ Deadline \/ Collect \/ OpenStream \/ SendTick \/ Disconnect \/ DeleteMailbox \/ Crash

Spec == Init /\ [][Next]_vars

\* Goroutines keep running and the clock advances.  Go's select chooses at
\* random when the tick and the deadline are both ready: strong fairness.
Running ==
  /\ WF_vars(Deadline) /\ WF_vars(Collect) /\ WF_vars(SendTick)
  /\ \A p \in Providers : WF_vars(p \in infos /\ NextTick(p)) /\ SF_vars(p \in infos /\ TimesOut(p))

\* IMAP servers answer, refuse or break the connection in the end.
ServersAnswer == \A p \in Providers : WF_vars(p \in infos /\ Search(p))

FairSpec == Spec /\ Running /\ ServersAnswer

----------------------------------------------------------------------------
ResultOf(p, r) == {r.results[i].status : i \in {j \in DOMAIN r.results : r.results[j].provider = p}}

\* The row never claims more than happened: every provider has at most one
\* result, a finished test has one for each, "done" means no timeout among
\* them and "timeout" means one, which the deadline preceded.
VerdictSound ==
  /\ \A p \in Providers :
       /\ Cardinality({i \in DOMAIN row.results : row.results[i].provider = p}) <= 1
       /\ "timeout" \in ResultOf(p, row) => expired
       /\ ResultOf(p, row) \cap {"inbox", "spam"} # {} => mail[p] # "none"
  /\ Finished(row) => \A p \in infos : ResultOf(p, row) # {}
  /\ row.status = "timeout" <=> (Finished(row) /\ \E p \in infos : "timeout" \in ResultOf(p, row))

\* A result once shown is never taken back, even when an update between two
\* others failed: each update rewrites all the results collected so far.
ResultsKept == [][row'.status # "none" => IsPrefix(row.results, row'.results)]_vars

\* A dialog that was told "done" holds the final state of the test.
StreamFinal ==
  stream.pc = "done" => Finished(stream.seen) /\ (row.status # "none" => stream.seen = row)

\* A test ends: once the deadline has passed every poller gives its result and
\* the row reaches "done" or "timeout", unless it is deleted, the process dies
\* or an update fails.
TestEnds == infos # {} ~> (Finished(row) \/ row.status = "none" \/ faults > 0)

\* No stream stays open behind a test that is over.
StreamEnds == stream.pc = "open" ~> (stream.pc # "open" \/ faults > 0)

=============================================================================
