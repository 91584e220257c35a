----------------------------- MODULE Lifecycle -----------------------------
(***************************************************************************)
(* The life of mailboxes and messages: creation over HTTP, delivery over   *)
(* SMTP, deletion by the owner, the cleanup ticker and process restarts,   *)
(* all on one database and one clock.                                      *)
(***************************************************************************)
EXTENDS MailboxCreation, Inbound

VARIABLE sweep   \* the Cleanup in progress and its cutoff

vars == <<storeVars, req, job, sweep>>

IdleSweep == [pc |-> "idle", cutoff |-> 0]

TypeOK ==
  /\ StoreTypeOK
  /\ CreationTypeOK
  /\ InboundTypeOK
  /\ sweep \in [pc : {"idle", "mailboxes"}, cutoff : Int]

Init ==
  /\ StoreInit
  /\ CreationInit
  /\ InboundInit
  /\ sweep = IdleSweep

----------------------------------------------------------------------------
Create(r) == CreationStep(r) /\ UNCHANGED <<now, job, sweep>>

Deliver(w) == DeliveryStep(w) /\ UNCHANGED <<now, req, sweep>>

\* POST /api/mailboxes/{token}/delete.
DeleteMailbox(token) ==
  /\ GetMailboxByToken(token) # {}
  /\ DeleteMailboxes(GetMailboxByToken(token))
  /\ UNCHANGED <<now, faults, req, job, sweep>>

\* The ticker fires: Cleanup computes its cutoff and deletes old messages.
CleanupMessages ==
  /\ sweep.pc = "idle"
  /\ DeleteMessages({m \in messages : m.received < now - Retention})
  /\ sweep' = [pc |-> "mailboxes", cutoff |-> now - Retention]
  /\ UNCHANGED <<now, faults, req, job>>

\* Fault variant: mailboxes go when they expire.
CleanupMailboxes_ByExpiry ==
  /\ sweep.pc = "mailboxes"
  /\ DeleteMailboxes({b \in mailboxes : b.expires < now})
  /\ sweep' = IdleSweep
  /\ UNCHANGED <<now, faults, req, job>>

\* Fault variant: Cleanup returns after its first statement.
CleanupMailboxes_Skipped ==
  /\ sweep.pc = "mailboxes"
  /\ sweep' = IdleSweep
  /\ UNCHANGED <<now, Tables, faults, req, job>>

\* The second statement of Cleanup, with the cutoff of the first.
CleanupMailboxes ==
  /\ sweep.pc = "mailboxes"
  /\ DeleteMailboxes({b \in mailboxes : b.expires < sweep.cutoff})
  /\ sweep' = IdleSweep
  /\ UNCHANGED <<now, faults, req, job>>

\* A failed statement ends this Cleanup; the next tick starts over.
CleanupFails ==
  /\ sweep.pc = "mailboxes"
  /\ Fault
  /\ sweep' = IdleSweep
  /\ UNCHANGED <<now, Tables, req, job>>

\* The process dies and is started again: the database is all that is left.
Restart ==
  /\ Fault
  /\ req' = NoRequests
  /\ job' = NoJobs
  /\ sweep' = IdleSweep
  /\ UNCHANGED <<now, Tables>>

Tick ==
  /\ now < MaxTime
  /\ now' = now + 1
  /\ UNCHANGED <<Tables, faults, req, job, sweep>>

Next ==
  \/ \E r \in Requests : Create(r)
  \/ \E w \in Workers : Deliver(w)
  \/ \E token \in Tokens : DeleteMailbox(token)
  \/ CleanupMessages
  \/ CleanupMailboxes
  \/ CleanupFails
  \/ Restart
  \/ Tick

Spec == Init /\ [][Next]_vars

\* Time passes and the cleanup goroutine runs its statements when its ticker
\* fires.  Clients and mail need never do anything.
Fairness ==
  /\ WF_vars(Tick)
  /\ WF_vars(CleanupMessages)
  /\ WF_vars(CleanupMailboxes)

FairSpec == Spec /\ Fairness

----------------------------------------------------------------------------
(* Safety *)

\* Every message belongs to a stored mailbox and every report to a stored
\* message, however deliveries, deletions, cleanup and crashes interleave.
ReferentialIntegrity ==
  /\ \A m \in messages : \E b \in mailboxes : b.id = m.mailbox
  /\ \A p \in reports : \E m \in messages : m.id = p.message

\* A sealed message is stored under the mailbox whose key it is sealed with,
\* even when that mailbox is deleted and created anew during processInbound.
SealedForOwner ==
  \A m \in messages, b \in mailboxes :
    b.id = m.mailbox /\ m.enc # Plain => b.token = m.enc

\* The receiving window: a stored message arrived at most the processing time
\* of processInbound after its mailbox stopped receiving.
ArrivalWindow ==
  \A m \in messages, b \in mailboxes :
    b.id = m.mailbox => m.received <= b.expires + ProcessTimeout

\* The score no report exceeds.
TopScore == CHOOSE s \in Scores : \A t \in Scores : t <= s

\* The cumulative counters never run ahead of the events they count, and the
\* score sum never outgrows the reports counted, but for one report per fault.
CountersSound ==
  /\ counters["mailboxes_created"] <= seq.mailboxes
  /\ counters["messages_received"] <= seq.messages
  /\ counters["reports_generated"] <= counters["messages_received"] + faults
  /\ counters["score_sum"] <= TopScore * (counters["reports_generated"] + faults)

\* The limit per IP is checked before the INSERT and not with it, so requests
\* that overlap can pass it together, but never by more than their number.
LimitOvershoot ==
  \A ip \in IPs : CountActiveMailboxesByIP(ip) < MaxActivePerIP + Cardinality(Requests)

\* Cleanup removes a message only when its retention window is over, but for
\* the processing time by which it may have arrived after its mailbox expired.
RetentionHonoured ==
  [][sweep' # sweep =>
       \A m \in messages \ messages' : now + ProcessTimeout > m.received + Retention]_vars

(* What the safety properties rest on *)

\* AUTOINCREMENT: no row holds an id that was not handed out.
IdsAllocated ==
  /\ \A b \in mailboxes : b.id <= seq.mailboxes
  /\ \A m \in messages : m.id <= seq.messages /\ m.mailbox <= seq.mailboxes

UniqueIds == \A b, c \in mailboxes : b.id = c.id => b = c

\* The copy of the mailbox row delivery j works with was handed out, and still
\* agrees with the row if there is one.
Tracks(j) ==
  /\ j.mailbox <= seq.mailboxes
  /\ j.received <= now
  /\ j.pc \in {"auth", "analyze", "save"} =>
       \A b \in mailboxes : b.id = j.mailbox =>
         /\ j.deadline <= b.expires + ProcessTimeout
         /\ j.key # Plain => b.token = j.key

JobsTrackMailbox == \A w \in Workers : Tracks(job[w])

SweepBehind == sweep.pc = "mailboxes" => sweep.cutoff <= now - Retention

IInv ==
  /\ TypeOK /\ ReferentialIntegrity /\ SealedForOwner /\ ArrivalWindow
  /\ IdsAllocated /\ UniqueIds /\ JobsTrackMailbox /\ SweepBehind

----------------------------------------------------------------------------
(* What the code says of itself *)

\* What createMailbox says of the branch that deletes: "Expired - delete and
\* re-create", and a mailbox that is still valid is returned.
OnlyExpiredReplaced ==
  [][(\E r \in Requests : At(r, "delete") /\ req'[r].pc = "insert") =>
       \A b \in mailboxes \ mailboxes' : b.expires <= now]_vars

----------------------------------------------------------------------------
(* Liveness *)

\* Everything is deleted in the end: no mailbox row survives for ever.
MailboxesPurged ==
  \A id \in 1..MaxMailboxes : HasMailbox(id) ~> ~HasMailbox(id)

=============================================================================
