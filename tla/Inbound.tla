------------------------------ MODULE Inbound ------------------------------
(***************************************************************************)
(* Mail intake: isAllowedRecipient at RCPT TO and processInbound after     *)
(* DATA (cmd/sender-report/main.go), with the statements of SaveMessage    *)
(* and SaveReport (internal/store/store.go).  A worker is one recipient of *)
(* one SMTP transaction.  processInbound runs under a 45 second context:   *)
(* a statement issued after the deadline fails.                            *)
(***************************************************************************)
EXTENDS Store

CONSTANTS
  Workers,         \* concurrent deliveries
  ProcessTimeout   \* the 45 second context of processInbound

ASSUME InboundAssumption == ProcessTimeout \in Nat /\ IsFiniteSet(Workers)

VARIABLE job   \* job[w] is the delivery worker w is busy with

\* time.Time{}: SaveMessage replaces it by the current time.
ZeroTime == -1

IdleJob == [pc |-> "idle", token |-> Plain, mailbox |-> 0, key |-> Plain,
            deadline |-> 0, received |-> ZeroTime, message |-> 0, score |-> 0]

JobState ==
  [pc : {"idle", "rcpt", "auth", "analyze", "save", "count", "report", "nreports", "nscore"},
   token : Tokens \cup {Plain}, mailbox : Nat, key : E2EKeys \cup {Plain},
   deadline : Nat, received : Nat \cup {ZeroTime}, message : Nat, score : Scores \cup {0}]

InboundTypeOK ==
  /\ job \in [Workers -> JobState]
  /\ \A w \in Workers :
       job[w].pc \in {"save", "count", "report", "nreports", "nscore"} => job[w].score \in Scores

NoJobs == [w \in Workers |-> IdleJob]

InboundInit == job = NoJobs

Busy(w, pc) == job[w].pc = pc

Finish(w) == job' = [job EXCEPT ![w] = IdleJob]

InTime(w) == now <= job[w].deadline

----------------------------------------------------------------------------
\* RCPT TO is accepted for an existing mailbox that has not expired.
isAllowedRecipient(w) ==
  /\ Busy(w, "idle")
  /\ \E b \in mailboxes :
       /\ now < b.expires
       /\ job' = [job EXCEPT ![w] = [IdleJob EXCEPT !.pc = "rcpt", !.token = b.token]]
  /\ UNCHANGED <<Tables, faults>>

\* processInbound goes on with its copy of mailbox row b.
Adopt(w, b) ==
  job' = [job EXCEPT ![w] = [@ EXCEPT !.pc = "auth", !.mailbox = b.id,
                                      !.key = IF b.token \in E2EKeys THEN b.token ELSE Plain,
                                      !.deadline = now + ProcessTimeout]]

\* Fault variant: the expiry check of RCPT TO is thought to be enough.
LookupMailbox_NoExpiry(w) ==
  LET found == GetMailboxByToken(job[w].token)
  IN  /\ Busy(w, "rcpt")
      /\ IF found = {} THEN Finish(w) ELSE \E b \in found : Adopt(w, b)
      /\ UNCHANGED <<Tables, faults>>

\* After DATA: the mailbox is looked up again, and mail for one that is gone
\* or expired meanwhile is dropped without an error.
LookupMailbox(w) ==
  LET found == {b \in GetMailboxByToken(job[w].token) : now <= b.expires}
  IN  /\ Busy(w, "rcpt")
      /\ IF found = {} THEN Finish(w) ELSE \E b \in found : Adopt(w, b)
      /\ UNCHANGED <<Tables, faults>>

\* Receiver authentication is done; tmpMsg gets its ReceivedAt.
Enrich(w) ==
  /\ Busy(w, "auth")
  /\ job' = [job EXCEPT ![w] = [@ EXCEPT !.pc = "analyze", !.received = now]]
  /\ UNCHANGED <<Tables, faults>>

\* Analysis, then sealing: a sealed message loses its ReceivedAt, and one that
\* cannot be sealed is kept in the clear.
AnalyzeAndSeal(w) ==
  /\ Busy(w, "analyze")
  /\ \E score \in Scores :
       \/ /\ job[w].key # Plain
          /\ job' = [job EXCEPT ![w] = [@ EXCEPT !.pc = "save", !.score = score, !.received = ZeroTime]]
          /\ UNCHANGED faults
       \/ /\ IF job[w].key = Plain THEN UNCHANGED faults ELSE Fault
          /\ job' = [job EXCEPT ![w] = [@ EXCEPT !.pc = "save", !.score = score, !.key = Plain]]
  /\ UNCHANGED Tables

\* The INSERT of SaveMessage, refused when the mailbox row is gone or time is up.
InsertMessage(w, received) ==
  /\ Busy(w, "save")
  /\ IF HasMailbox(job[w].mailbox) /\ InTime(w)
       THEN /\ SaveMessageRow(job[w].mailbox, received, job[w].key)
            /\ job' = [job EXCEPT ![w] = [@ EXCEPT !.pc = "count", !.message = seq.messages + 1]]
       ELSE Finish(w) /\ UNCHANGED Tables
  /\ UNCHANGED faults

\* Fault variant: a missing ReceivedAt is stored as it is.
SaveMessage_KeepsZeroTime(w) == InsertMessage(w, job[w].received)

\* SaveMessage: a missing ReceivedAt becomes the current time.
SaveMessage(w) ==
  InsertMessage(w, IF job[w].received = ZeroTime THEN now ELSE job[w].received)

\* incrCounter runs if it is in time; its error is swallowed.
Count(w, from, key, delta, to) ==
  /\ Busy(w, from)
  /\ \/ InTime(w) /\ incrCounter(key, delta) /\ UNCHANGED faults
     \/ ~InTime(w) /\ UNCHANGED <<Tables, faults>>
     \/ Fault /\ UNCHANGED Tables
  /\ IF to = "idle" THEN Finish(w) ELSE job' = [job EXCEPT ![w].pc = to]

CountMessage(w) == Count(w, "count", "messages_received", 1, "report")

\* SaveReport: the row is new for this message, which only this worker reports on.
SaveReport(w) ==
  /\ Busy(w, "report")
  /\ IF HasMessage(job[w].message) /\ InTime(w)
       THEN /\ UpsertReport(job[w].message, job[w].score)
            /\ job' = [job EXCEPT ![w].pc = "nreports"]
       ELSE Finish(w) /\ UNCHANGED Tables
  /\ UNCHANGED faults

\* Fault variant: the score is added and the report is not counted.
CountReport_Forgotten(w) ==
  /\ Busy(w, "nreports")
  /\ job' = [job EXCEPT ![w].pc = "nscore"]
  /\ UNCHANGED <<Tables, faults>>

CountReport(w) == Count(w, "nreports", "reports_generated", 1, "nscore")

CountScore(w) == Count(w, "nscore", "score_sum", job[w].score, "idle")

\* Any other failing statement ends the delivery; what was written stays.
DeliveryFails(w) ==
  /\ ~Busy(w, "idle")
  /\ Fault
  /\ Finish(w)
  /\ UNCHANGED Tables

DeliveryStep(w) ==
  \/ isAllowedRecipient(w) \/ LookupMailbox(w) \/ Enrich(w) \/ AnalyzeAndSeal(w)
  \/ SaveMessage(w) \/ CountMessage(w) \/ SaveReport(w) \/ CountReport(w) \/ CountScore(w)
  \/ DeliveryFails(w)

=============================================================================
