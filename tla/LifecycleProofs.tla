-------------------------- MODULE LifecycleProofs --------------------------
(***************************************************************************)
(* Proofs about Lifecycle for every number of keys, tokens, addresses,     *)
(* requests and workers, every clock and every TTL, retention and timeout. *)
(***************************************************************************)
EXTENDS Lifecycle, TLAPS

----------------------------------------------------------------------------
(* Types *)

\* Every statement of createMailbox keeps all tables and handlers well typed.
LEMMA CreateTypes ==
  ASSUME TypeOK, NEW r \in Requests, Create(r)
  PROVE  TypeOK'
<1> USE DEF TypeOK, CreationTypeOK, InboundTypeOK, Create, At
<1>1. CASE CheckIPLimit(r)
  BY <1>1 DEF CheckIPLimit, Receive, Tokens, Tables, StoreTypeOK, RequestState
<1>2. CASE CheckGlobalLimit(r)
  BY <1>2 DEF CheckGlobalLimit, EndRequest, Goto, IdleRequest, Tables, StoreTypeOK, RequestState
<1>3. CASE LookupExisting(r)
  BY <1>3 DEF LookupExisting, EndRequest, Goto, IdleRequest, Tables, StoreTypeOK, RequestState
<1>4. CASE DeleteExpired(r)
  BY <1>4 DEF DeleteExpired, DeleteMailboxes, Goto, StoreTypeOK, RequestState
<1>5. CASE generateMailboxAddress(r)
  <2>1. PICK token \in LegacyTokens :
          req' = [req EXCEPT ![r] = [req[r] EXCEPT !.pc = "insert", !.token = token]]
    BY <1>5 DEF generateMailboxAddress
  <2> DEFINE q == [req[r] EXCEPT !.pc = "insert", !.token = token]
  <2>2. q \in RequestState /\ q.token \in Tokens /\ q.ip \in IPs
    BY <1>5, ZenonT(40) DEF generateMailboxAddress, RequestState, Tokens
  <2>3. CreationTypeOK'
    BY <2>1, <2>2
  <2> QED
    BY <1>5, <2>3 DEF generateMailboxAddress, Tables, StoreTypeOK
<1>6. CASE InsertMailbox(r)
  BY <1>6, StoreAssumption
     DEF InsertMailbox, CreateMailbox, EndRequest, Goto, IdleRequest, Tables, StoreTypeOK, RequestState, MailboxRow
<1>7. CASE CountMailbox(r)
  BY <1>7
     DEF CountMailbox, incrCounter, CounterKeys, Fault, EndRequest, Goto, IdleRequest, Tables, StoreTypeOK, RequestState
<1>8. CASE StoreOptIns(r)
  BY <1>8
     DEF StoreOptIns, UpdateMailboxChecks, EndRequest, IdleRequest, StoreTypeOK, RequestState, MailboxRow
<1>9. CASE RequestFails(r)
  BY <1>9 DEF RequestFails, Fault, EndRequest, IdleRequest, Tables, StoreTypeOK, RequestState
<1> QED
  BY <1>1, <1>2, <1>3, <1>4, <1>5, <1>6, <1>7, <1>8, <1>9 DEF CreationStep

\* A worker that moves to a well typed job leaves all jobs well typed.
LEMMA JobUpdate ==
  ASSUME InboundTypeOK, NEW w \in Workers, NEW j \in JobState,
         j.pc \in {"save", "count", "report", "nreports", "nscore"} => j.score \in Scores,
         job' = [job EXCEPT ![w] = j]
  PROVE  InboundTypeOK'
  BY DEF InboundTypeOK

\* An idle worker is well typed.
LEMMA IdleJobType == IdleJob \in JobState
  BY DEF IdleJob, JobState, ZeroTime

\* Ending a delivery keeps the jobs well typed.
LEMMA FinishTypes ==
  ASSUME InboundTypeOK, NEW w \in Workers, Finish(w)
  PROVE  InboundTypeOK'
<1>1. IdleJob.pc = "idle"
  BY DEF IdleJob
<1> QED
  BY <1>1, JobUpdate, IdleJobType DEF Finish

\* So does moving on to the next statement.
LEMMA StepTypes ==
  ASSUME InboundTypeOK, NEW w \in Workers,
         NEW pc \in {"report", "nreports", "nscore"},
         job[w].pc \in {"count", "report", "nreports", "nscore"},
         job' = [job EXCEPT ![w].pc = pc]
  PROVE  InboundTypeOK'
<1> DEFINE j == [job[w] EXCEPT !.pc = pc]
<1>1. j \in JobState /\ j.score \in Scores
  BY DEF InboundTypeOK, JobState
<1>2. job' = [job EXCEPT ![w] = j]
  OBVIOUS
<1> QED
  BY <1>1, <1>2, JobUpdate

\* A statement on a counter, or its failure, keeps tables and jobs well typed.
LEMMA CountTypes ==
  ASSUME TypeOK, NEW w \in Workers, NEW key \in CounterKeys, NEW delta \in Nat,
         NEW from \in {"count", "nreports", "nscore"}, NEW to \in {"idle", "report", "nscore"},
         Count(w, from, key, delta, to), now' = now
  PROVE  StoreTypeOK' /\ InboundTypeOK'
<1>1. StoreTypeOK'
  BY DEF TypeOK, StoreTypeOK, Count, incrCounter, Fault, Tables
<1>2. CASE to = "idle"
  BY <1>1, <1>2, FinishTypes DEF Count, TypeOK
<1>3. CASE to # "idle"
  BY <1>1, <1>3, StepTypes DEF Count, Busy, TypeOK
<1> QED
  BY <1>1, <1>2, <1>3

\* Every step of a delivery keeps all tables and handlers well typed.
LEMMA DeliverTypes ==
  ASSUME TypeOK, NEW w \in Workers, Deliver(w)
  PROVE  TypeOK'
<1> SUFFICES StoreTypeOK' /\ InboundTypeOK'
  BY DEF TypeOK, CreationTypeOK, Deliver, At
<1> USE DEF TypeOK, Deliver
<1>w. job[w] \in JobState
  BY DEF InboundTypeOK
<1>1. CASE isAllowedRecipient(w)
  <2>1. PICK b \in mailboxes :
          job' = [job EXCEPT ![w] = [IdleJob EXCEPT !.pc = "rcpt", !.token = b.token]]
    BY <1>1 DEF isAllowedRecipient
  <2> DEFINE j == [IdleJob EXCEPT !.pc = "rcpt", !.token = b.token]
  <2>2. j \in JobState /\ j.pc = "rcpt"
    BY IdleJobType DEF JobState, StoreTypeOK, MailboxRow, IdleJob
  <2>3. InboundTypeOK'
    BY <2>1, <2>2, JobUpdate
  <2> QED
    BY <1>1, <2>3, SMTT(20) DEF isAllowedRecipient, StoreTypeOK, Tables
<1>2. CASE LookupMailbox(w)
  <2>1. StoreTypeOK'
    BY <1>2 DEF LookupMailbox, StoreTypeOK, Tables
  <2>2. CASE Finish(w)
    BY <2>1, <2>2, FinishTypes
  <2>3. ASSUME NEW b \in mailboxes, Adopt(w, b) PROVE InboundTypeOK'
    <3> DEFINE j == [job[w] EXCEPT !.pc = "auth", !.mailbox = b.id,
                                   !.key = IF b.token \in E2EKeys THEN b.token ELSE Plain,
                                   !.deadline = now + ProcessTimeout]
    <3>1. b.id \in Nat /\ now + ProcessTimeout \in Nat
      BY InboundAssumption DEF StoreTypeOK, MailboxRow
    <3>2. j \in JobState /\ j.pc = "auth"
      BY <1>w, <3>1 DEF JobState
    <3> QED
      BY <2>3, <3>2, JobUpdate DEF Adopt
  <2> QED
    BY <1>2, <2>1, <2>2, <2>3 DEF LookupMailbox, GetMailboxByToken
<1>3. CASE Enrich(w)
  <2> DEFINE j == [job[w] EXCEPT !.pc = "analyze", !.received = now]
  <2>1. j \in JobState /\ j.pc = "analyze"
    BY <1>w DEF JobState, StoreTypeOK
  <2>2. InboundTypeOK'
    BY <1>3, <2>1, JobUpdate DEF Enrich
  <2> QED
    BY <1>3, <2>2 DEF Enrich, StoreTypeOK, Tables
<1>4. CASE AnalyzeAndSeal(w)
  <2>1. StoreTypeOK'
    BY <1>4 DEF AnalyzeAndSeal, Fault, StoreTypeOK, Tables
  <2>2. PICK score \in Scores :
          \/ job' = [job EXCEPT ![w] = [job[w] EXCEPT !.pc = "save", !.score = score, !.received = ZeroTime]]
          \/ job' = [job EXCEPT ![w] = [job[w] EXCEPT !.pc = "save", !.score = score, !.key = Plain]]
    BY <1>4 DEF AnalyzeAndSeal
  <2> DEFINE j == [job[w] EXCEPT !.pc = "save", !.score = score, !.received = ZeroTime]
             k == [job[w] EXCEPT !.pc = "save", !.score = score, !.key = Plain]
  <2>3. j \in JobState /\ j.score \in Scores /\ k \in JobState /\ k.score \in Scores
    BY <1>w DEF JobState
  <2> QED
    BY <2>1, <2>2, <2>3, JobUpdate
<1>5. CASE SaveMessage(w)
  <2> DEFINE received == IF job[w].received = ZeroTime THEN now ELSE job[w].received
             j == [job[w] EXCEPT !.pc = "count", !.message = seq.messages + 1]
  <2>1. CASE Finish(w) /\ UNCHANGED Tables
    BY <1>5, <2>1, FinishTypes DEF SaveMessage, InsertMessage, StoreTypeOK, Tables
  <2>2. CASE /\ HasMailbox(job[w].mailbox)
             /\ SaveMessageRow(job[w].mailbox, received, job[w].key)
             /\ job' = [job EXCEPT ![w] = j]
    <3>0. seq.messages + 1 \in Nat /\ job[w].score \in Scores
      BY <1>5 DEF StoreTypeOK, InboundTypeOK, SaveMessage, InsertMessage, Busy
    <3>1. j \in JobState /\ j.score \in Scores
      BY <1>w, <3>0 DEF JobState
    <3>2. received \in Nat /\ job[w].key \in E2EKeys \cup {Plain}
      BY <1>w DEF JobState, StoreTypeOK
    <3>3. job[w].mailbox \in Nat \ {0}
      BY <2>2 DEF HasMailbox, StoreTypeOK, MailboxRow
    <3>4. [id |-> seq.messages + 1, mailbox |-> job[w].mailbox, received |-> received,
           enc |-> job[w].key] \in MessageRow
      BY <3>2, <3>3 DEF StoreTypeOK, MessageRow
    <3>5. StoreTypeOK'
      BY <1>5, <2>2, <3>4 DEF SaveMessage, InsertMessage, SaveMessageRow, StoreTypeOK
    <3> QED
      BY <2>2, <3>1, <3>5, JobUpdate
  <2> QED
    BY <1>5, <2>1, <2>2 DEF SaveMessage, InsertMessage
<1>6. CASE CountMessage(w)
  BY <1>6, CountTypes DEF CountMessage, CounterKeys
<1>7. CASE SaveReport(w)
  <2>1. CASE Finish(w) /\ UNCHANGED Tables
    BY <1>7, <2>1, FinishTypes DEF SaveReport, StoreTypeOK, Tables
  <2>2. CASE /\ HasMessage(job[w].message)
             /\ UpsertReport(job[w].message, job[w].score)
             /\ job' = [job EXCEPT ![w].pc = "nreports"]
    <3>1. [message |-> job[w].message, score |-> job[w].score] \in ReportRow
      BY <1>7, <2>2 DEF SaveReport, Busy, InboundTypeOK, HasMessage, StoreTypeOK, MessageRow, ReportRow
    <3>2. StoreTypeOK'
      BY <1>7, <2>2, <3>1 DEF SaveReport, UpsertReport, StoreTypeOK
    <3> QED
      BY <1>7, <2>2, <3>2, StepTypes DEF SaveReport, Busy
  <2> QED
    BY <1>7, <2>1, <2>2 DEF SaveReport
<1>8. CASE CountReport(w)
  BY <1>8, CountTypes DEF CountReport, CounterKeys
<1>9. CASE CountScore(w)
  <2>1. job[w].score \in Scores
    BY <1>9 DEF CountScore, Count, Busy, InboundTypeOK
  <2>2. job[w].score \in Nat
    BY <2>1, StoreAssumption
  <2> QED
    BY <1>9, <2>2, CountTypes DEF CountScore, CounterKeys
<1>10. CASE DeliveryFails(w)
  BY <1>10, FinishTypes DEF DeliveryFails, Fault, StoreTypeOK, Tables
<1> QED
  BY <1>1, <1>2, <1>3, <1>4, <1>5, <1>6, <1>7, <1>8, <1>9, <1>10 DEF DeliveryStep

\* TypeOK is an invariant: all tables, request handlers, deliveries and the
\* cleanup stay within their types.
THEOREM TypeCorrect == Spec => []TypeOK
<1>1. Init => TypeOK
  BY StoreAssumption, IdleJobType
     DEF Init, StoreInit, CreationInit, NoRequests, IdleRequest, InboundInit, NoJobs, IdleJob, IdleSweep,
         TypeOK, StoreTypeOK, CreationTypeOK, RequestState, InboundTypeOK
<1>2. TypeOK /\ [Next]_vars => TypeOK'
  <2> SUFFICES ASSUME TypeOK, [Next]_vars PROVE TypeOK'
    OBVIOUS
  <2>1. ASSUME NEW r \in Requests, Create(r) PROVE TypeOK'
    BY <2>1, CreateTypes
  <2>2. ASSUME NEW w \in Workers, Deliver(w) PROVE TypeOK'
    BY <2>2, DeliverTypes
  <2> USE DEF TypeOK, StoreTypeOK, CreationTypeOK, InboundTypeOK
  <2>3. ASSUME NEW token \in Tokens, DeleteMailbox(token) PROVE TypeOK'
    BY <2>3 DEF DeleteMailbox, DeleteMailboxes
  <2>4. CASE CleanupMessages
    BY <2>4, StoreAssumption DEF CleanupMessages, DeleteMessages
  <2>5. CASE CleanupMailboxes
    BY <2>5 DEF CleanupMailboxes, DeleteMailboxes, IdleSweep
  <2>6. CASE CleanupFails
    BY <2>6 DEF CleanupFails, Fault, Tables, IdleSweep
  <2>7. CASE Restart
    BY <2>7, IdleJobType DEF Restart, Fault, Tables, IdleSweep, NoRequests, IdleRequest, RequestState, NoJobs, IdleJob
  <2>8. CASE Tick
    BY <2>8 DEF Tick, Tables
  <2>9. CASE UNCHANGED vars
    BY <2>9 DEF vars, storeVars, Tables
  <2> QED
    BY <2>1, <2>2, <2>3, <2>4, <2>5, <2>6, <2>7, <2>8, <2>9 DEF Next
<1> QED
  BY <1>1, <1>2, PTL DEF Spec

----------------------------------------------------------------------------
(* The inductive invariant *)

\* Steps that leave the mailbox, message and report tables, the deliveries and
\* the clock alone cannot disturb the invariant.
LEMMA Untouched ==
  ASSUME IInv, UNCHANGED <<now, mailboxes, messages, reports, seq, job, sweep>>, TypeOK'
  PROVE  IInv'
  BY DEF IInv, ReferentialIntegrity, SealedForOwner, ArrivalWindow, IdsAllocated, UniqueIds,
         JobsTrackMailbox, Tracks, SweepBehind

\* Deleting mailboxes with the cascades: no orphan is left, and what is left
\* was there before.
LEMMA DeletionSafe ==
  ASSUME IInv, NEW gone, DeleteMailboxes(gone), UNCHANGED <<now, job>>
  PROVE  /\ ReferentialIntegrity' /\ SealedForOwner' /\ ArrivalWindow'
         /\ IdsAllocated' /\ UniqueIds' /\ JobsTrackMailbox'
<1> USE DEF IInv, DeleteMailboxes
<1>1. ReferentialIntegrity'
  <2>1. ASSUME NEW m \in messages' PROVE \E b \in mailboxes' : b.id = m.mailbox
    BY <2>1 DEF ReferentialIntegrity
  <2>2. ASSUME NEW p \in reports' PROVE \E m \in messages' : m.id = p.message
    BY <2>2 DEF ReferentialIntegrity
  <2> QED
    BY <2>1, <2>2 DEF ReferentialIntegrity
<1>2. SealedForOwner' /\ ArrivalWindow'
  BY DEF SealedForOwner, ArrivalWindow
<1>3. IdsAllocated' /\ UniqueIds' /\ JobsTrackMailbox'
  BY DEF IdsAllocated, UniqueIds, JobsTrackMailbox, Tracks
<1> QED
  BY <1>1, <1>2, <1>3

\* A new mailbox gets an id that no message and no delivery refers to.
LEMMA CreationSafe ==
  ASSUME IInv, NEW token, NEW ip, CreateMailbox(token, ip), UNCHANGED <<now, job>>
  PROVE  /\ ReferentialIntegrity' /\ SealedForOwner' /\ ArrivalWindow'
         /\ IdsAllocated' /\ UniqueIds' /\ JobsTrackMailbox'
<1> DEFINE new == [id |-> seq.mailboxes + 1, token |-> token, ip |-> ip,
                   expires |-> now + MailboxTTL, flags |-> {}]
<1>1. /\ mailboxes' = mailboxes \cup {new}
      /\ seq'.mailboxes = seq.mailboxes + 1 /\ seq'.messages = seq.messages
      /\ UNCHANGED <<messages, reports, now, job>>
  BY DEF CreateMailbox, IInv, TypeOK, StoreTypeOK
<1>2. /\ seq.mailboxes \in Nat
      /\ \A b \in mailboxes : b.id \in Nat /\ b.id # new.id
      /\ \A m \in messages : m.mailbox \in Nat /\ m.mailbox # new.id
      /\ \A w \in Workers : job[w].mailbox \in Nat /\ job[w].mailbox # new.id
  BY DEF IInv, TypeOK, StoreTypeOK, InboundTypeOK, MailboxRow, MessageRow, JobState, IdsAllocated,
         JobsTrackMailbox, Tracks
<1> HIDE DEF new
<1>3. new.id = seq.mailboxes + 1
  BY DEF new
<1>4. ReferentialIntegrity'
  BY <1>1 DEF IInv, ReferentialIntegrity
<1>5. SealedForOwner' /\ ArrivalWindow'
  BY <1>1, <1>2 DEF IInv, SealedForOwner, ArrivalWindow
<1>6. IdsAllocated'
  BY <1>1, <1>2, <1>3 DEF IInv, IdsAllocated
<1>7. UniqueIds' /\ JobsTrackMailbox'
  BY <1>1, <1>2 DEF IInv, UniqueIds, JobsTrackMailbox, Tracks
<1> QED
  BY <1>4, <1>5, <1>6, <1>7

\* Storing opt-ins changes no id, token or expiry.
LEMMA OptInSafe ==
  ASSUME IInv, NEW token, NEW flags, UpdateMailboxChecks(token, flags), UNCHANGED <<now, job>>
  PROVE  /\ ReferentialIntegrity' /\ SealedForOwner' /\ ArrivalWindow'
         /\ IdsAllocated' /\ UniqueIds' /\ JobsTrackMailbox'
<1> DEFINE new(b) == IF b.token = token THEN [b EXCEPT !.flags = flags] ELSE b
<1>1. /\ mailboxes' = {new(b) : b \in mailboxes}
      /\ UNCHANGED <<messages, reports, seq, now, job>>
  BY DEF UpdateMailboxChecks
<1>2. \A b \in mailboxes : new(b).id = b.id /\ new(b).token = b.token /\ new(b).expires = b.expires
  BY DEF IInv, TypeOK, StoreTypeOK, MailboxRow
<1> HIDE DEF new
<1>3. ReferentialIntegrity'
  BY <1>1, <1>2 DEF IInv, ReferentialIntegrity
<1>4. SealedForOwner' /\ ArrivalWindow'
  BY <1>1, <1>2 DEF IInv, SealedForOwner, ArrivalWindow
<1>5. IdsAllocated' /\ UniqueIds' /\ JobsTrackMailbox'
  BY <1>1, <1>2 DEF IInv, IdsAllocated, UniqueIds, JobsTrackMailbox, Tracks
<1> QED
  BY <1>3, <1>4, <1>5

\* A delivery that touches no table and moves on to a job that tracks its
\* mailbox row.
LEMMA JobOnlySafe ==
  ASSUME IInv, NEW w \in Workers, NEW j, Tracks(j), job' = [job EXCEPT ![w] = j],
         UNCHANGED <<now, mailboxes, messages, reports, seq, sweep>>, TypeOK'
  PROVE  IInv'
<1>1. \A v \in Workers : job'[v] = IF v = w THEN j ELSE job[v]
  BY DEF IInv, TypeOK, InboundTypeOK
<1>2. JobsTrackMailbox'
  BY <1>1 DEF IInv, JobsTrackMailbox, Tracks
<1> QED
  BY <1>2 DEF IInv, ReferentialIntegrity, SealedForOwner, ArrivalWindow, IdsAllocated, UniqueIds, SweepBehind

\* Ending a delivery keeps the invariant.
LEMMA FinishSafe ==
  ASSUME IInv, NEW w \in Workers, Finish(w),
         UNCHANGED <<now, mailboxes, messages, reports, seq, sweep>>, TypeOK'
  PROVE  IInv'
<1>1. Tracks(IdleJob)
  BY DEF IInv, TypeOK, StoreTypeOK, IdleJob, ZeroTime, Tracks
<1> QED
  BY <1>1, JobOnlySafe DEF Finish

\* Moving on after the INSERT needs no mailbox row any more.
LEMMA StepSafe ==
  ASSUME IInv, NEW w \in Workers, NEW pc \in {"report", "nreports", "nscore"},
         job' = [job EXCEPT ![w].pc = pc],
         UNCHANGED <<now, mailboxes, messages, seq, sweep>>, TypeOK'
  PROVE  JobsTrackMailbox'
<1>1. \A v \in Workers : /\ job'[v].mailbox = job[v].mailbox
                         /\ job'[v].received = job[v].received
                         /\ job'[v] = job[v] \/ job'[v].pc = pc
  BY DEF IInv, TypeOK, InboundTypeOK, JobState
<1> QED
  BY <1>1 DEF IInv, JobsTrackMailbox, Tracks

\* Counting disturbs no table the invariant speaks of.
LEMMA CountSafe ==
  ASSUME IInv, NEW w \in Workers, NEW key, NEW delta, NEW from, NEW to \in {"idle", "report", "nscore"},
         Count(w, from, key, delta, to), UNCHANGED <<now, sweep>>, TypeOK'
  PROVE  IInv'
<1>1. UNCHANGED <<now, mailboxes, messages, reports, seq, sweep>>
  BY DEF Count, incrCounter, Tables
<1>2. CASE to = "idle"
  BY <1>1, <1>2, FinishSafe DEF Count
<1>3. CASE to # "idle"
  <2>1. JobsTrackMailbox'
    BY <1>1, <1>3, StepSafe DEF Count
  <2> QED
    BY <1>1, <2>1 DEF IInv, ReferentialIntegrity, SealedForOwner, ArrivalWindow, IdsAllocated, UniqueIds,
                      SweepBehind
<1> QED
  BY <1>2, <1>3

\* SaveMessage stores the message under the mailbox row the delivery copied,
\* at most the processing time after that row expired.
LEMMA SaveMessageSafe ==
  ASSUME IInv, NEW w \in Workers, SaveMessage(w), UNCHANGED <<now, sweep>>, TypeOK'
  PROVE  IInv'
<1> DEFINE received == IF job[w].received = ZeroTime THEN now ELSE job[w].received
           j == [job[w] EXCEPT !.pc = "count", !.message = seq.messages + 1]
           new == [id |-> seq.messages + 1, mailbox |-> job[w].mailbox, received |-> received,
                   enc |-> job[w].key]
<1>1. CASE Finish(w) /\ UNCHANGED Tables
  BY <1>1, FinishSafe DEF Tables
<1>2. CASE /\ HasMailbox(job[w].mailbox) /\ InTime(w)
           /\ SaveMessageRow(job[w].mailbox, received, job[w].key)
           /\ job' = [job EXCEPT ![w] = j]
  <2>1. /\ messages' = messages \cup {new} /\ UNCHANGED <<mailboxes, reports, now, sweep>>
        /\ seq'.messages = seq.messages + 1 /\ seq'.mailboxes = seq.mailboxes
    BY <1>2 DEF SaveMessageRow, IInv, TypeOK, StoreTypeOK
  <2>2. /\ job[w] \in JobState /\ Tracks(job[w]) /\ job[w].pc = "save"
        /\ now \in Nat /\ seq.messages \in Nat /\ seq.mailboxes \in Nat /\ ProcessTimeout \in Nat
    BY InboundAssumption
       DEF IInv, TypeOK, StoreTypeOK, InboundTypeOK, JobsTrackMailbox, SaveMessage, InsertMessage, Busy
  <2>3. new.received <= job[w].deadline
    BY <1>2, <2>2 DEF InTime, Tracks, ZeroTime, JobState
  <2>4. \A b \in mailboxes : b.id = job[w].mailbox =>
          /\ job[w].deadline <= b.expires + ProcessTimeout
          /\ job[w].key # Plain => b.token = job[w].key
    BY <2>2 DEF Tracks
  <2>5. new.id = seq.messages + 1 /\ new.mailbox = job[w].mailbox /\ new.enc = job[w].key
    OBVIOUS
  <2> HIDE DEF new
  <2>6. ReferentialIntegrity'
    BY <1>2, <2>1, <2>5 DEF IInv, ReferentialIntegrity, HasMailbox
  <2>7. SealedForOwner'
    BY <2>1, <2>4, <2>5 DEF IInv, SealedForOwner
  <2>8. ArrivalWindow'
    <3>1. new.received \in Int /\ job[w].deadline \in Nat /\ \A b \in mailboxes : b.expires \in Nat
      BY <2>2 DEF new, JobState, ZeroTime, IInv, TypeOK, StoreTypeOK, MailboxRow
    <3> QED
      BY <2>1, <2>2, <2>3, <2>4, <2>5, <3>1 DEF IInv, ArrivalWindow
  <2>9. IdsAllocated'
    <3>1. \A m \in messages : m.id \in Nat /\ m.id <= seq.messages /\ m.mailbox <= seq.mailboxes
      BY DEF IInv, TypeOK, StoreTypeOK, MessageRow, IdsAllocated
    <3>2. job[w].mailbox <= seq.mailboxes
      BY <2>2 DEF Tracks
    <3> QED
      BY <2>1, <2>2, <2>5, <3>1, <3>2 DEF IInv, IdsAllocated
  <2>10. UniqueIds' /\ SweepBehind'
    BY <2>1 DEF IInv, UniqueIds, SweepBehind
  <2>11. JobsTrackMailbox'
    <3>1. \A v \in Workers : /\ job'[v].mailbox = job[v].mailbox
                             /\ job'[v].received = job[v].received
                             /\ job'[v] = job[v] \/ job'[v].pc = "count"
      BY <1>2, <2>2 DEF IInv, TypeOK, InboundTypeOK, JobState
    <3> QED
      BY <2>1, <3>1 DEF IInv, JobsTrackMailbox, Tracks
  <2> QED
    BY <2>6, <2>7, <2>8, <2>9, <2>10, <2>11 DEF IInv
<1> QED
  BY <1>1, <1>2 DEF SaveMessage, InsertMessage

\* A report is stored for a message that is there.
LEMMA SaveReportSafe ==
  ASSUME IInv, NEW w \in Workers, SaveReport(w), UNCHANGED <<now, sweep>>, TypeOK'
  PROVE  IInv'
<1>1. CASE Finish(w) /\ UNCHANGED Tables
  BY <1>1, FinishSafe DEF Tables
<1>2. CASE /\ HasMessage(job[w].message)
           /\ UpsertReport(job[w].message, job[w].score)
           /\ job' = [job EXCEPT ![w].pc = "nreports"]
  <2>1. UNCHANGED <<now, mailboxes, messages, seq, sweep>>
    BY <1>2 DEF UpsertReport
  <2>2. JobsTrackMailbox'
    BY <1>2, <2>1, StepSafe
  <2>3. ReferentialIntegrity'
    BY <1>2, <2>1 DEF IInv, ReferentialIntegrity, UpsertReport, HasMessage
  <2> QED
    BY <2>1, <2>2, <2>3 DEF IInv, SealedForOwner, ArrivalWindow, IdsAllocated, UniqueIds, SweepBehind
<1> QED
  BY <1>1, <1>2 DEF SaveReport

\* Every step of a delivery preserves the invariant.
LEMMA DeliverSafe ==
  ASSUME IInv, NEW w \in Workers, Deliver(w), TypeOK'
  PROVE  IInv'
<1>0. UNCHANGED <<now, sweep>>
  BY DEF Deliver
<1>w. /\ job[w] \in JobState /\ Tracks(job[w])
      /\ now \in Nat /\ seq.mailboxes \in Nat /\ ProcessTimeout \in Nat
  BY InboundAssumption DEF IInv, TypeOK, StoreTypeOK, InboundTypeOK, JobsTrackMailbox
<1>1. CASE isAllowedRecipient(w)
  <2>1. PICK b \in mailboxes :
          job' = [job EXCEPT ![w] = [IdleJob EXCEPT !.pc = "rcpt", !.token = b.token]]
    BY <1>1 DEF isAllowedRecipient
  <2>2. Tracks([IdleJob EXCEPT !.pc = "rcpt", !.token = b.token])
    BY <1>w DEF Tracks, IdleJob, ZeroTime
  <2> QED
    BY <1>0, <1>1, <2>1, <2>2, JobOnlySafe DEF isAllowedRecipient, Tables
<1>2. CASE LookupMailbox(w)
  <2>0. UNCHANGED <<now, mailboxes, messages, reports, seq, sweep>>
    BY <1>0, <1>2 DEF LookupMailbox, Tables
  <2>1. CASE Finish(w)
    BY <2>0, <2>1, FinishSafe
  <2>2. ASSUME NEW b \in mailboxes, now <= b.expires, Adopt(w, b) PROVE IInv'
    <3> DEFINE j == [job[w] EXCEPT !.pc = "auth", !.mailbox = b.id,
                                   !.key = IF b.token \in E2EKeys THEN b.token ELSE Plain,
                                   !.deadline = now + ProcessTimeout]
    <3>1. b.id <= seq.mailboxes /\ b.expires \in Nat /\ \A c \in mailboxes : c.id = b.id => c = b
      BY DEF IInv, TypeOK, StoreTypeOK, MailboxRow, IdsAllocated, UniqueIds
    <3>2. /\ j.mailbox = b.id /\ j.received = job[w].received
          /\ j.deadline = now + ProcessTimeout /\ (j.key # Plain => b.token = j.key)
      BY <1>w DEF JobState
    <3>3. job' = [job EXCEPT ![w] = j]
      BY <2>2 DEF Adopt
    <3> HIDE DEF j
    <3>4. Tracks(j)
      BY <1>w, <2>2, <3>1, <3>2 DEF Tracks
    <3> QED
      BY <2>0, <3>3, <3>4, JobOnlySafe
  <2> QED
    BY <1>2, <2>1, <2>2 DEF LookupMailbox, GetMailboxByToken
<1>3. CASE Enrich(w)
  <2> DEFINE j == [job[w] EXCEPT !.pc = "analyze", !.received = now]
  <2>1. /\ j.mailbox = job[w].mailbox /\ j.key = job[w].key
        /\ j.deadline = job[w].deadline /\ j.received = now
    BY <1>w DEF JobState
  <2>2. job' = [job EXCEPT ![w] = j] /\ UNCHANGED <<now, mailboxes, messages, reports, seq, sweep>>
    BY <1>0, <1>3 DEF Enrich, Tables
  <2> HIDE DEF j
  <2>3. Tracks(j)
    BY <1>w, <1>3, <2>1 DEF Tracks, Enrich, Busy
  <2> QED
    BY <2>2, <2>3, JobOnlySafe
<1>4. CASE AnalyzeAndSeal(w)
  <2>1. PICK score \in Scores :
          \/ job' = [job EXCEPT ![w] = [job[w] EXCEPT !.pc = "save", !.score = score, !.received = ZeroTime]]
          \/ job' = [job EXCEPT ![w] = [job[w] EXCEPT !.pc = "save", !.score = score, !.key = Plain]]
    BY <1>4 DEF AnalyzeAndSeal
  <2> DEFINE j == [job[w] EXCEPT !.pc = "save", !.score = score, !.received = ZeroTime]
             k == [job[w] EXCEPT !.pc = "save", !.score = score, !.key = Plain]
  <2>2. /\ j.mailbox = job[w].mailbox /\ j.key = job[w].key
        /\ j.deadline = job[w].deadline /\ j.received = -1
        /\ k.mailbox = job[w].mailbox /\ k.key = Plain
        /\ k.deadline = job[w].deadline /\ k.received = job[w].received
    BY <1>w DEF JobState, ZeroTime
  <2>3. UNCHANGED <<now, mailboxes, messages, reports, seq, sweep>>
    BY <1>0, <1>4 DEF AnalyzeAndSeal, Tables
  <2>4. (job' = [job EXCEPT ![w] = j]) \/ (job' = [job EXCEPT ![w] = k])
    BY <2>1
  <2> HIDE DEF j, k
  <2>5. Tracks(j) /\ Tracks(k)
    BY <1>w, <1>4, <2>2 DEF Tracks, AnalyzeAndSeal, Busy
  <2> QED
    BY <2>3, <2>4, <2>5, JobOnlySafe
<1>5. CASE SaveMessage(w)
  BY <1>0, <1>5, SaveMessageSafe
<1>6. CASE CountMessage(w)
  BY <1>0, <1>6, CountSafe DEF CountMessage
<1>7. CASE SaveReport(w)
  BY <1>0, <1>7, SaveReportSafe
<1>8. CASE CountReport(w)
  BY <1>0, <1>8, CountSafe DEF CountReport
<1>9. CASE CountScore(w)
  BY <1>0, <1>9, CountSafe DEF CountScore
<1>10. CASE DeliveryFails(w)
  BY <1>0, <1>10, FinishSafe, SMTT(20) DEF DeliveryFails, Tables
<1> QED
  BY <1>1, <1>2, <1>3, <1>4, <1>5, <1>6, <1>7, <1>8, <1>9, <1>10 DEF DeliveryStep, Deliver

\* Every statement of createMailbox preserves the invariant.
LEMMA CreateSafe ==
  ASSUME IInv, NEW r \in Requests, Create(r), TypeOK'
  PROVE  IInv'
<1>0. UNCHANGED <<now, job, sweep>> /\ SweepBehind'
  BY DEF Create, IInv, SweepBehind
<1>1. CASE UNCHANGED <<mailboxes, messages, reports, seq>>
  BY <1>0, <1>1, Untouched
<1>2. CASE DeleteExpired(r)
  BY <1>0, <1>2, DeletionSafe DEF DeleteExpired, IInv
<1>3. ASSUME NEW token, NEW ip, CreateMailbox(token, ip) PROVE IInv'
  BY <1>0, <1>3, CreationSafe DEF IInv
<1>4. CASE StoreOptIns(r)
  BY <1>0, <1>4, OptInSafe DEF StoreOptIns, IInv
<1> QED
  BY <1>1, <1>2, <1>3, <1>4
     DEF Create, CreationStep, CheckIPLimit, CheckGlobalLimit, LookupExisting, generateMailboxAddress,
         InsertMailbox, CountMailbox, incrCounter, RequestFails, Tables

\* Every step of the system preserves the invariant.
LEMMA NextSafe == IInv /\ [Next]_vars /\ TypeOK' => IInv'
<1> SUFFICES ASSUME IInv, [Next]_vars, TypeOK' PROVE IInv'
  OBVIOUS
<1>t. now \in Nat /\ Retention \in Nat
  BY StoreAssumption DEF IInv, TypeOK, StoreTypeOK
<1>1. ASSUME NEW r \in Requests, Create(r) PROVE IInv'
  BY <1>1, CreateSafe
<1>2. ASSUME NEW w \in Workers, Deliver(w) PROVE IInv'
  BY <1>2, DeliverSafe
<1>3. ASSUME NEW token \in Tokens, DeleteMailbox(token) PROVE IInv'
  BY <1>3, DeletionSafe DEF DeleteMailbox, IInv, SweepBehind
<1>4. CASE CleanupMessages
  <2> DEFINE gone == {m \in messages : m.received < now - Retention}
  <2>1. /\ messages' = messages \ gone
        /\ reports' = {p \in reports : \A m \in gone : m.id # p.message}
        /\ UNCHANGED <<mailboxes, seq, now, job>>
    BY <1>4 DEF CleanupMessages, DeleteMessages
  <2> HIDE DEF gone
  <2>2. ReferentialIntegrity'
    BY <2>1 DEF IInv, ReferentialIntegrity
  <2>3. SealedForOwner' /\ ArrivalWindow' /\ IdsAllocated' /\ UniqueIds' /\ JobsTrackMailbox'
    BY <2>1 DEF IInv, SealedForOwner, ArrivalWindow, IdsAllocated, UniqueIds, JobsTrackMailbox, Tracks
  <2>4. SweepBehind'
    BY <1>4, <1>t DEF CleanupMessages, SweepBehind
  <2> QED
    BY <2>2, <2>3, <2>4 DEF IInv
<1>5. CASE CleanupMailboxes
  <2>1. SweepBehind'
    BY <1>5 DEF CleanupMailboxes, IdleSweep, SweepBehind
  <2> QED
    BY <1>5, <2>1, DeletionSafe DEF CleanupMailboxes, IInv
<1>6. CASE CleanupFails
  <2>1. SweepBehind'
    BY <1>6 DEF CleanupFails, IdleSweep, SweepBehind
  <2> QED
    BY <1>6, <2>1 DEF CleanupFails, Tables, IInv, ReferentialIntegrity, SealedForOwner, ArrivalWindow,
                      IdsAllocated, UniqueIds, JobsTrackMailbox, Tracks
<1>7. CASE Restart
  <2>1. SweepBehind'
    BY <1>7 DEF Restart, IdleSweep, SweepBehind
  <2>2. \A w \in Workers : job'[w] = IdleJob
    BY <1>7 DEF Restart, NoJobs
  <2>3. Tracks(IdleJob)
    BY DEF IInv, TypeOK, StoreTypeOK, IdleJob, ZeroTime, Tracks
  <2>4. UNCHANGED <<now, mailboxes, messages, reports, seq>>
    BY <1>7 DEF Restart, Tables
  <2>5. JobsTrackMailbox'
    BY <2>2, <2>3, <2>4 DEF JobsTrackMailbox, Tracks
  <2> QED
    BY <2>1, <2>4, <2>5 DEF IInv, ReferentialIntegrity, SealedForOwner, ArrivalWindow, IdsAllocated, UniqueIds
<1>8. CASE Tick
  <2>1. now' = now + 1 /\ UNCHANGED <<mailboxes, messages, reports, seq, job, sweep>>
    BY <1>8 DEF Tick, Tables
  <2>2. SweepBehind'
    BY <1>t, <2>1 DEF IInv, TypeOK, SweepBehind
  <2>3. JobsTrackMailbox'
    <3>1. \A w \in Workers : job[w].received \in Int
      BY DEF IInv, TypeOK, InboundTypeOK, JobState, ZeroTime
    <3> QED
      BY <1>t, <2>1, <3>1 DEF IInv, JobsTrackMailbox, Tracks
  <2> QED
    BY <2>1, <2>2, <2>3
       DEF IInv, ReferentialIntegrity, SealedForOwner, ArrivalWindow, IdsAllocated, UniqueIds
<1>9. CASE UNCHANGED vars
  BY <1>9, Untouched, SMTT(20) DEF vars, storeVars, Tables
<1> QED
  BY <1>1, <1>2, <1>3, <1>4, <1>5, <1>6, <1>7, <1>8, <1>9 DEF Next

\* The empty database satisfies the invariant.
LEMMA InitSafe == Init /\ TypeOK => IInv
  BY DEF Init, StoreInit, InboundInit, NoJobs, IdleJob, ZeroTime, IdleSweep, IInv, ReferentialIntegrity,
         SealedForOwner, ArrivalWindow, IdsAllocated, UniqueIds, JobsTrackMailbox, Tracks, SweepBehind

\* The invariant holds in every reachable state.
LEMMA Inductive == Spec => []IInv
  BY TypeCorrect, InitSafe, NextSafe, PTL DEF Spec

----------------------------------------------------------------------------
(* The safety properties *)

\* Messages always belong to stored mailboxes and reports to stored messages.
THEOREM Integrity == Spec => []ReferentialIntegrity
<1>1. IInv => ReferentialIntegrity
  BY DEF IInv
<1> QED
  BY <1>1, Inductive, PTL

\* A sealed message is always stored under the mailbox whose key sealed it.
THEOREM Sealing == Spec => []SealedForOwner
<1>1. IInv => SealedForOwner
  BY DEF IInv
<1> QED
  BY <1>1, Inductive, PTL

\* No stored message arrived later than the processing time of processInbound
\* after the end of its mailbox's receiving window.
THEOREM Arrival == Spec => []ArrivalWindow
<1>1. IInv => ArrivalWindow
  BY DEF IInv
<1> QED
  BY <1>1, Inductive, PTL

\* What Cleanup deletes, by itself or through the cascade, has been kept for
\* the retention window less the processing time of processInbound.
THEOREM RetentionKept == Spec => RetentionHonoured
<1> DEFINE Kept == sweep' # sweep =>
             \A m \in messages \ messages' : now + ProcessTimeout > m.received + Retention
<1>1. IInv /\ [Next]_vars => [Kept]_vars
  <2> SUFFICES ASSUME IInv, Next, sweep' # sweep, NEW m \in messages, m \notin messages'
               PROVE  now + ProcessTimeout > m.received + Retention
    BY DEF vars
  <2>1. now \in Nat /\ Retention \in Nat /\ ProcessTimeout \in Nat /\ m.received \in Nat
        /\ sweep.cutoff \in Int
    BY StoreAssumption, InboundAssumption DEF IInv, TypeOK, StoreTypeOK, MessageRow
  <2>2. CASE CleanupMessages
    BY <2>1, <2>2 DEF CleanupMessages, DeleteMessages
  <2>3. CASE CleanupMailboxes
    <3>1. PICK b \in mailboxes : b.expires < sweep.cutoff /\ b.id = m.mailbox
      BY <2>3 DEF CleanupMailboxes, DeleteMailboxes
    <3>2. b.expires \in Nat /\ m.received <= b.expires + ProcessTimeout
      BY <3>1 DEF IInv, ArrivalWindow, TypeOK, StoreTypeOK, MailboxRow
    <3>3. sweep.cutoff <= now - Retention
      BY <2>3 DEF CleanupMailboxes, IInv, SweepBehind
    <3> QED
      BY <2>1, <3>1, <3>2, <3>3
  <2>4. CASE CleanupFails \/ Restart
    BY <2>4 DEF CleanupFails, Restart, Tables
  <2> QED
    BY <2>2, <2>3, <2>4 DEF Next, Create, Deliver, DeleteMailbox, Tick
<1> QED
  BY <1>1, Inductive, PTL DEF Spec, RetentionHonoured

=============================================================================
