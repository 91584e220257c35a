------------------------------ MODULE ReportApi ------------------------------
(***************************************************************************)
(* What a reader does with a mailbox and its report over HTTP              *)
(* (internal/web/server.go): choosing third-party checks, activating one   *)
(* from the report, storing the result of rechecks, deleting the mailbox,  *)
(* and the status stream of the waiting page.  One mailbox with one        *)
(* end-to-end encrypted message; a row is rewritten by whole statements,   *)
(* and a handler that reads first and writes later takes two steps.        *)
(***************************************************************************)
EXTENDS Integers, Sequences, FiniteSets

CONSTANTS Requests,   \* concurrent HTTP requests
          OptIns,     \* the third-party checks a mailbox can opt into
          MaxEvents   \* things clients, operators and the network do

VARIABLES
  events,    \* how many of them happened
  mailbox,   \* [alive, flags]: the mailbox row
  message,   \* [stored, payload, report]: who wrote the ciphertext and the score
  req,       \* req[r]: the handler of request r
  stream,    \* [open, shown]: the status stream
  wanted,    \* history: the checks the reader wants now
  chosen,    \* history: the checks the reader ever asked for
  mixed      \* history: two stores of recheck results overlapped, or one broke off

apiVars == <<events, mailbox, message, req, stream, wanted, chosen, mixed>>

None == "none"
Analysis == "analysis"
Writers == Requests \cup {Analysis, None}

ASSUME RequestAssumption == None \notin Requests

ApiTypeOK ==
  /\ events \in 0..MaxEvents
  /\ mailbox \in [alive : BOOLEAN, flags : SUBSET OptIns]
  /\ message \in [stored : BOOLEAN, payload : Writers, report : Writers]
  /\ req \in [Requests -> [pc : {"idle", "activate", "payload", "score"},
                           flags : SUBSET OptIns, check : OptIns \cup {None}]]
  /\ stream \in [open : BOOLEAN, shown : Writers]
  /\ wanted \subseteq OptIns /\ chosen \subseteq OptIns
  /\ mixed \in BOOLEAN

IdleReq == [pc |-> "idle", flags |-> {}, check |-> None]
NoMessage == [stored |-> FALSE, payload |-> None, report |-> None]
NoRequests == [r \in Requests |-> IdleReq]
Closed == [open |-> FALSE, shown |-> None]

ApiInit ==
  /\ events = 0
  /\ mailbox = [alive |-> TRUE, flags |-> {}] /\ message = NoMessage
  /\ req = NoRequests /\ stream = Closed
  /\ wanted = {} /\ chosen = {} /\ mixed = FALSE

Event == events < MaxEvents /\ events' = events + 1

InFlight == \E r \in Requests : req[r].pc # "idle"

-----------------------------------------------------------------------------
\* processInbound stores the message, then its report.
Arrive ==
  /\ Event
  /\ mailbox.alive /\ ~message.stored
  /\ message' = [stored |-> TRUE, payload |-> Analysis, report |-> None]
  /\ UNCHANGED <<mailbox, req, stream, wanted, chosen, mixed>>

ReportStored ==
  /\ message.stored /\ message.report = None
  /\ message' = [message EXCEPT !.report = Analysis]
  /\ UNCHANGED <<events, mailbox, req, stream, wanted, chosen, mixed>>

\* POST checks: the whole choice in one UPDATE.
SaveChecks(flags) ==
  /\ Event
  /\ mailbox.alive
  /\ mailbox' = [mailbox EXCEPT !.flags = flags]
  /\ wanted' = flags /\ chosen' = chosen \cup flags
  /\ UNCHANGED <<message, req, stream, mixed>>

\* recheckAPI with activate=1: the handler reads the row ...
ActivateRead(r, check) ==
  /\ Event
  /\ req[r].pc = "idle" /\ mailbox.alive
  /\ req' = [req EXCEPT ![r] = [pc |-> "activate", flags |-> mailbox.flags, check |-> check]]
  /\ chosen' = chosen \cup {check}
  /\ UNCHANGED <<mailbox, message, stream, wanted, mixed>>

\* Fault variant: activating one check turns all of them on.
ActivateWrite_All(r) ==
  /\ req[r].pc = "activate"
  /\ mailbox' = IF mailbox.alive THEN [mailbox EXCEPT !.flags = OptIns] ELSE mailbox
  /\ wanted' = wanted \cup {req[r].check}
  /\ req' = [req EXCEPT ![r] = IdleReq]
  /\ UNCHANGED <<events, message, stream, chosen, mixed>>

\* ... and writes all flags, the other ones as it read them.  An UPDATE that
\* meets no row is ignored; the recheck itself stores nothing.
ActivateWrite(r) ==
  /\ req[r].pc = "activate"
  /\ mailbox' = IF mailbox.alive
                THEN [mailbox EXCEPT !.flags = req[r].flags \cup {req[r].check}] ELSE mailbox
  /\ wanted' = wanted \cup {req[r].check}
  /\ req' = [req EXCEPT ![r] = IdleReq]
  /\ UNCHANGED <<events, message, stream, chosen, mixed>>

-----------------------------------------------------------------------------
\* recheckPersistAPI: mailbox and encrypted message are found, the body is good.
PersistStart(r) ==
  /\ Event
  /\ req[r].pc = "idle" /\ mailbox.alive /\ message.stored
  /\ req' = [req EXCEPT ![r].pc = "payload"]
  /\ UNCHANGED <<mailbox, message, stream, wanted, chosen, mixed>>

\* UpdateMessagePayloadEnc; without the row the handler answers an error.
PersistPayload(r) ==
  /\ req[r].pc = "payload"
  /\ IF message.stored
     THEN /\ message' = [message EXCEPT !.payload = r]
          /\ req' = [req EXCEPT ![r].pc = "score"]
          /\ mixed' = (mixed \/ \E q \in Requests : req[q].pc = "score")
     ELSE req' = [req EXCEPT ![r] = IdleReq] /\ UNCHANGED <<message, mixed>>
  /\ UNCHANGED <<events, mailbox, stream, wanted, chosen>>

\* Fault variant: the score is stored only for a report the analysis wrote.
PersistScore_Once(r) ==
  /\ req[r].pc = "score"
  /\ message' = IF message.report = Analysis THEN [message EXCEPT !.report = r] ELSE message
  /\ req' = [req EXCEPT ![r] = IdleReq]
  /\ UNCHANGED <<events, mailbox, stream, wanted, chosen, mixed>>

\* UpdateReportScoreChecks with the score derived from the checks; a report that
\* is not there (yet) is an error and leaves the new ciphertext alone.
PersistScore(r) ==
  /\ req[r].pc = "score"
  /\ IF message.report # None
     THEN message' = [message EXCEPT !.report = r] /\ UNCHANGED mixed
     ELSE UNCHANGED message /\ mixed' = TRUE
  /\ req' = [req EXCEPT ![r] = IdleReq]
  /\ UNCHANGED <<events, mailbox, stream, wanted, chosen>>

\* A failing statement ends either handler with an error.
RequestFails(r) ==
  /\ Event
  /\ req[r].pc \in {"activate", "payload", "score"}
  /\ mixed' = (mixed \/ req[r].pc = "score")
  /\ req' = [req EXCEPT ![r] = IdleReq]
  /\ UNCHANGED <<mailbox, message, stream, wanted, chosen>>

\* POST delete: message and report go with the mailbox.
DeleteMailbox ==
  /\ Event
  /\ mailbox.alive
  /\ mailbox' = [alive |-> FALSE, flags |-> {}] /\ message' = NoMessage
  /\ UNCHANGED <<req, stream, wanted, chosen, mixed>>

-----------------------------------------------------------------------------
\* mailboxStatusPayload: no message, a message, or a message with its score.
Status == IF message.stored THEN message.report ELSE None

\* mailboxEvents: sends on connect and then whenever the ticker finds a change.
OpenStream ==
  /\ Event
  /\ mailbox.alive /\ ~stream.open
  /\ stream' = [open |-> TRUE, shown |-> Status]
  /\ UNCHANGED <<mailbox, message, req, wanted, chosen, mixed>>

\* Fault variant: once a score was shown the stream sends nothing more.
StreamTick_OneScore ==
  /\ stream.open /\ stream.shown # Status /\ stream.shown = None
  /\ stream' = [stream EXCEPT !.shown = Status]
  /\ UNCHANGED <<events, mailbox, message, req, wanted, chosen, mixed>>

StreamTick ==
  /\ stream.open /\ stream.shown # Status
  /\ stream' = [stream EXCEPT !.shown = Status]
  /\ UNCHANGED <<events, mailbox, message, req, wanted, chosen, mixed>>

\* The client leaves, a query fails or the write deadline passes.  The deletion
\* of the mailbox does not end the stream.
CloseStream ==
  /\ Event
  /\ stream.open
  /\ stream' = Closed
  /\ UNCHANGED <<mailbox, message, req, wanted, chosen, mixed>>

-----------------------------------------------------------------------------
\* What runs only as long as the HTTP server accepts requests.
NewRequest ==
  \/ \E flags \in SUBSET OptIns : SaveChecks(flags)
  \/ \E r \in Requests, check \in OptIns : ActivateRead(r, check)
  \/ \E r \in Requests : PersistStart(r)
  \/ DeleteMailbox \/ OpenStream

\* What goes on after that.
HandlerStep ==
  \/ \E r \in Requests : ActivateWrite(r) \/ PersistPayload(r) \/ PersistScore(r) \/ RequestFails(r)
  \/ StreamTick \/ CloseStream

\* No third-party check without consent: a check is on only if the reader asked
\* for it at some time, whatever activations, choices and failures overlap.
ConsentGiven == mailbox.flags \subseteq chosen

\* Consent can be revoked at any time: a check the reader has deselected, and not
\* asked for since, is off.  An activation asks for its own check when it writes.
ConsentKept == mailbox.flags \subseteq wanted

\* The score shown in the clear is the score of the ciphertext: unless two stores
\* overlapped or one broke off between its two statements, the two agree whenever
\* none is under way.
ScoreMatchesPayload ==
  message.stored /\ message.report # None /\ ~mixed /\ (\A r \in Requests : req[r].pc # "score") =>
    message.report = message.payload
=============================================================================
