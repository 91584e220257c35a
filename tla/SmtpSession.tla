---------------------------- MODULE SmtpSession ----------------------------
(***************************************************************************)
(* internal/smtp handleConn: the command loop of one connection, with the  *)
(* recipient check and the mail handler main.go plugs into it.  A command  *)
(* is one step, except DATA: the text is read, then each recipient is      *)
(* handed to HandleMail in a step of its own, while mailboxes come and go. *)
(***************************************************************************)
EXTENDS Naturals, Sequences

CONSTANTS
  Boxes,        \* recipient addresses clients name
  TLSConfig,    \* is a certificate loaded?
  MaxRcpts,     \* bound: RCPT commands of one envelope (the code has none)
  ReadAhead     \* bound: commands left in the bufio.Reader at the deadline

ASSUME SessionAssumption ==
  TLSConfig \in BOOLEAN /\ MaxRcpts \in Nat \ {0} /\ ReadAhead \in Nat

VARIABLES
  active,     \* the boxes AllowRecipient accepts now
  st,         \* where handleConn is
  reply,      \* the last reply code
  helo,       \* helo # ""
  mailFrom,   \* mailFrom # ""
  rcptTo,
  isTLS,
  sent,       \* recipients of the current message handed to HandleMail
  deadline,   \* the connection's three minutes
  buffered    \* commands that can still be read once the deadline has passed

session == <<st, reply, helo, mailFrom, rcptTo, isTLS, sent>>
vars == <<active, session, deadline, buffered>>

TypeOK ==
  /\ active \subseteq Boxes
  /\ st \in {"accepted", "command", "text", "handling", "closed"}
  /\ reply \in {0, 220, 221, 250, 354, 451, 500, 501, 502, 503, 550, 552}
  /\ helo \in BOOLEAN /\ mailFrom \in BOOLEAN /\ isTLS \in BOOLEAN
  /\ rcptTo \in Seq(Boxes)
  /\ sent \in 0..Len(rcptTo)
  /\ deadline \in {"unset", "armed", "passed"}
  /\ buffered \in 0..ReadAhead

Init ==
  /\ active \in SUBSET Boxes
  /\ st = "accepted" /\ reply = 0
  /\ helo = FALSE /\ mailFrom = FALSE /\ rcptTo = <<>> /\ isTLS = FALSE
  /\ sent = 0
  /\ deadline = "unset" /\ buffered \in 0..ReadAhead

----------------------------------------------------------------------------
\* One of the two limiters refuses the address.
RateLimited ==
  /\ st = "accepted"
  /\ st' = "closed" /\ reply' = 451
  /\ UNCHANGED <<active, helo, mailFrom, rcptTo, isTLS, sent, deadline, buffered>>

\* Fault variant: the session has no deadline.
Welcome_NoDeadline ==
  /\ st = "accepted"
  /\ st' = "command" /\ reply' = 220
  /\ UNCHANGED <<active, helo, mailFrom, rcptTo, isTLS, sent, deadline, buffered>>

Welcome ==
  /\ st = "accepted"
  /\ st' = "command" /\ reply' = 220 /\ deadline' = "armed"
  /\ UNCHANGED <<active, helo, mailFrom, rcptTo, isTLS, sent, buffered>>

\* r.ReadString: after the deadline only what is already buffered is read.
ReadLine(where) ==
  /\ st = where
  /\ deadline = "passed" => buffered > 0
  /\ buffered' = IF deadline = "passed" THEN buffered - 1 ELSE buffered
  /\ UNCHANGED <<active, deadline>>

\* The client hangs up, or the read runs into the deadline: no reply.  While
\* the text is read, an error is answered and the command loop reads again.
ReadError ==
  /\ st \in {"command", "text"}
  /\ IF st = "command" THEN st' = "closed" /\ UNCHANGED reply
                       ELSE st' = "command" /\ reply' = 552
  /\ UNCHANGED <<active, helo, mailFrom, rcptTo, isTLS, sent, deadline, buffered>>

Ehlo ==
  /\ ReadLine("command")
  /\ helo' = TRUE /\ reply' = 250
  /\ UNCHANGED <<st, mailFrom, rcptTo, isTLS, sent>>

StartTLSRefused ==
  /\ ReadLine("command")
  /\ ~TLSConfig \/ isTLS
  /\ reply' = IF ~TLSConfig THEN 502 ELSE 503
  /\ UNCHANGED <<st, helo, mailFrom, rcptTo, isTLS, sent>>

\* Fault variant: the envelope survives the handshake.
StartTLS_KeepsEnvelope ==
  /\ ReadLine("command")
  /\ TLSConfig /\ ~isTLS
  /\ reply' = 220
  /\ \/ st' = "closed" /\ UNCHANGED <<helo, mailFrom, rcptTo, isTLS>>
     \/ /\ deadline # "passed"
        /\ isTLS' = TRUE /\ helo' = FALSE /\ UNCHANGED <<st, mailFrom, rcptTo>>
  /\ UNCHANGED sent

\* The handshake fails and ends the session, or the session starts afresh;
\* what the plain connection had buffered is dropped with its reader.
StartTLS ==
  /\ ReadLine("command")
  /\ TLSConfig /\ ~isTLS
  /\ reply' = 220
  /\ \/ st' = "closed" /\ UNCHANGED <<helo, mailFrom, rcptTo, isTLS>>
     \/ /\ deadline # "passed"
        /\ isTLS' = TRUE /\ helo' = FALSE /\ mailFrom' = FALSE /\ rcptTo' = <<>>
        /\ UNCHANGED st
  /\ UNCHANGED sent

\* MAIL FROM:<> is accepted, but leaves the sender empty.
MailFrom ==
  /\ ReadLine("command")
  /\ mailFrom' \in BOOLEAN
  /\ rcptTo' = <<>> /\ reply' = 250
  /\ UNCHANGED <<st, helo, isTLS, sent>>

\* No address, an address of another domain, without an active mailbox, or
\* one the store cannot look up.
RcptRefused ==
  /\ ReadLine("command")
  /\ reply' \in {501, 550}
  /\ UNCHANGED <<st, helo, mailFrom, rcptTo, isTLS, sent>>

\* RCPT does not ask for a preceding MAIL.
RcptTo(b) ==
  /\ ReadLine("command")
  /\ Len(rcptTo) < MaxRcpts
  /\ b \in active
  /\ rcptTo' = Append(rcptTo, b) /\ reply' = 250
  /\ UNCHANGED <<st, helo, mailFrom, isTLS, sent>>

DataRefused ==
  /\ ReadLine("command")
  /\ ~mailFrom \/ rcptTo = <<>>
  /\ reply' = 503
  /\ UNCHANGED <<st, helo, mailFrom, rcptTo, isTLS, sent>>

Data ==
  /\ ReadLine("command")
  /\ mailFrom /\ rcptTo # <<>>
  /\ st' = "text" /\ reply' = 354
  /\ UNCHANGED <<helo, mailFrom, rcptTo, isTLS, sent>>

\* readData reaches the lone dot, or the text is too large and its remaining
\* lines are left to be read as commands.
ReadData ==
  /\ ReadLine("text")
  /\ \/ st' = "handling" /\ UNCHANGED reply
     \/ st' = "command" /\ reply' = 552
  /\ UNCHANGED <<helo, mailFrom, rcptTo, isTLS, sent>>

\* Fault variant: the loop runs once more after the last recipient.
HandleMail_Overrun ==
  /\ st = "handling"
  /\ sent <= Len(rcptTo)
  /\ sent' = sent + 1
  /\ UNCHANGED <<active, st, reply, helo, mailFrom, rcptTo, isTLS, deadline, buffered>>

\* HandleMail for the next recipient; its error is logged and the loop goes on.
HandleMail ==
  /\ st = "handling"
  /\ sent < Len(rcptTo)
  /\ sent' = sent + 1
  /\ UNCHANGED <<active, st, reply, helo, mailFrom, rcptTo, isTLS, deadline, buffered>>

\* A handler that panics ends the connection without a reply.
HandlerPanics ==
  /\ st = "handling"
  /\ sent < Len(rcptTo)
  /\ st' = "closed"
  /\ UNCHANGED <<active, reply, helo, mailFrom, rcptTo, isTLS, sent, deadline, buffered>>

\* 250 after the last recipient; sender and recipients are kept.
Queued ==
  /\ st = "handling"
  /\ sent = Len(rcptTo)
  /\ st' = "command" /\ reply' = 250 /\ sent' = 0
  /\ UNCHANGED <<active, helo, mailFrom, rcptTo, isTLS, deadline, buffered>>

Rset ==
  /\ ReadLine("command")
  /\ mailFrom' = FALSE /\ rcptTo' = <<>> /\ reply' = 250
  /\ UNCHANGED <<st, helo, isTLS, sent>>

\* NOOP, and commands that are not recognised.
Other ==
  /\ ReadLine("command")
  /\ reply' \in {250, 500}
  /\ UNCHANGED <<st, helo, mailFrom, rcptTo, isTLS, sent>>

Quit ==
  /\ ReadLine("command")
  /\ st' = "closed" /\ reply' = 221
  /\ UNCHANGED <<helo, mailFrom, rcptTo, isTLS, sent>>

\* Mailboxes are created, expire and are deleted behind the session's back.
MailboxesChange ==
  /\ active' \in SUBSET Boxes \ {active}
  /\ UNCHANGED <<session, deadline, buffered>>

DeadlinePasses ==
  /\ deadline = "armed"
  /\ deadline' = "passed"
  /\ UNCHANGED <<active, session, buffered>>

Command ==
  \/ Ehlo \/ StartTLSRefused \/ StartTLS \/ MailFrom \/ RcptRefused \/ DataRefused
  \/ Data \/ ReadData \/ Rset \/ Other \/ Quit
  \/ \E b \in Boxes : RcptTo(b)

Next ==
  \/ RateLimited \/ Welcome \/ Command \/ ReadError
  \/ HandleMail \/ HandlerPanics \/ Queued
  \/ MailboxesChange \/ DeadlinePasses

Spec == Init /\ [][Next]_vars

\* The goroutine keeps running, the clock advances, a read past the deadline
\* fails.  Nothing is assumed of the client.
Fairness ==
  /\ WF_vars(RateLimited \/ Welcome)
  /\ WF_vars(HandleMail) /\ WF_vars(Queued)
  /\ WF_vars(DeadlinePasses)
  /\ WF_vars(deadline = "passed" /\ (ReadError \/ Command))

FairSpec == Spec /\ Fairness

----------------------------------------------------------------------------
\* The transaction a client has open, as MailTransaction sees it: before the
\* sender is known there is none, whatever recipients were named.
inTransaction == mailFrom /\ st # "closed"

T == INSTANCE MailTransaction WITH
       accepting <- active, secure <- isTLS, greeted <- helo,
       open      <- inTransaction,
       rcpts     <- IF inTransaction THEN rcptTo ELSE <<>>,
       handing   <- st = "handling",
       handed    <- IF inTransaction THEN sent ELSE 0

\* The command loop implements mail transactions: recipients belong to the
\* MAIL they follow and were accepted when named, TLS starts from nothing, and
\* the 250 after DATA comes only after every recipient was handed to HandleMail.
ImplementsTransaction == T!Spec

\* Every connection ends, whatever the client does: the three-minute deadline
\* ends a session that is idle, stalls in the text or never stops talking.
SessionEnds == <>(st = "closed")

=============================================================================
