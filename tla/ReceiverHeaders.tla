--------------------------- MODULE ReceiverHeaders ---------------------------
(***************************************************************************)
(* The header lines this server puts in front of a message it receives and *)
(* takes off again before it checks a stored one anew                      *)
(* (cmd/sender-report/auth.go).  A header is its name, whether its value   *)
(* names this server in the way the code looks for ("host;" in front,      *)
(* " by host with " or "receiver=host" in it), and the value the checks    *)
(* read from it.                                                           *)
(***************************************************************************)
EXTENDS Sequences, SequencesExt

Header(name, own, value) == [name |-> name, own |-> own, value |-> value]
proto(tls) == IF tls THEN "ESMTPS" ELSE "ESMTP"

\* enrichWithReceiverAuthHeaders: Received, Authentication-Results, Received-SPF
\* and the detail lines, in front of what is there.
enrichWithReceiverAuthHeaders(headers, tls, verdict) ==
  <<Header("received", TRUE, proto(tls)), Header("authentication-results", TRUE, verdict),
    Header("received-spf", TRUE, verdict), Header("x-sender-report-detail", TRUE, verdict)>>
  \o headers

OwnReceived(h) == h.own /\ h.name = "received"

\* The result lines of this server; an X-Sender-Report line is one whoever wrote it.
ResultLine(h) ==
  \/ h.name = "x-sender-report-detail"
  \/ h.own /\ h.name \in {"authentication-results", "received-spf"}

\* Fault variant: every Received line of this server is taken off, the last one
\* tells how the message was delivered.
stripReceiverHeaders_AllReceived(headers) ==
  [clean |-> SelectSeq(headers, LAMBDA h : ~ResultLine(h) /\ ~OwnReceived(h)),
   tls |-> LET i == SelectLastInSeq(headers, OwnReceived)
           IN  i # 0 /\ headers[i].value = proto(TRUE)]

\* Takes off every result line, and of this server's Received lines only the
\* first, which also tells whether the delivery was encrypted.
stripReceiverHeaders(headers) ==
  [clean |-> SelectSeq(RemoveFirstMatch(headers, OwnReceived), LAMBDA h : ~ResultLine(h)),
   tls |-> LET i == SelectInSeq(headers, OwnReceived)
           IN  i # 0 /\ headers[i].value = proto(TRUE)]
=============================================================================
