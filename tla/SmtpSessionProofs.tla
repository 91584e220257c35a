------------------------- MODULE SmtpSessionProofs -------------------------
(***************************************************************************)
(* The command loop implements mail transactions for any set of addresses, *)
(* any envelope size and any read-ahead, with or without a certificate.    *)
(***************************************************************************)
EXTENDS SmtpSession, TLAPS

\* Envelope, reply and progress of a session stay well-formed; in particular
\* the recipient loop of DATA never runs past the recipients of the envelope.
\* While no message is being handed over the loop counter is zero, and a
\* message is only read or handed over inside an open envelope.
SessionInv ==
  /\ TypeOK
  /\ (st \in {"accepted", "command", "text"}) => sent = 0
  /\ (st \in {"text", "handling"}) => (mailFrom /\ rcptTo # <<>>)

\* The first states satisfy the session invariant.
LEMMA InitInv == Init => SessionInv
<1>1. <<>> \in Seq(Boxes) /\ Len(<<>>) = 0
  OBVIOUS
<1>2. Init => helo \in BOOLEAN /\ mailFrom \in BOOLEAN /\ isTLS \in BOOLEAN
  BY Zenon DEF Init
<1> QED BY <1>1, <1>2, SessionAssumption DEF Init, SessionInv, TypeOK

\* Every step keeps the session invariant.
LEMMA NextInv == SessionInv /\ [Next]_vars => SessionInv'
<1> SUFFICES ASSUME SessionInv, [Next]_vars PROVE SessionInv'
  OBVIOUS
<1>e. <<>> \in Seq(Boxes) /\ Len(<<>>) = 0
  OBVIOUS
<1>b. helo \in BOOLEAN /\ mailFrom \in BOOLEAN /\ isTLS \in BOOLEAN
  <2>1. TypeOK BY DEF SessionInv
  <2> QED BY <2>1, ZenonT(40) DEF TypeOK
<1>s. StartTLS => helo' \in BOOLEAN /\ mailFrom' \in BOOLEAN /\ isTLS' \in BOOLEAN
  BY <1>b, Zenon DEF StartTLS
<1>m. Rset => mailFrom' \in BOOLEAN
  BY Zenon DEF Rset
<1> USE SessionAssumption DEF SessionInv, TypeOK, ReadLine
<1>1. CASE RateLimited BY <1>1 DEF RateLimited
<1>2. CASE Welcome BY <1>2 DEF Welcome
<1>3. CASE ReadError BY <1>3 DEF ReadError
<1>4. CASE Ehlo BY <1>4 DEF Ehlo
<1>5. CASE StartTLSRefused BY <1>5 DEF StartTLSRefused
<1>6. CASE StartTLS
  <2>1. CASE st' = "closed"
    BY <1>6, <1>s, <2>1 DEF StartTLS
  <2>2. CASE st' = "command" /\ rcptTo' = <<>>
    BY <1>6, <1>s, <2>2, <1>e DEF StartTLS
  <2> QED BY <1>6, <2>1, <2>2 DEF StartTLS
<1>7. CASE MailFrom BY <1>7, <1>e DEF MailFrom
<1>8. CASE RcptRefused BY <1>8 DEF RcptRefused
<1>9. ASSUME NEW b \in Boxes, RcptTo(b) PROVE SessionInv'
  BY <1>9 DEF RcptTo
<1>10. CASE DataRefused BY <1>10 DEF DataRefused
<1>11. CASE Data BY <1>11 DEF Data
<1>12. CASE ReadData BY <1>12 DEF ReadData
<1>13. CASE HandleMail BY <1>13 DEF HandleMail
<1>14. CASE HandlerPanics BY <1>14 DEF HandlerPanics
<1>15. CASE Queued BY <1>15 DEF Queued
<1>16. CASE Rset BY <1>16, <1>m, <1>e DEF Rset
<1>17. CASE Other BY <1>17 DEF Other
<1>18. CASE Quit BY <1>18 DEF Quit
<1>19. CASE MailboxesChange BY <1>19 DEF MailboxesChange, session
<1>20. CASE DeadlinePasses BY <1>20 DEF DeadlinePasses, session
<1>21. CASE UNCHANGED vars BY <1>21 DEF vars, session
<1> HIDE SessionAssumption DEF SessionInv, TypeOK, ReadLine
<1> QED
  BY <1>1, <1>2, <1>3, <1>4, <1>5, <1>6, <1>7, <1>8, <1>9, <1>10, <1>11, <1>12, <1>13,
     <1>14, <1>15, <1>16, <1>17, <1>18, <1>19, <1>20, <1>21, Zenon DEF Next, Command

\* The session invariant holds in every reachable state.
THEOREM SessionInvariant == Spec => []SessionInv
  BY InitInv, NextInv, PTL DEF Spec

\* The variables of handleConn keep their types, and the recipient loop of a
\* message never runs past the recipients of its envelope.
THEOREM SessionTypes == Spec => []TypeOK
<1>1. SessionInv => TypeOK BY DEF SessionInv
<1> QED BY <1>1, SessionInvariant, PTL

----------------------------------------------------------------------------
\* The transaction the first state maps to is the empty one.
LEMMA InitSimulates == Init => T!Init
  BY Zenon DEF Init, inTransaction, T!Init, T!NoTransaction

\* Every step of the command loop is a step of a mail transaction or none.
LEMMA NextSimulates == SessionInv /\ [Next]_vars => [T!Next]_(T!vars)
<1> SUFFICES ASSUME SessionInv, [Next]_vars PROVE T!Next \/ UNCHANGED T!vars
  OBVIOUS
<1> USE DEF inTransaction, T!vars, T!NoTransaction, ReadLine
<1>1. CASE RateLimited
  BY <1>1 DEF RateLimited, T!Next, T!Abandon
<1>2. CASE Welcome
  BY <1>2 DEF Welcome
<1>3. CASE ReadError
  BY <1>3 DEF ReadError, T!Next, T!Abandon
<1>4. CASE Ehlo
  BY <1>4 DEF Ehlo, T!Next, T!Greet
<1>5. CASE StartTLSRefused
  BY <1>5 DEF StartTLSRefused
<1>6. CASE StartTLS
  <2>1. CASE st' = "closed"
    BY <1>6, <2>1 DEF StartTLS, T!Next, T!Abandon
  <2>2. CASE st' # "closed"
    BY <1>6, <2>2 DEF StartTLS, T!Next, T!Secure
  <2> QED BY <2>1, <2>2
<1>7. CASE MailFrom
  <2>1. sent = 0 BY <1>7 DEF MailFrom, SessionInv
  <2>2. CASE mailFrom'
    BY <1>7, <2>1, <2>2 DEF MailFrom, T!Next, T!Begin
  <2>3. CASE ~mailFrom'
    BY <1>7, <2>3 DEF MailFrom, T!Next, T!Abandon
  <2> QED BY <2>2, <2>3
<1>8. CASE RcptRefused
  BY <1>8 DEF RcptRefused
<1>9. ASSUME NEW b \in Boxes, RcptTo(b) PROVE T!Next \/ UNCHANGED T!vars
  <2>1. CASE mailFrom
    BY <1>9, <2>1 DEF RcptTo, T!AddRecipient, T!Next
  <2>2. CASE ~mailFrom
    BY <1>9, <2>2 DEF RcptTo
  <2> QED BY <2>1, <2>2
<1>10. CASE DataRefused
  BY <1>10 DEF DataRefused
<1>11. CASE Data
  BY <1>11 DEF Data
<1>12. CASE ReadData
  <2>1. mailFrom /\ rcptTo # <<>> BY <1>12 DEF ReadData, SessionInv
  <2>2. CASE st' = "handling"
    BY <1>12, <2>1, <2>2 DEF ReadData, T!Next, T!StartHanding
  <2>3. CASE st' = "command"
    BY <1>12, <2>1, <2>3 DEF ReadData
  <2> QED BY <1>12, <2>2, <2>3 DEF ReadData
<1>13. CASE HandleMail
  <2>1. mailFrom BY <1>13 DEF HandleMail, SessionInv
  <2> QED BY <1>13, <2>1 DEF HandleMail, T!Next, T!Hand
<1>14. CASE HandlerPanics
  BY <1>14 DEF HandlerPanics, T!Next, T!Abandon
<1>15. CASE Queued
  <2>1. mailFrom BY <1>15 DEF Queued, SessionInv
  <2> QED BY <1>15, <2>1 DEF Queued, T!Next, T!Acknowledge
<1>16. CASE Rset
  BY <1>16 DEF Rset, T!Next, T!Abandon
<1>17. CASE Other
  BY <1>17 DEF Other
<1>18. CASE Quit
  BY <1>18 DEF Quit, T!Next, T!Abandon
<1>19. CASE MailboxesChange
  BY <1>19 DEF MailboxesChange, session, T!Next, T!Accepting
<1>20. CASE DeadlinePasses
  BY <1>20 DEF DeadlinePasses, session
<1>21. CASE UNCHANGED vars
  BY <1>21 DEF vars, session
<1> QED
  BY <1>1, <1>2, <1>3, <1>4, <1>5, <1>6, <1>7, <1>8, <1>9, <1>10, <1>11, <1>12, <1>13,
     <1>14, <1>15, <1>16, <1>17, <1>18, <1>19, <1>20, <1>21, Zenon DEF Next, Command

\* handleConn implements MailTransaction: recipients belong to the MAIL they
\* follow, TLS starts from nothing, 250 follows the last recipient.
THEOREM SessionRefines == Spec => ImplementsTransaction
<1> QED
  BY SessionInvariant, InitSimulates, NextSimulates, PTL DEF Spec, ImplementsTransaction, T!Spec

=============================================================================
