-------------------------- MODULE MailTransaction --------------------------
(***************************************************************************)
(* What one SMTP connection promises about mail transactions, free of the  *)
(* command syntax: a transaction is opened by a sender, gathers recipients *)
(* that were accepted while it was open, is handed over recipient by       *)
(* recipient in the order they were named, and is acknowledged only after  *)
(* the last of them.  Nothing said before TLS survives into TLS.           *)
(***************************************************************************)
EXTENDS Naturals, Sequences

CONSTANT Boxes     \* recipient addresses

VARIABLES
  accepting,  \* the addresses that are accepted at the moment
  secure,     \* the connection is encrypted
  greeted,    \* the client named itself on the connection as it now is
  open,       \* a transaction is open
  rcpts,      \* its recipients
  handing,    \* its message is being handed over
  handed      \* how many recipients have got it

vars == <<accepting, secure, greeted, open, rcpts, handing, handed>>

NoTransaction == open = FALSE /\ rcpts = <<>> /\ handing = FALSE /\ handed = 0

Init == secure = FALSE /\ greeted = FALSE /\ NoTransaction /\ accepting \subseteq Boxes

Greet == greeted' = TRUE /\ UNCHANGED <<accepting, secure, open, rcpts, handing, handed>>

Begin ==
  /\ ~handing
  /\ open' = TRUE /\ rcpts' = <<>>
  /\ UNCHANGED <<accepting, secure, greeted, handing, handed>>

AddRecipient(b) ==
  /\ open /\ ~handing /\ b \in accepting
  /\ rcpts' = Append(rcpts, b)
  /\ UNCHANGED <<accepting, secure, greeted, open, handing, handed>>

\* The message text is complete and goes to the recipients one by one.
StartHanding ==
  /\ open /\ ~handing /\ rcpts # <<>>
  /\ handing' = TRUE
  /\ UNCHANGED <<accepting, secure, greeted, open, rcpts, handed>>

Hand ==
  /\ handing /\ handed < Len(rcpts)
  /\ handed' = handed + 1
  /\ UNCHANGED <<accepting, secure, greeted, open, rcpts, handing>>

\* The transaction stays open: another message may follow in it.
Acknowledge ==
  /\ handing /\ handed = Len(rcpts)
  /\ handing' = FALSE /\ handed' = 0
  /\ UNCHANGED <<accepting, secure, greeted, open, rcpts>>

Abandon == NoTransaction' /\ UNCHANGED <<accepting, secure, greeted>>

Secure ==
  /\ ~secure /\ ~handing
  /\ secure' = TRUE /\ greeted' = FALSE /\ NoTransaction'
  /\ UNCHANGED accepting

Accepting ==
  /\ accepting' \subseteq Boxes
  /\ UNCHANGED <<secure, greeted, open, rcpts, handing, handed>>

Next ==
  \/ Greet \/ Begin \/ StartHanding \/ Hand \/ Acknowledge \/ Abandon \/ Secure \/ Accepting
  \/ \E b \in Boxes : AddRecipient(b)

Spec == Init /\ [][Next]_vars

=============================================================================
