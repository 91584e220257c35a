------------------------------- MODULE Store -------------------------------
(***************************************************************************)
(* The SQLite tables behind internal/store and the statements that change  *)
(* them.  db.Open allows one connection (internal/db/db.go:19), so every   *)
(* statement is one atomic step and two statements of one handler can have *)
(* statements of other handlers, and any amount of time, between them.     *)
(*                                                                         *)
(* A mailbox created with a client key has the token that                  *)
(* sealedbox.Identifier computes from that key, so E2EKeys stands for the  *)
(* keys and for their tokens; LegacyTokens are the random tokens of        *)
(* mailboxes created without a key.  An address is token@domain and is     *)
(* represented by its token.  last_seen_at is written and never read, and  *)
(* is left out.                                                            *)
(***************************************************************************)
EXTENDS Integers, FiniteSets

CONSTANTS
  E2EKeys,         \* client public keys, and the tokens derived from them
  LegacyTokens,    \* server-generated tokens
  IPs,             \* client addresses
  Flags,           \* third-party checks a mailbox can opt into
  Scores,          \* report scores
  MailboxTTL,      \* MAILBOX_TTL
  Retention,       \* DATA_RETENTION_TTL
  MaxTime,         \* bound: the clock stops here
  LastCreation,    \* bound: no mailbox is inserted after this time
  MaxMailboxes,    \* bound: rows ever inserted into mailboxes
  MaxMessages,     \* bound: rows ever inserted into messages
  MaxFaults        \* bound: crashes and failed statements

Plain == "plain"
Tokens == E2EKeys \cup LegacyTokens

ASSUME StoreAssumption ==
  /\ E2EKeys \cap LegacyTokens = {}
  /\ Plain \notin Tokens
  /\ Scores \subseteq Nat /\ \E s \in Scores : \A t \in Scores : t <= s
  /\ MailboxTTL \in Nat \ {0}
  /\ Retention \in Nat \ {0}
  /\ {MaxTime, LastCreation, MaxMailboxes, MaxMessages, MaxFaults} \subseteq Nat

VARIABLES
  now,        \* wall clock
  mailboxes,  \* table mailboxes
  messages,   \* table messages
  reports,    \* table reports
  counters,   \* table counters
  seq,        \* sqlite_sequence: the last AUTOINCREMENT id of each table
  faults      \* faults that have happened

Tables == <<mailboxes, messages, reports, counters, seq>>

storeVars == <<now, Tables, faults>>

MailboxRow == [id : Nat \ {0}, token : Tokens, ip : IPs, expires : Nat, flags : SUBSET Flags]

\* enc is the key payload_enc is sealed with, or Plain.
MessageRow == [id : Nat \ {0}, mailbox : Nat \ {0}, received : Nat, enc : E2EKeys \cup {Plain}]

ReportRow == [message : Nat \ {0}, score : Scores]

CounterKeys == {"mailboxes_created", "messages_received", "reports_generated", "score_sum"}

StoreTypeOK ==
  /\ now \in Nat
  /\ mailboxes \subseteq MailboxRow
  /\ messages \subseteq MessageRow
  /\ reports \subseteq ReportRow
  /\ counters \in [CounterKeys -> Nat]
  /\ seq \in [mailboxes : Nat, messages : Nat]
  /\ faults \in Nat

StoreInit ==
  /\ now = 0
  /\ mailboxes = {}
  /\ messages = {}
  /\ reports = {}
  /\ counters = [key \in CounterKeys |-> 0]
  /\ seq = [mailboxes |-> 0, messages |-> 0]
  /\ faults = 0

----------------------------------------------------------------------------
(* Queries *)

GetMailboxByToken(token) == {b \in mailboxes : b.token = token}

Active == {b \in mailboxes : b.expires > now}

CountActiveMailboxesByIP(ip) == Cardinality({b \in Active : b.ip = ip})

CountActiveMailboxes == Cardinality(Active)

----------------------------------------------------------------------------
(* Statements.  Each says what happens to every table.                     *)

\* Fault variant: ids of deleted rows are handed out again.
CreateMailbox_ReusesIds(token, ip) ==
  LET free == CHOOSE n \in 1..MaxMailboxes : \A b \in mailboxes : b.id # n
  IN  /\ seq.mailboxes < MaxMailboxes /\ now <= LastCreation
      /\ mailboxes' = mailboxes \cup {[id |-> free, token |-> token, ip |-> ip,
                                       expires |-> now + MailboxTTL, flags |-> {}]}
      /\ seq' = [seq EXCEPT !.mailboxes = @ + 1]
      /\ UNCHANGED <<messages, reports, counters>>

\* INSERT INTO mailboxes; token is UNIQUE, and the counter is a statement of its own.
CreateMailbox(token, ip) ==
  /\ seq.mailboxes < MaxMailboxes /\ now <= LastCreation
  /\ mailboxes' = mailboxes \cup {[id |-> seq.mailboxes + 1, token |-> token, ip |-> ip,
                                   expires |-> now + MailboxTTL, flags |-> {}]}
  /\ seq' = [seq EXCEPT !.mailboxes = @ + 1]
  /\ UNCHANGED <<messages, reports, counters>>

\* UPDATE mailboxes SET check_*; no row, no effect.
UpdateMailboxChecks(token, flags) ==
  /\ mailboxes' = {IF b.token = token THEN [b EXCEPT !.flags = flags] ELSE b : b \in mailboxes}
  /\ UNCHANGED <<messages, reports, counters, seq>>

\* Fault variant: foreign keys declared without ON DELETE CASCADE and not enforced.
DeleteMailboxes_NoCascade(gone) ==
  /\ mailboxes' = mailboxes \ gone
  /\ UNCHANGED <<messages, reports, counters, seq>>

\* DELETE FROM mailboxes, with the cascades to messages and reports.
DeleteMailboxes(gone) ==
  LET lost == {m \in messages : \E b \in gone : b.id = m.mailbox}
  IN  /\ mailboxes' = mailboxes \ gone
      /\ messages' = messages \ lost
      /\ reports' = {p \in reports : \A m \in lost : m.id # p.message}
      /\ UNCHANGED <<counters, seq>>

\* DELETE FROM messages, with the cascade to reports.
DeleteMessages(gone) ==
  /\ messages' = messages \ gone
  /\ reports' = {p \in reports : \A m \in gone : m.id # p.message}
  /\ UNCHANGED <<mailboxes, counters, seq>>

HasMailbox(id) == \E b \in mailboxes : b.id = id

HasMessage(id) == \E m \in messages : m.id = id

\* INSERT INTO messages; the caller has checked the foreign key.
SaveMessageRow(mailbox, received, enc) ==
  /\ seq.messages < MaxMessages
  /\ messages' = messages \cup {[id |-> seq.messages + 1, mailbox |-> mailbox,
                                 received |-> received, enc |-> enc]}
  /\ seq' = [seq EXCEPT !.messages = @ + 1]
  /\ UNCHANGED <<mailboxes, reports, counters>>

\* INSERT INTO reports ... ON CONFLICT(message_id) DO UPDATE.
UpsertReport(message, score) ==
  /\ reports' = {p \in reports : p.message # message} \cup {[message |-> message, score |-> score]}
  /\ UNCHANGED <<mailboxes, messages, counters, seq>>

incrCounter(key, delta) ==
  /\ counters' = [counters EXCEPT ![key] = @ + delta]
  /\ UNCHANGED <<mailboxes, messages, reports, seq>>

\* What a fault costs: at most MaxFaults of them happen.
Fault == faults < MaxFaults /\ faults' = faults + 1

=============================================================================
