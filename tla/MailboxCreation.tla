-------------------------- MODULE MailboxCreation --------------------------
(***************************************************************************)
(* POST /api/mailboxes: the statements of createMailbox                    *)
(* (internal/web/server.go), one action each.  A request that ends with an *)
(* error answer goes back to "idle"; an answer that changes no table is    *)
(* not a step.                                                             *)
(***************************************************************************)
EXTENDS Store

CONSTANTS
  Requests,        \* concurrent HTTP requests
  MaxActivePerIP,  \* MAX_ACTIVE_MAILBOXES_PER_IP
  MaxActiveGlobal  \* MAX_ACTIVE_MAILBOXES_GLOBAL

ASSUME CreationAssumption ==
  /\ IsFiniteSet(Requests) /\ Requests # {}
  /\ MaxActivePerIP \in Nat \ {0}
  /\ MaxActiveGlobal \in Nat \ {0}

VARIABLE req   \* req[r] is the handler of request r

\* A request without a key has no token until one is generated.
NoToken == "none"

IdleRequest == [pc |-> "idle", token |-> NoToken, ip |-> NoToken, opts |-> {}]

RequestState ==
  [pc : {"idle", "global", "lookup", "delete", "generate", "insert", "count", "checks"},
   token : Tokens \cup {NoToken}, ip : IPs \cup {NoToken}, opts : SUBSET Flags]

NoRequests == [r \in Requests |-> IdleRequest]

CreationInit == req = NoRequests

At(r, pc) == req[r].pc = pc

CreationTypeOK ==
  /\ req \in [Requests -> RequestState]
  /\ \A r \in Requests :
       /\ req[r].pc # "idle" => req[r].ip \in IPs
       /\ req[r].pc \in {"lookup", "delete", "insert", "count", "checks"} => req[r].token \in Tokens

Goto(r, pc) == req' = [req EXCEPT ![r].pc = pc]

EndRequest(r) == req' = [req EXCEPT ![r] = IdleRequest]

----------------------------------------------------------------------------
\* The body of a request from ip: with a client key it may carry opt-ins.
Receive(r, ip) ==
  \E token \in E2EKeys \cup {NoToken}, opts \in SUBSET Flags :
    /\ token = NoToken => opts = {}
    /\ req' = [req EXCEPT ![r] = [pc |-> "global", token |-> token, ip |-> ip, opts |-> opts]]

\* Fault variant: the comparison with the limit is off by one.
CheckIPLimit_OffByOne(r) ==
  /\ At(r, "idle")
  /\ \E ip \in IPs : CountActiveMailboxesByIP(ip) <= MaxActivePerIP /\ Receive(r, ip)
  /\ UNCHANGED <<Tables, faults>>

\* The request arrives and passes the per-IP limit.
CheckIPLimit(r) ==
  /\ At(r, "idle")
  /\ \E ip \in IPs : CountActiveMailboxesByIP(ip) < MaxActivePerIP /\ Receive(r, ip)
  /\ UNCHANGED <<Tables, faults>>

\* The server-wide limit, then the branch on a client-supplied key.
CheckGlobalLimit(r) ==
  /\ At(r, "global")
  /\ IF CountActiveMailboxes >= MaxActiveGlobal
       THEN EndRequest(r)
       ELSE Goto(r, IF req[r].token = NoToken THEN "generate" ELSE "lookup")
  /\ UNCHANGED <<Tables, faults>>

\* A mailbox of this key that is still valid is the answer; an expired one is replaced.
LookupExisting(r) ==
  LET existing == GetMailboxByToken(req[r].token)
  IN  /\ At(r, "lookup")
      /\ \/ existing = {} /\ Goto(r, "insert")
         \/ (\E b \in existing : now < b.expires) /\ EndRequest(r)
         \/ (\E b \in existing : now >= b.expires) /\ Goto(r, "delete")
      /\ UNCHANGED <<Tables, faults>>

\* DeleteMailboxByToken; its error is ignored.
DeleteExpired(r) ==
  /\ At(r, "delete")
  /\ DeleteMailboxes(GetMailboxByToken(req[r].token))
  /\ Goto(r, "insert")
  /\ UNCHANGED faults

\* A random token whose address no mailbox has.
generateMailboxAddress(r) ==
  /\ At(r, "generate")
  /\ \E token \in LegacyTokens :
       /\ GetMailboxByToken(token) = {}
       /\ req' = [req EXCEPT ![r] = [@ EXCEPT !.pc = "insert", !.token = token]]
  /\ UNCHANGED <<Tables, faults>>

\* store.CreateMailbox: INSERT, refused by the UNIQUE token.
InsertMailbox(r) ==
  /\ At(r, "insert")
  /\ IF GetMailboxByToken(req[r].token) # {}
       THEN EndRequest(r) /\ UNCHANGED Tables
       ELSE CreateMailbox(req[r].token, req[r].ip) /\ Goto(r, "count")
  /\ UNCHANGED faults

\* The counter of store.CreateMailbox; its failure goes unnoticed.
CountMailbox(r) ==
  /\ At(r, "count")
  /\ \/ incrCounter("mailboxes_created", 1) /\ UNCHANGED faults
     \/ Fault /\ UNCHANGED Tables
  /\ IF req[r].opts = {} THEN EndRequest(r) ELSE Goto(r, "checks")

\* The opt-ins chosen in the request.
StoreOptIns(r) ==
  /\ At(r, "checks")
  /\ UpdateMailboxChecks(req[r].token, req[r].opts)
  /\ EndRequest(r)
  /\ UNCHANGED faults

\* A statement fails (the client went away, the disk is full): the handler
\* answers with an error, or swallows it after the INSERT.
RequestFails(r) ==
  /\ ~At(r, "idle")
  /\ Fault
  /\ EndRequest(r)
  /\ UNCHANGED Tables

CreationStep(r) ==
  \/ CheckIPLimit(r) \/ CheckGlobalLimit(r) \/ LookupExisting(r) \/ DeleteExpired(r)
  \/ generateMailboxAddress(r) \/ InsertMailbox(r) \/ CountMailbox(r) \/ StoreOptIns(r)
  \/ RequestFails(r)

=============================================================================
