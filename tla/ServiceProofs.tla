---------------------------- MODULE ServiceProofs ----------------------------
(***************************************************************************)
(* Proofs about what readers do with a mailbox (ReportApi), as part of     *)
(* Service, for any number of concurrent requests and any set of opt-ins.  *)
(***************************************************************************)
EXTENDS Service, TLAPS

RequestType == [pc : {"idle", "activate", "payload", "score"},
                flags : SUBSET OptIns, check : OptIns \cup {None}]

\* A check is on, or carried by an activation under way, only if it was chosen.
ConsentInv ==
  /\ mailbox \in [alive : BOOLEAN, flags : SUBSET OptIns]
  /\ req \in [Requests -> RequestType]
  /\ chosen \subseteq OptIns
  /\ mailbox.flags \subseteq chosen
  /\ \A r \in Requests : req[r].pc = "activate" => req[r].flags \cup {req[r].check} \subseteq chosen

-----------------------------------------------------------------------------
\* The idle request of NoRequests is a request that activates nothing.
LEMMA IdleIsIdle == IdleReq \in RequestType /\ IdleReq.pc = "idle"
  BY DEF IdleReq, RequestType

\* A handler that ends, or goes on with the recheck results.
LEMMA ConsentMove ==
  ASSUME ConsentInv, NEW r \in Requests, NEW q \in RequestType, q.pc # "activate",
         req' = [req EXCEPT ![r] = q], UNCHANGED <<mailbox, chosen>>
  PROVE  ConsentInv'
  BY DEF ConsentInv

\* A handler that only moves on.
LEMMA ConsentPc ==
  ASSUME ConsentInv, NEW r \in Requests, NEW p \in {"payload", "score"},
         req' = [req EXCEPT ![r].pc = p], UNCHANGED <<mailbox, chosen>>
  PROVE  ConsentInv'
<1> DEFINE q == [req[r] EXCEPT !.pc = p]
<1>1. req[r] \in RequestType
  BY DEF ConsentInv
<1>2. q \in RequestType /\ q.pc = p
  BY <1>1 DEF RequestType
<1>3. req' = [req EXCEPT ![r] = q]
  OBVIOUS
<1> HIDE DEF q
<1> QED
  BY <1>2, <1>3, ConsentMove

\* The UPDATE of an activation writes the flags its handler read and the check.
LEMMA ConsentActivate ==
  ASSUME ConsentInv, NEW r \in Requests, ActivateWrite(r)
  PROVE  ConsentInv'
<1>1. /\ req[r].pc = "activate" /\ req' = [req EXCEPT ![r] = IdleReq] /\ chosen' = chosen
      /\ req[r] \in RequestType
  BY DEF ConsentInv, ActivateWrite
<1>2. req' \in [Requests -> RequestType] /\ req'[r] = IdleReq
      /\ \A p \in Requests \ {r} : req'[p] = req[p]
  BY <1>1, IdleIsIdle DEF ConsentInv
<1>3. CASE mailbox' = mailbox
  BY <1>1, <1>2, <1>3, IdleIsIdle DEF ConsentInv
<1>4. CASE mailbox' = [mailbox EXCEPT !.flags = req[r].flags \cup {req[r].check}]
  <2>1. req[r].flags \cup {req[r].check} \subseteq chosen
    BY <1>1 DEF ConsentInv
  <2>2. mailbox' \in [alive : BOOLEAN, flags : SUBSET OptIns]
        /\ mailbox'.flags = req[r].flags \cup {req[r].check}
    BY <1>4, <2>1 DEF ConsentInv
  <2> QED
    BY <1>1, <1>2, <2>1, <2>2, IdleIsIdle DEF ConsentInv
<1> QED
  BY <1>3, <1>4 DEF ActivateWrite

\* The handlers that were running when the server stopped taking requests.
LEMMA ConsentHandler ==
  ASSUME ConsentInv, HandlerStep
  PROVE  ConsentInv'
<1>1. ASSUME NEW r \in Requests, PersistPayload(r) PROVE ConsentInv'
  <2>1. CASE req' = [req EXCEPT ![r].pc = "score"]
    BY <1>1, <2>1, ConsentPc DEF PersistPayload
  <2>2. CASE req' = [req EXCEPT ![r] = IdleReq]
    BY <1>1, <2>2, IdleIsIdle, ConsentMove DEF PersistPayload
  <2> QED
    BY <1>1, <2>1, <2>2 DEF PersistPayload
<1>2. ASSUME NEW r \in Requests, PersistScore(r) \/ RequestFails(r) PROVE ConsentInv'
  BY <1>2, IdleIsIdle, ConsentMove DEF PersistScore, RequestFails
<1>3. CASE StreamTick \/ CloseStream
  BY <1>3 DEF StreamTick, CloseStream, ConsentInv
<1> QED
  BY <1>1, <1>2, <1>3, ConsentActivate DEF HandlerStep

\* The requests a serving server takes.
LEMMA ConsentRequest ==
  ASSUME ConsentInv, NewRequest
  PROVE  ConsentInv'
<1>1. ASSUME NEW flags \in SUBSET OptIns, SaveChecks(flags) PROVE ConsentInv'
  <2>1. mailbox' \in [alive : BOOLEAN, flags : SUBSET OptIns] /\ mailbox'.flags = flags
        /\ req' = req /\ chosen' = chosen \cup flags
    BY <1>1 DEF SaveChecks, ConsentInv
  <2> QED
    BY <2>1 DEF ConsentInv
<1>2. ASSUME NEW r \in Requests, NEW c \in OptIns, ActivateRead(r, c) PROVE ConsentInv'
  <2> DEFINE q == [pc |-> "activate", flags |-> mailbox.flags, check |-> c]
  <2>1. mailbox.flags \in SUBSET OptIns /\ mailbox.flags \subseteq chosen
    BY DEF ConsentInv
  <2>2. q \in RequestType /\ q.flags = mailbox.flags /\ q.check = c
    BY <2>1 DEF RequestType
  <2>3. req' = [req EXCEPT ![r] = q] /\ chosen' = chosen \cup {c} /\ mailbox' = mailbox
    BY <1>2 DEF ActivateRead
  <2> HIDE DEF q
  <2> QED
    BY <2>1, <2>2, <2>3 DEF ConsentInv
<1>3. ASSUME NEW r \in Requests, PersistStart(r) PROVE ConsentInv'
  BY <1>3, ConsentPc DEF PersistStart
<1>4. CASE DeleteMailbox
  <2>1. mailbox' \in [alive : BOOLEAN, flags : SUBSET OptIns] /\ mailbox'.flags = {}
    BY <1>4 DEF DeleteMailbox
  <2> QED
    BY <1>4, <2>1 DEF DeleteMailbox, ConsentInv
<1>5. CASE OpenStream
  BY <1>5 DEF OpenStream, ConsentInv
<1> QED
  BY <1>1, <1>2, <1>3, <1>4, <1>5 DEF NewRequest

\* Every step of the service keeps the consent.
LEMMA ConsentNext == ConsentInv /\ [Next]_vars => ConsentInv'
<1> SUFFICES ASSUME ConsentInv, [Next]_vars PROVE ConsentInv'
  OBVIOUS
<1>1. CASE UNCHANGED apiVars
  BY <1>1 DEF apiVars, ConsentInv
<1>2. CASE Abandoned
  BY <1>2, IdleIsIdle DEF Abandoned, NoRequests, ConsentInv
<1>3. CASE Arrive \/ ReportStored
  BY <1>3 DEF Arrive, ReportStored, ConsentInv
<1> QED
  BY <1>1, <1>2, <1>3, ConsentHandler, ConsentRequest
  DEF Next, vars, Boots, Background, Ends, Drains, Delivers, Handles

\* A check is on only if the reader asked for it at some time, in every state of
\* the service (recheckAPI, mailboxAPI): for any number of requests and opt-ins,
\* and although an activation writes back flags it read before.
THEOREM ConsentHolds == Spec => []ConsentGiven
<1>1. Init => ConsentInv
  BY IdleIsIdle DEF Init, ApiInit, NoRequests, ConsentInv
<1>2. ConsentInv => ConsentGiven
  BY DEF ConsentInv, ConsentGiven
<1> QED
  BY <1>1, <1>2, ConsentNext, PTL DEF Spec

-----------------------------------------------------------------------------
\* Who is between the two statements of recheckPersistAPI wrote the ciphertext;
\* when nobody is, ciphertext and score come from the same writer, or the score
\* of the analysis is still to come.  A store is only begun for a stored message.
ScoreInv ==
  /\ message \in [stored : BOOLEAN, payload : Writers, report : Writers]
  /\ mixed \in BOOLEAN
  /\ message.stored => mailbox.alive
  /\ mailbox.alive /\ ~message.stored => \A r \in Requests : req[r].pc \notin {"payload", "score"}
  /\ message.stored /\ ~mixed => \A r \in Requests : req[r].pc = "score" => message.payload = r
  /\ message.stored /\ ~mixed /\ (\A r \in Requests : req[r].pc # "score") =>
       message.payload = IF message.report = None THEN Analysis ELSE message.report

\* Steps of a request that is not between the two statements, and stays out.
LEMMA ScoreAside ==
  ASSUME ConsentInv, ScoreInv, NEW r \in Requests, req[r].pc # "score",
         \/ req'[r].pc = "idle" \/ req'[r].pc = "activate"
         \/ req'[r].pc = "payload" /\ message.stored,
         \A q \in Requests \ {r} : req'[q] = req[q],
         UNCHANGED <<message, mixed>>, mailbox'.alive = mailbox.alive
  PROVE  ScoreInv'
  BY DEF ScoreInv

\* A request whose record is replaced, and one that only moves on.
LEMMA Replaced ==
  ASSUME ConsentInv, NEW r \in Requests, NEW q, req' = [req EXCEPT ![r] = q]
  PROVE  req'[r] = q /\ \A p \in Requests \ {r} : req'[p] = req[p]
  BY DEF ConsentInv

LEMMA Moved ==
  ASSUME ConsentInv, NEW r \in Requests, NEW p, req' = [req EXCEPT ![r].pc = p]
  PROVE  req'[r].pc = p /\ \A q \in Requests \ {r} : req'[q] = req[q]
<1>1. req[r] \in RequestType /\ req'[r] = [req[r] EXCEPT !.pc = p]
  BY DEF ConsentInv
<1>2. req'[r].pc = p
  BY <1>1 DEF RequestType
<1> QED
  BY <1>2 DEF ConsentInv

\* The first statement of a store: the ciphertext.
LEMMA ScorePayload ==
  ASSUME ConsentInv, ScoreInv, NEW r \in Requests, PersistPayload(r)
  PROVE  ScoreInv'
<1>1. CASE message.stored
  <2>1. /\ message' = [message EXCEPT !.payload = r] /\ req' = [req EXCEPT ![r].pc = "score"]
        /\ mixed' = (mixed \/ \E q \in Requests : req[q].pc = "score") /\ mailbox' = mailbox
    BY <1>1 DEF PersistPayload
  <2>2. /\ message' \in [stored : BOOLEAN, payload : Writers, report : Writers]
        /\ message'.stored = message.stored /\ message'.payload = r
    BY <2>1 DEF ScoreInv, Writers
  <2>3. req'[r].pc = "score" /\ \A q \in Requests \ {r} : req'[q] = req[q]
    BY <2>1, Moved
  <2>4. mixed' \in BOOLEAN /\ (~mixed' => ~mixed /\ \A q \in Requests : req[q].pc # "score")
    BY <2>1 DEF ScoreInv
  <2>5. message'.stored /\ mailbox'.alive
    BY <1>1, <2>1, <2>2 DEF ScoreInv
  <2> QED
    BY <2>2, <2>3, <2>4, <2>5, SMTT(20) DEF ScoreInv
<1>2. CASE ~message.stored
  <2>1. req' = [req EXCEPT ![r] = IdleReq] /\ UNCHANGED <<message, mixed, mailbox>>
        /\ req[r].pc = "payload"
    BY <1>2 DEF PersistPayload
  <2>2. req'[r] = IdleReq /\ \A q \in Requests \ {r} : req'[q] = req[q]
    BY <2>1, Replaced
  <2> QED
    BY <2>1, <2>2, IdleIsIdle, ScoreAside, SMTT(20)
<1> QED
  BY <1>1, <1>2

\* A handler that ends between the two statements: mixed remembers it.
LEMMA ScoreBroken ==
  ASSUME ConsentInv, ScoreInv, NEW r \in Requests, mixed' = TRUE, UNCHANGED <<message, mailbox>>,
         req' = [req EXCEPT ![r] = IdleReq]
  PROVE  ScoreInv'
<1>1. req'[r] = IdleReq /\ \A q \in Requests \ {r} : req'[q] = req[q]
  BY Replaced
<1> QED
  BY <1>1, IdleIsIdle DEF ScoreInv

\* The second statement: the score.
LEMMA ScoreScore ==
  ASSUME ConsentInv, ScoreInv, NEW r \in Requests, PersistScore(r)
  PROVE  ScoreInv'
<1>1. req[r].pc = "score" /\ req' = [req EXCEPT ![r] = IdleReq] /\ mailbox' = mailbox
  BY DEF PersistScore
<1>2. CASE message' = [message EXCEPT !.report = r] /\ mixed' = mixed
  <2>1. /\ message' \in [stored : BOOLEAN, payload : Writers, report : Writers]
        /\ message'.stored = message.stored /\ message'.payload = message.payload
        /\ message'.report = r
    BY <1>2 DEF ScoreInv, Writers
  <2>2. req'[r] = IdleReq /\ \A q \in Requests \ {r} : req'[q] = req[q]
    BY <1>1, Replaced
  <2>3. message.stored /\ ~mixed => message.payload = r
    BY <1>1 DEF ScoreInv
  <2> QED
    BY <1>1, <1>2, <2>1, <2>2, <2>3, IdleIsIdle, RequestAssumption, SMTT(20) DEF ScoreInv
<1>3. CASE message' = message /\ mixed' = TRUE
  BY <1>1, <1>3, ScoreBroken
<1> QED
  BY <1>2, <1>3 DEF PersistScore

\* A statement of a handler fails.
LEMMA ScoreFails ==
  ASSUME ConsentInv, ScoreInv, NEW r \in Requests, RequestFails(r)
  PROVE  ScoreInv'
<1>1. /\ req' = [req EXCEPT ![r] = IdleReq] /\ UNCHANGED <<message, mailbox>>
      /\ mixed' = (mixed \/ req[r].pc = "score")
  BY DEF RequestFails
<1>2. CASE req[r].pc = "score"
  <2>1. mixed' = TRUE
    BY <1>1, <1>2
  <2> QED
    BY <1>1, <2>1, ScoreBroken
<1>3. CASE req[r].pc # "score"
  <2>1. mixed' = mixed
    BY <1>1, <1>3 DEF ScoreInv
  <2>2. req'[r] = IdleReq /\ \A q \in Requests \ {r} : req'[q] = req[q]
    BY <1>1, Replaced
  <2> QED
    BY <1>1, <1>3, <2>1, <2>2, IdleIsIdle, ScoreAside
<1> QED
  BY <1>2, <1>3

\* The handlers that were running when the server stopped taking requests.
LEMMA ScoreHandler ==
  ASSUME ConsentInv, ScoreInv, HandlerStep
  PROVE  ScoreInv'
<1>1. ASSUME NEW r \in Requests, ActivateWrite(r) PROVE ScoreInv'
  <2>1. /\ req[r].pc = "activate" /\ req' = [req EXCEPT ![r] = IdleReq]
        /\ UNCHANGED <<message, mixed>>
    BY <1>1 DEF ActivateWrite
  <2>2. mailbox'.alive = mailbox.alive
    BY <1>1 DEF ActivateWrite, ConsentInv
  <2>3. req'[r] = IdleReq /\ \A q \in Requests \ {r} : req'[q] = req[q]
    BY <2>1, Replaced
  <2> QED
    BY <2>1, <2>2, <2>3, IdleIsIdle, ScoreAside, SMTT(20)
<1>2. CASE StreamTick \/ CloseStream
  BY <1>2 DEF StreamTick, CloseStream, ScoreInv
<1> QED
  BY <1>1, <1>2, ScorePayload, ScoreScore, ScoreFails DEF HandlerStep

\* The requests a serving server takes.
LEMMA ScoreRequest ==
  ASSUME ConsentInv, ScoreInv, NewRequest
  PROVE  ScoreInv'
<1>1. ASSUME NEW flags \in SUBSET OptIns, SaveChecks(flags) PROVE ScoreInv'
  <2>1. mailbox'.alive = mailbox.alive /\ UNCHANGED <<message, req, mixed>>
    BY <1>1 DEF SaveChecks, ConsentInv
  <2> QED
    BY <2>1 DEF ScoreInv
<1>2. ASSUME NEW r \in Requests, NEW c \in OptIns, ActivateRead(r, c) PROVE ScoreInv'
  <2> DEFINE q == [pc |-> "activate", flags |-> mailbox.flags, check |-> c]
  <2>1. q.pc = "activate"
    OBVIOUS
  <2>2. req' = [req EXCEPT ![r] = q] /\ req[r].pc = "idle" /\ UNCHANGED <<message, mixed, mailbox>>
    BY <1>2 DEF ActivateRead
  <2> HIDE DEF q
  <2>3. req'[r] = q /\ \A p \in Requests \ {r} : req'[p] = req[p]
    BY <2>2, Replaced
  <2> QED
    BY <2>1, <2>2, <2>3, ScoreAside
<1>3. ASSUME NEW r \in Requests, PersistStart(r) PROVE ScoreInv'
  <2>1. /\ req' = [req EXCEPT ![r].pc = "payload"] /\ req[r].pc = "idle" /\ message.stored
        /\ UNCHANGED <<message, mixed, mailbox>>
    BY <1>3 DEF PersistStart
  <2>2. req'[r].pc = "payload" /\ \A q \in Requests \ {r} : req'[q] = req[q]
    BY <2>1, Moved
  <2> QED
    BY <2>1, <2>2, ScoreAside
<1>4. CASE DeleteMailbox
  <2>1. message' \in [stored : BOOLEAN, payload : Writers, report : Writers]
        /\ ~message'.stored /\ ~mailbox'.alive /\ mixed' = mixed
    BY <1>4 DEF DeleteMailbox, NoMessage, Writers
  <2> QED
    BY <2>1 DEF ScoreInv
<1>5. CASE OpenStream
  BY <1>5 DEF OpenStream, ScoreInv
<1> QED
  BY <1>1, <1>2, <1>3, <1>4, <1>5 DEF NewRequest

\* A delivery: the analysis writes both, the message before the report.
LEMMA ScoreDelivery ==
  ASSUME ConsentInv, ScoreInv, Arrive \/ ReportStored
  PROVE  ScoreInv'
<1>1. CASE Arrive
  <2>1. mailbox.alive /\ ~message.stored /\ UNCHANGED <<mailbox, req, mixed>>
    BY <1>1 DEF Arrive
  <2>2. /\ message' \in [stored : BOOLEAN, payload : Writers, report : Writers]
        /\ message'.stored /\ message'.payload = Analysis /\ message'.report = None
    BY <1>1 DEF Arrive, Writers
  <2>3. \A r \in Requests : req[r].pc # "score"
    BY <2>1 DEF ScoreInv
  <2> QED
    BY <2>1, <2>2, <2>3 DEF ScoreInv
<1>2. CASE ReportStored
  <2>1. message.stored /\ message.report = None /\ UNCHANGED <<mailbox, req, mixed>>
    BY <1>2 DEF ReportStored
  <2>2. /\ message' \in [stored : BOOLEAN, payload : Writers, report : Writers]
        /\ message'.stored = message.stored /\ message'.payload = message.payload
        /\ message'.report = Analysis
    BY <1>2 DEF ReportStored, ScoreInv, Writers
  <2> QED
    BY <2>1, <2>2 DEF ScoreInv
<1> QED
  BY <1>1, <1>2

\* The score stored in the clear is that of the stored ciphertext unless two
\* stores overlapped or one broke off (recheckPersistAPI), for any number of
\* concurrent requests.
THEOREM ScoresMatch == Spec => []ScoreMatchesPayload
<1> DEFINE Inv == ConsentInv /\ ScoreInv
<1>1. Init => Inv
  <2> SUFFICES ASSUME Init PROVE Inv
    OBVIOUS
  <2>1. ConsentInv
    BY IdleIsIdle DEF Init, ApiInit, NoRequests, ConsentInv
  <2>2. message \in [stored : BOOLEAN, payload : Writers, report : Writers] /\ ~message.stored
    BY DEF Init, ApiInit, NoMessage, Writers
  <2>3. \A r \in Requests : req[r].pc = "idle"
    BY IdleIsIdle DEF Init, ApiInit, NoRequests
  <2> QED
    BY <2>1, <2>2, <2>3 DEF Init, ApiInit, ScoreInv
<1>2. Inv /\ [Next]_vars => Inv'
  <2> SUFFICES ASSUME ConsentInv, ScoreInv, [Next]_vars PROVE Inv'
    OBVIOUS
  <2>1. ConsentInv'
    BY ConsentNext
  <2>2. CASE UNCHANGED apiVars
    BY <2>1, <2>2 DEF apiVars, ScoreInv
  <2>3. CASE Abandoned
    <3>1. \A r \in Requests : req'[r].pc = "idle"
      BY <2>3, IdleIsIdle DEF Abandoned, NoRequests
    <3>2. UNCHANGED <<message, mailbox>> /\ mixed' \in BOOLEAN
          /\ (~mixed' => ~mixed /\ \A r \in Requests : req[r].pc # "score")
      BY <2>3 DEF Abandoned, ScoreInv
    <3> QED
      BY <2>1, <3>1, <3>2 DEF ScoreInv
  <2> QED
    BY <2>1, <2>2, <2>3, ScoreHandler, ScoreRequest, ScoreDelivery, SMTT(20)
    DEF Next, vars, Boots, Background, Ends, Drains, Delivers, Handles
<1>3. Inv => ScoreMatchesPayload
  BY DEF ScoreInv, ScoreMatchesPayload
<1> QED
  BY <1>1, <1>2, <1>3, PTL DEF Spec
=============================================================================
