---------------------------- MODULE CounterProofs ----------------------------
(***************************************************************************)
(* Proofs that the statistics counters are sound and that the limit per    *)
(* address is not overrun by more than the concurrent requests             *)
(* (Lifecycle), for any number of requests, deliveries, faults and         *)
(* restarts.                                                               *)
(***************************************************************************)
EXTENDS LifecycleProofs, FiniteSetTheorems

\* The handlers between an event and the statement that counts it.  A delivery
\* whose time is up no longer counts anything.
Inserted == {r \in Requests : req[r].pc = "count"}
Stored == {w \in Workers : job[w].pc = "count"}
Reporting == {w \in Workers : job[w].pc \in {"report", "nreports"} /\ InTime(w)}
Adding == {w \in Workers : job[w].pc = "nscore" /\ InTime(w)}

\* The reports whose score has been added, or was lost to a fault.
Added == counters["reports_generated"] + faults - Cardinality(Adding)

\* Every event is counted once, by the one handler that saw it.
CInv ==
  /\ counters["mailboxes_created"] + Cardinality(Inserted) <= seq.mailboxes
  /\ counters["messages_received"] + Cardinality(Stored) <= seq.messages
  /\ counters["reports_generated"] + Cardinality(Reporting)
       <= counters["messages_received"] + faults
  /\ Added \in Nat
  /\ counters["score_sum"] <= TopScore * Added

In(x, S) == IF x \in S THEN 1 ELSE 0

-----------------------------------------------------------------------------
\* The largest score exists and bounds the others.
LEMMA TopScoreFacts == TopScore \in Nat /\ \A s \in Scores : s \in Nat /\ s <= TopScore
<1>1. TopScore \in Scores /\ \A t \in Scores : t <= TopScore
  BY StoreAssumption DEF TopScore
<1> QED
  BY <1>1, StoreAssumption

\* Multiplication by the largest score is monotonic, and one more adds it once.
LEMMA Times ==
  ASSUME NEW t \in Nat, NEW a \in Nat, NEW b \in Nat, a <= b
  PROVE  t * a \in Nat /\ t * b \in Nat /\ t * a <= t * b /\ t * (a + 1) = t * a + t
<1>1. PICK d \in Nat : b = a + d
  <2>1. b - a \in Nat /\ b = a + (b - a)
    OBVIOUS
  <2> QED
    BY <2>1
<1>2. t * b = t * a + t * d
  BY <1>1
<1>3. t * d \in Nat /\ t * a \in Nat /\ t * b \in Nat
  OBVIOUS
<1>4. t * (a + 1) = t * a + t
  OBVIOUS
<1> QED
  BY <1>2, <1>3, <1>4

\* A set that changes in one element at most changes its size accordingly.
LEMMA CardOne ==
  ASSUME NEW S, NEW T, NEW x, IsFiniteSet(S), IsFiniteSet(T), T \ {x} \subseteq S \ {x}
  PROVE  /\ Cardinality(S) \in Nat /\ Cardinality(T) \in Nat
         /\ Cardinality(T) + In(x, S) <= Cardinality(S) + In(x, T)
<1>1. /\ Cardinality(S) \in Nat /\ Cardinality(T) \in Nat
      /\ IsFiniteSet(S \ {x}) /\ IsFiniteSet(T \ {x})
      /\ Cardinality(S \ {x}) \in Nat /\ Cardinality(T \ {x}) \in Nat
  BY FS_CardinalityType, FS_RemoveElement
<1>2. Cardinality(T \ {x}) <= Cardinality(S \ {x})
  BY <1>1, FS_Subset
<1>3. Cardinality(S \ {x}) = Cardinality(S) - In(x, S)
  BY <1>1, FS_RemoveElement DEF In
<1>4. Cardinality(T \ {x}) = Cardinality(T) - In(x, T)
  BY <1>1, FS_RemoveElement DEF In
<1> HIDE DEF In
<1>5. In(x, S) \in Nat /\ In(x, T) \in Nat
  BY DEF In
<1> QED
  BY <1>1, <1>2, <1>3, <1>4, <1>5

\* The sets of handlers are finite.
LEMMA HandlersFinite ==
  /\ IsFiniteSet(Inserted) /\ IsFiniteSet(Stored) /\ IsFiniteSet(Reporting) /\ IsFiniteSet(Adding)
  /\ IsFiniteSet(Inserted') /\ IsFiniteSet(Stored') /\ IsFiniteSet(Reporting')
  /\ IsFiniteSet(Adding')
  BY CreationAssumption, InboundAssumption, FS_Subset DEF Inserted, Stored, Reporting, Adding

\* One delivery moves: each set changes in that delivery only.
LEMMA OneDelivery ==
  ASSUME NEW w \in Workers, now' = now, \A v \in Workers \ {w} : job'[v] = job[v]
  PROVE  /\ Cardinality(Stored') + In(w, Stored) <= Cardinality(Stored) + In(w, Stored')
         /\ Cardinality(Reporting') + In(w, Reporting) <= Cardinality(Reporting) + In(w, Reporting')
         /\ Cardinality(Adding') + In(w, Adding) <= Cardinality(Adding) + In(w, Adding')
         /\ {Cardinality(Stored), Cardinality(Reporting), Cardinality(Adding),
             Cardinality(Stored'), Cardinality(Reporting'), Cardinality(Adding')} \subseteq Nat
<1>1. Stored' \ {w} \subseteq Stored \ {w}
  BY DEF Stored
<1>2. Reporting' \ {w} \subseteq Reporting \ {w}
  BY DEF Reporting, InTime
<1>3. Adding' \ {w} \subseteq Adding \ {w}
  BY DEF Adding, InTime
<1> QED
  BY <1>1, <1>2, <1>3, HandlersFinite, CardOne

-----------------------------------------------------------------------------
\* What the type invariant says of the numbers.
LEMMA Numbers ==
  ASSUME TypeOK
  PROVE  /\ counters["mailboxes_created"] \in Nat /\ counters["messages_received"] \in Nat
         /\ counters["reports_generated"] \in Nat /\ counters["score_sum"] \in Nat
         /\ seq.mailboxes \in Nat /\ seq.messages \in Nat /\ faults \in Nat
  BY DEF TypeOK, StoreTypeOK, CounterKeys

\* The counters and the sequences stand still, faults may happen and handlers may
\* stop waiting to count: the invariant is kept.
LEMMA QuietStep ==
  ASSUME TypeOK, TypeOK', CInv, counters' = counters, seq' = seq, faults' >= faults,
         {Cardinality(Inserted), Cardinality(Stored), Cardinality(Reporting), Cardinality(Adding),
          Cardinality(Inserted'), Cardinality(Stored'), Cardinality(Reporting'),
          Cardinality(Adding')} \subseteq Nat,
         Cardinality(Inserted') <= Cardinality(Inserted),
         Cardinality(Stored') <= Cardinality(Stored),
         Cardinality(Reporting') <= Cardinality(Reporting),
         Cardinality(Adding') <= Cardinality(Adding)
  PROVE  CInv'
<1>1. /\ counters["mailboxes_created"] \in Nat /\ counters["messages_received"] \in Nat
      /\ counters["reports_generated"] \in Nat /\ counters["score_sum"] \in Nat
      /\ seq.mailboxes \in Nat /\ seq.messages \in Nat /\ faults \in Nat /\ faults' \in Nat
  BY Numbers DEF TypeOK, StoreTypeOK
<1>2. Added \in Nat /\ Added' \in Nat /\ Added <= Added'
  BY <1>1 DEF CInv, Added
<1>3. TopScore * Added \in Nat /\ TopScore * Added' \in Nat /\ TopScore * Added <= TopScore * Added'
  BY <1>2, TopScoreFacts, Times
<1>4. (TopScore * Added)' = TopScore * Added'
  BY DEF TopScore
<1>5. counters'["score_sum"] <= (TopScore * Added)'
  BY <1>1, <1>3, <1>4 DEF CInv
<1> QED
  BY <1>1, <1>2, <1>5 DEF CInv

\* A delivery that moves without counting anything and does not start to.
LEMMA QuietDelivery ==
  ASSUME TypeOK, TypeOK', CInv, NEW w \in Workers, UNCHANGED <<now, req, counters, seq>>,
         faults' >= faults, \A v \in Workers \ {w} : job'[v] = job[v],
         job'[w].pc \notin {"count", "report", "nreports", "nscore"}
  PROVE  CInv'
<1>1. In(w, Stored') = 0 /\ In(w, Reporting') = 0 /\ In(w, Adding') = 0
  BY DEF In, Stored, Reporting, Adding
<1>2. In(w, Stored) \in Nat /\ In(w, Reporting) \in Nat /\ In(w, Adding) \in Nat
  BY DEF In
<1>3. Inserted' = Inserted /\ Cardinality(Inserted) \in Nat
  BY HandlersFinite, FS_CardinalityType DEF Inserted
<1>4. /\ Cardinality(Stored') + In(w, Stored) <= Cardinality(Stored) + In(w, Stored')
      /\ Cardinality(Reporting') + In(w, Reporting) <= Cardinality(Reporting) + In(w, Reporting')
      /\ Cardinality(Adding') + In(w, Adding) <= Cardinality(Adding) + In(w, Adding')
      /\ {Cardinality(Stored), Cardinality(Reporting), Cardinality(Adding),
          Cardinality(Stored'), Cardinality(Reporting'), Cardinality(Adding')} \subseteq Nat
  BY OneDelivery
<1>5. /\ Cardinality(Stored') <= Cardinality(Stored)
      /\ Cardinality(Reporting') <= Cardinality(Reporting)
      /\ Cardinality(Adding') <= Cardinality(Adding)
  BY <1>1, <1>2, <1>4
<1> QED
  BY <1>3, <1>4, <1>5, QuietStep

\* The numbers of a step in which one delivery moves and the mailboxes stand still.
LEMMA DeliveryNumbers ==
  ASSUME TypeOK, TypeOK', CInv, NEW w \in Workers, UNCHANGED <<now, req>>,
         \A v \in Workers \ {w} : job'[v] = job[v],
         counters'["mailboxes_created"] = counters["mailboxes_created"],
         seq'.mailboxes = seq.mailboxes,
         counters'["messages_received"] + In(w, Stored') + seq.messages
           <= counters["messages_received"] + In(w, Stored) + seq'.messages,
         counters'["reports_generated"] + In(w, Reporting')
           + counters["messages_received"] + faults
           <= counters["reports_generated"] + In(w, Reporting)
                + counters'["messages_received"] + faults',
         NEW k \in {0, 1},
         counters["reports_generated"] + faults + k + In(w, Adding')
           <= counters'["reports_generated"] + faults' + In(w, Adding),
         counters'["score_sum"] <= counters["score_sum"] + TopScore * k
  PROVE  CInv'
<1>1. /\ counters["mailboxes_created"] \in Nat /\ counters["messages_received"] \in Nat
      /\ counters["reports_generated"] \in Nat /\ counters["score_sum"] \in Nat
      /\ seq.mailboxes \in Nat /\ seq.messages \in Nat /\ faults \in Nat
  BY Numbers
<1>2. /\ counters'["messages_received"] \in Nat /\ counters'["reports_generated"] \in Nat
      /\ counters'["score_sum"] \in Nat /\ seq'.messages \in Nat /\ faults' \in Nat
  BY DEF TypeOK, StoreTypeOK, CounterKeys
<1>3. /\ {In(w, Stored), In(w, Reporting), In(w, Adding),
          In(w, Stored'), In(w, Reporting'), In(w, Adding')} \subseteq Nat
  BY DEF In
<1>4. Inserted' = Inserted /\ Cardinality(Inserted) \in Nat
  BY HandlersFinite, FS_CardinalityType DEF Inserted
<1>5. /\ Cardinality(Stored') + In(w, Stored) <= Cardinality(Stored) + In(w, Stored')
      /\ Cardinality(Reporting') + In(w, Reporting) <= Cardinality(Reporting) + In(w, Reporting')
      /\ Cardinality(Adding') + In(w, Adding) <= Cardinality(Adding) + In(w, Adding')
      /\ {Cardinality(Stored), Cardinality(Reporting), Cardinality(Adding),
          Cardinality(Stored'), Cardinality(Reporting'), Cardinality(Adding')} \subseteq Nat
  BY OneDelivery
<1>6. /\ counters'["messages_received"] + Cardinality(Stored') <= seq'.messages
      /\ counters'["reports_generated"] + Cardinality(Reporting')
           <= counters'["messages_received"] + faults'
  BY <1>1, <1>2, <1>3, <1>5 DEF CInv
<1>7. Added \in Nat /\ Added' \in Nat /\ Added + k <= Added'
  BY <1>1, <1>2, <1>3, <1>5 DEF CInv, Added
<1>8. /\ TopScore * (Added + k) = TopScore * Added + TopScore * k
      /\ TopScore * Added \in Nat /\ TopScore * k \in Nat
  <2>1. TopScore * (Added + 1) = TopScore * Added + TopScore
    BY <1>7, TopScoreFacts, Times
  <2> QED
    BY <1>7, <2>1, TopScoreFacts
<1>9. TopScore * (Added + k) <= TopScore * Added' /\ TopScore * Added' \in Nat
  <2>1. Added + k \in Nat /\ Added' \in Nat /\ Added + k <= Added' /\ TopScore \in Nat
    BY <1>7, TopScoreFacts
  <2>2. \A a, b \in Nat : a <= b => TopScore * a <= TopScore * b /\ TopScore * b \in Nat
    BY <2>1, Times
  <2> QED
    BY <2>1, <2>2
<1>10. counters'["score_sum"] <= TopScore * Added'
  BY <1>1, <1>2, <1>8, <1>9 DEF CInv
<1>11. (TopScore * Added)' = TopScore * Added'
  BY DEF TopScore
<1> QED
  BY <1>1, <1>4, <1>6, <1>7, <1>10, <1>11 DEF CInv

\* Where a delivery is counted.
LEMMA Membership ==
  ASSUME NEW w \in Workers, now' = now, job'[w].deadline = job[w].deadline
  PROVE  /\ In(w, Stored) = IF job[w].pc = "count" THEN 1 ELSE 0
         /\ In(w, Stored') = IF job'[w].pc = "count" THEN 1 ELSE 0
         /\ In(w, Reporting) = IF job[w].pc \in {"report", "nreports"} /\ InTime(w) THEN 1 ELSE 0
         /\ In(w, Reporting') = IF job'[w].pc \in {"report", "nreports"} /\ InTime(w) THEN 1 ELSE 0
         /\ In(w, Adding) = IF job[w].pc = "nscore" /\ InTime(w) THEN 1 ELSE 0
         /\ In(w, Adding') = IF job'[w].pc = "nscore" /\ InTime(w) THEN 1 ELSE 0
  BY DEF In, Stored, Reporting, Adding, InTime

\* A step of a delivery to another statement, its deadline unchanged.
LEMMA MovesOn ==
  ASSUME TypeOK, NEW w \in Workers, NEW pc, job' = [job EXCEPT ![w].pc = pc]
  PROVE  /\ job'[w].pc = pc /\ job'[w].deadline = job[w].deadline
         /\ \A v \in Workers \ {w} : job'[v] = job[v]
<1>1. job \in [Workers -> JobState]
  BY DEF TypeOK, InboundTypeOK
<1>2. job'[w] = [job[w] EXCEPT !.pc = pc] /\ \A v \in Workers \ {w} : job'[v] = job[v]
  BY <1>1
<1>3. job[w] \in JobState
  BY <1>1
<1> QED
  BY <1>2, <1>3 DEF JobState

\* A delivery that ends.
LEMMA Ends ==
  ASSUME TypeOK, NEW w \in Workers, Finish(w)
  PROVE  job'[w].pc = "idle" /\ \A v \in Workers \ {w} : job'[v] = job[v]
  BY DEF TypeOK, InboundTypeOK, Finish, IdleJob

-----------------------------------------------------------------------------
\* The counter of stored messages.
LEMMA CountMessageInv ==
  ASSUME TypeOK, TypeOK', CInv, NEW w \in Workers, CountMessage(w), UNCHANGED <<now, req>>
  PROVE  CInv'
<1>1. /\ job[w].pc = "count" /\ job' = [job EXCEPT ![w].pc = "report"]
      /\ \/ InTime(w) /\ incrCounter("messages_received", 1) /\ faults' = faults
         \/ ~InTime(w) /\ UNCHANGED <<Tables, faults>>
         \/ faults' = faults + 1 /\ UNCHANGED Tables
  BY DEF CountMessage, Count, Busy, Fault
<1>2. /\ job'[w].pc = "report" /\ job'[w].deadline = job[w].deadline
      /\ \A v \in Workers \ {w} : job'[v] = job[v]
  BY <1>1, MovesOn
<1>3. /\ In(w, Stored) = 1 /\ In(w, Stored') = 0 /\ In(w, Reporting) = 0
      /\ In(w, Reporting') = IF InTime(w) THEN 1 ELSE 0
      /\ In(w, Adding) = 0 /\ In(w, Adding') = 0
  BY <1>1, <1>2, Membership
<1>4. /\ counters["messages_received"] \in Nat /\ counters["reports_generated"] \in Nat
      /\ counters["score_sum"] \in Nat /\ seq.messages \in Nat /\ faults \in Nat
  BY Numbers
<1>5. seq' = seq
  BY <1>1 DEF incrCounter, Tables
<1>6. /\ counters'["mailboxes_created"] = counters["mailboxes_created"]
      /\ counters'["reports_generated"] = counters["reports_generated"]
      /\ counters'["score_sum"] = counters["score_sum"]
      /\ \/ InTime(w) /\ counters'["messages_received"] = counters["messages_received"] + 1
            /\ faults' = faults
         \/ ~InTime(w) /\ counters'["messages_received"] = counters["messages_received"]
            /\ faults' = faults
         \/ counters'["messages_received"] = counters["messages_received"] /\ faults' = faults + 1
  BY <1>1 DEF incrCounter, Tables, TypeOK, StoreTypeOK, CounterKeys
<1>7. TopScore * 0 = 0
  BY TopScoreFacts
<1>8. /\ counters'["messages_received"] + In(w, Stored') + seq.messages
           <= counters["messages_received"] + In(w, Stored) + seq'.messages
      /\ counters'["reports_generated"] + In(w, Reporting')
           + counters["messages_received"] + faults
           <= counters["reports_generated"] + In(w, Reporting)
                + counters'["messages_received"] + faults'
      /\ counters["reports_generated"] + faults + 0 + In(w, Adding')
           <= counters'["reports_generated"] + faults' + In(w, Adding)
      /\ counters'["score_sum"] <= counters["score_sum"] + TopScore * 0
  BY <1>3, <1>4, <1>5, <1>6, <1>7
<1> QED
  BY <1>2, <1>5, <1>6, <1>8, DeliveryNumbers

\* The counter of reports.
LEMMA CountReportInv ==
  ASSUME TypeOK, TypeOK', CInv, NEW w \in Workers, CountReport(w), UNCHANGED <<now, req>>
  PROVE  CInv'
<1>1. /\ job[w].pc = "nreports" /\ job' = [job EXCEPT ![w].pc = "nscore"]
      /\ \/ InTime(w) /\ incrCounter("reports_generated", 1) /\ faults' = faults
         \/ ~InTime(w) /\ UNCHANGED <<Tables, faults>>
         \/ faults' = faults + 1 /\ UNCHANGED Tables
  BY DEF CountReport, Count, Busy, Fault
<1>2. /\ job'[w].pc = "nscore" /\ job'[w].deadline = job[w].deadline
      /\ \A v \in Workers \ {w} : job'[v] = job[v]
  BY <1>1, MovesOn
<1>3. /\ In(w, Stored) = 0 /\ In(w, Stored') = 0 /\ In(w, Reporting') = 0
      /\ In(w, Reporting) = IF InTime(w) THEN 1 ELSE 0
      /\ In(w, Adding) = 0 /\ In(w, Adding') = IF InTime(w) THEN 1 ELSE 0
  BY <1>1, <1>2, Membership
<1>4. /\ counters["messages_received"] \in Nat /\ counters["reports_generated"] \in Nat
      /\ counters["score_sum"] \in Nat /\ seq.messages \in Nat /\ faults \in Nat
  BY Numbers
<1>5. seq' = seq
  BY <1>1 DEF incrCounter, Tables
<1>6. /\ counters'["mailboxes_created"] = counters["mailboxes_created"]
      /\ counters'["messages_received"] = counters["messages_received"]
      /\ counters'["score_sum"] = counters["score_sum"]
      /\ \/ InTime(w) /\ counters'["reports_generated"] = counters["reports_generated"] + 1
            /\ faults' = faults
         \/ ~InTime(w) /\ counters'["reports_generated"] = counters["reports_generated"]
            /\ faults' = faults
         \/ counters'["reports_generated"] = counters["reports_generated"] /\ faults' = faults + 1
  BY <1>1 DEF incrCounter, Tables, TypeOK, StoreTypeOK, CounterKeys
<1>7. TopScore * 0 = 0
  BY TopScoreFacts
<1>8. /\ counters'["messages_received"] + In(w, Stored') + seq.messages
           <= counters["messages_received"] + In(w, Stored) + seq'.messages
      /\ counters'["reports_generated"] + In(w, Reporting')
           + counters["messages_received"] + faults
           <= counters["reports_generated"] + In(w, Reporting)
                + counters'["messages_received"] + faults'
      /\ counters["reports_generated"] + faults + 0 + In(w, Adding')
           <= counters'["reports_generated"] + faults' + In(w, Adding)
      /\ counters'["score_sum"] <= counters["score_sum"] + TopScore * 0
  BY <1>3, <1>4, <1>5, <1>6, <1>7
<1> QED
  BY <1>2, <1>5, <1>6, <1>8, DeliveryNumbers

\* The sum of the scores, the last statement of a delivery.
LEMMA CountScoreInv ==
  ASSUME TypeOK, TypeOK', CInv, NEW w \in Workers, CountScore(w), UNCHANGED <<now, req>>
  PROVE  CInv'
<1>1. /\ job[w].pc = "nscore" /\ Finish(w)
      /\ \/ InTime(w) /\ incrCounter("score_sum", job[w].score) /\ faults' = faults
         \/ UNCHANGED Tables /\ faults' \in {faults, faults + 1}
  BY DEF CountScore, Count, Busy, Fault
<1>2. job'[w].pc = "idle" /\ \A v \in Workers \ {w} : job'[v] = job[v]
  BY <1>1, Ends
<1>3. CASE InTime(w) /\ incrCounter("score_sum", job[w].score) /\ faults' = faults
  <2>1. job[w].score \in Scores
    BY <1>1 DEF TypeOK, InboundTypeOK
  <2>2. job[w].score \in Nat /\ job[w].score <= TopScore /\ TopScore * 1 = TopScore
    BY <2>1, TopScoreFacts
  <2>3. /\ seq' = seq /\ counters'["mailboxes_created"] = counters["mailboxes_created"]
        /\ counters'["messages_received"] = counters["messages_received"]
        /\ counters'["reports_generated"] = counters["reports_generated"]
        /\ counters'["score_sum"] = counters["score_sum"] + job[w].score
    BY <1>3 DEF incrCounter, TypeOK, StoreTypeOK, CounterKeys
  <2>4. /\ In(w, Stored) = 0 /\ In(w, Stored') = 0 /\ In(w, Reporting) = 0
        /\ In(w, Reporting') = 0 /\ In(w, Adding) = 1 /\ In(w, Adding') = 0
    BY <1>1, <1>2, <1>3 DEF In, Stored, Reporting, Adding
  <2>5. /\ counters["messages_received"] \in Nat /\ counters["reports_generated"] \in Nat
        /\ counters["score_sum"] \in Nat /\ seq.messages \in Nat /\ faults \in Nat
    BY Numbers
  <2>6. /\ counters'["messages_received"] + In(w, Stored') + seq.messages
             <= counters["messages_received"] + In(w, Stored) + seq'.messages
        /\ counters'["reports_generated"] + In(w, Reporting')
             + counters["messages_received"] + faults
             <= counters["reports_generated"] + In(w, Reporting)
                  + counters'["messages_received"] + faults'
        /\ counters["reports_generated"] + faults + 1 + In(w, Adding')
             <= counters'["reports_generated"] + faults' + In(w, Adding)
        /\ counters'["score_sum"] <= counters["score_sum"] + TopScore * 1
    BY <1>3, <2>2, <2>3, <2>4, <2>5, TopScoreFacts
  <2> QED
    BY <1>2, <2>3, <2>6, DeliveryNumbers
<1>4. CASE UNCHANGED Tables /\ faults' \in {faults, faults + 1}
  <2>1. UNCHANGED <<counters, seq>> /\ faults' >= faults
    BY <1>4, Numbers DEF Tables
  <2> QED
    BY <1>2, <2>1, QuietDelivery
<1> QED
  BY <1>1, <1>3, <1>4

\* A message is stored: the sequence is ahead of the counter.
LEMMA SaveMessageInv ==
  ASSUME TypeOK, TypeOK', CInv, NEW w \in Workers, SaveMessage(w), UNCHANGED <<now, req>>
  PROVE  CInv'
<1>1. PICK received :
        /\ job[w].pc = "save" /\ faults' = faults
        /\ \/ /\ SaveMessageRow(job[w].mailbox, received, job[w].key)
              /\ job' = [job EXCEPT ![w] = [job[w] EXCEPT !.pc = "count", !.message = seq.messages + 1]]
           \/ Finish(w) /\ UNCHANGED Tables
  BY DEF SaveMessage, InsertMessage, Busy
<1>2. /\ counters["messages_received"] \in Nat /\ counters["reports_generated"] \in Nat
      /\ counters["score_sum"] \in Nat /\ seq.messages \in Nat /\ faults \in Nat
  BY Numbers
<1>3. CASE Finish(w) /\ UNCHANGED Tables
  BY <1>1, <1>2, <1>3, Ends, QuietDelivery DEF Tables
<1>4. CASE /\ SaveMessageRow(job[w].mailbox, received, job[w].key)
           /\ job' = [job EXCEPT ![w] = [job[w] EXCEPT !.pc = "count", !.message = seq.messages + 1]]
  <2>1. job \in [Workers -> JobState] /\ job[w] \in JobState
    BY DEF TypeOK, InboundTypeOK
  <2>2. job'[w].pc = "count" /\ \A v \in Workers \ {w} : job'[v] = job[v]
    BY <1>4, <2>1 DEF JobState
  <2>3. counters' = counters /\ seq'.mailboxes = seq.mailboxes /\ seq'.messages = seq.messages + 1
    BY <1>4 DEF SaveMessageRow, TypeOK, StoreTypeOK
  <2>4. /\ In(w, Stored) = 0 /\ In(w, Stored') = 1 /\ In(w, Reporting) = 0
        /\ In(w, Reporting') = 0 /\ In(w, Adding) = 0 /\ In(w, Adding') = 0
    BY <1>1, <2>2 DEF In, Stored, Reporting, Adding
  <2>5. TopScore * 0 = 0
    BY TopScoreFacts
  <2>6. /\ counters'["messages_received"] + In(w, Stored') + seq.messages
             <= counters["messages_received"] + In(w, Stored) + seq'.messages
        /\ counters'["reports_generated"] + In(w, Reporting')
             + counters["messages_received"] + faults
             <= counters["reports_generated"] + In(w, Reporting)
                  + counters'["messages_received"] + faults'
        /\ counters["reports_generated"] + faults + 0 + In(w, Adding')
             <= counters'["reports_generated"] + faults' + In(w, Adding)
        /\ counters'["score_sum"] <= counters["score_sum"] + TopScore * 0
    BY <1>1, <1>2, <2>3, <2>4, <2>5
  <2> QED
    BY <2>2, <2>3, <2>6, DeliveryNumbers
<1> QED
  BY <1>1, <1>3, <1>4

\* A report is stored: it is counted next, or not at all.
LEMMA SaveReportInv ==
  ASSUME TypeOK, TypeOK', CInv, NEW w \in Workers, SaveReport(w), UNCHANGED <<now, req>>
  PROVE  CInv'
<1>1. /\ job[w].pc = "report" /\ faults' = faults
      /\ \/ /\ UpsertReport(job[w].message, job[w].score)
            /\ job' = [job EXCEPT ![w].pc = "nreports"]
         \/ Finish(w) /\ UNCHANGED Tables
  BY DEF SaveReport, Busy
<1>2. /\ counters["messages_received"] \in Nat /\ counters["reports_generated"] \in Nat
      /\ counters["score_sum"] \in Nat /\ seq.messages \in Nat /\ faults \in Nat
  BY Numbers
<1>3. CASE Finish(w) /\ UNCHANGED Tables
  BY <1>1, <1>2, <1>3, Ends, QuietDelivery DEF Tables
<1>4. CASE /\ UpsertReport(job[w].message, job[w].score)
           /\ job' = [job EXCEPT ![w].pc = "nreports"]
  <2>1. /\ job'[w].pc = "nreports" /\ job'[w].deadline = job[w].deadline
        /\ \A v \in Workers \ {w} : job'[v] = job[v]
    BY <1>4, MovesOn
  <2>2. /\ In(w, Stored) = 0 /\ In(w, Stored') = 0 /\ In(w, Reporting') = In(w, Reporting)
        /\ In(w, Adding) = 0 /\ In(w, Adding') = 0 /\ In(w, Reporting) \in Nat
    BY <1>1, <2>1, Membership
  <2>3. counters' = counters /\ seq' = seq
    BY <1>4 DEF UpsertReport
  <2>4. TopScore * 0 = 0
    BY TopScoreFacts
  <2>5. /\ counters'["messages_received"] + In(w, Stored') + seq.messages
             <= counters["messages_received"] + In(w, Stored) + seq'.messages
        /\ counters'["reports_generated"] + In(w, Reporting')
             + counters["messages_received"] + faults
             <= counters["reports_generated"] + In(w, Reporting)
                  + counters'["messages_received"] + faults'
        /\ counters["reports_generated"] + faults + 0 + In(w, Adding')
             <= counters'["reports_generated"] + faults' + In(w, Adding)
        /\ counters'["score_sum"] <= counters["score_sum"] + TopScore * 0
    BY <1>1, <1>2, <2>2, <2>3, <2>4
  <2> QED
    BY <2>1, <2>3, <2>5, DeliveryNumbers
<1> QED
  BY <1>1, <1>3, <1>4

\* Every step of a delivery.
LEMMA DeliverInv ==
  ASSUME TypeOK, TypeOK', CInv, NEW w \in Workers, Deliver(w)
  PROVE  CInv'
<1>1. UNCHANGED <<now, req>> /\ DeliveryStep(w)
  BY DEF Deliver
<1>2. job \in [Workers -> JobState] /\ job[w] \in JobState /\ faults \in Nat
  BY DEF TypeOK, InboundTypeOK, StoreTypeOK
<1>3. ASSUME NEW j, job' = [job EXCEPT ![w] = j],
             j.pc \notin {"count", "report", "nreports", "nscore"},
             UNCHANGED Tables, faults' \in {faults, faults + 1}
      PROVE  CInv'
  <2>1. job'[w] = j /\ \A v \in Workers \ {w} : job'[v] = job[v]
    BY <1>2, <1>3
  <2>2. UNCHANGED <<counters, seq>> /\ faults' >= faults
    BY <1>2, <1>3 DEF Tables
  <2> QED
    BY <1>1, <1>3, <2>1, <2>2, QuietDelivery
<1>4. IdleJob.pc = "idle"
  BY DEF IdleJob
<1>5. CASE isAllowedRecipient(w)
  <2>1. PICK b \in mailboxes :
          job' = [job EXCEPT ![w] = [IdleJob EXCEPT !.pc = "rcpt", !.token = b.token]]
    BY <1>5 DEF isAllowedRecipient
  <2>2. [IdleJob EXCEPT !.pc = "rcpt", !.token = b.token].pc = "rcpt"
    BY DEF IdleJob
  <2> QED
    BY <1>3, <1>5, <2>1, <2>2 DEF isAllowedRecipient
<1>6. CASE LookupMailbox(w)
  <2>1. CASE Finish(w)
    BY <1>3, <1>4, <1>6, <2>1 DEF Finish, LookupMailbox
  <2>2. ASSUME NEW b \in mailboxes, Adopt(w, b) PROVE CInv'
    <3> DEFINE j == [job[w] EXCEPT !.pc = "auth", !.mailbox = b.id,
                                   !.key = IF b.token \in E2EKeys THEN b.token ELSE Plain,
                                   !.deadline = now + ProcessTimeout]
    <3>1. j.pc = "auth" /\ job' = [job EXCEPT ![w] = j]
      BY <1>2, <2>2 DEF JobState, Adopt
    <3>2. UNCHANGED Tables /\ faults' = faults
      BY <1>6 DEF LookupMailbox
    <3> HIDE DEF j
    <3> QED
      BY <1>3, <3>1, <3>2
  <2> QED
    BY <1>6, <2>1, <2>2 DEF LookupMailbox, GetMailboxByToken
<1>7. CASE Enrich(w)
  <2>1. [job[w] EXCEPT !.pc = "analyze", !.received = now].pc = "analyze"
    BY <1>2 DEF JobState
  <2> QED
    BY <1>3, <1>7, <2>1 DEF Enrich
<1>8. CASE AnalyzeAndSeal(w)
  <2>1. UNCHANGED Tables /\ faults' \in {faults, faults + 1}
    BY <1>8 DEF AnalyzeAndSeal, Fault
  <2>2. PICK score \in Scores :
          \/ job' = [job EXCEPT ![w] = [job[w] EXCEPT !.pc = "save", !.score = score,
                                                      !.received = ZeroTime]]
          \/ job' = [job EXCEPT ![w] = [job[w] EXCEPT !.pc = "save", !.score = score,
                                                      !.key = Plain]]
    BY <1>8 DEF AnalyzeAndSeal
  <2>3. /\ [job[w] EXCEPT !.pc = "save", !.score = score, !.received = ZeroTime].pc = "save"
        /\ [job[w] EXCEPT !.pc = "save", !.score = score, !.key = Plain].pc = "save"
    BY <1>2 DEF JobState
  <2> QED
    BY <1>3, <2>1, <2>2, <2>3, ZenonT(40)
<1>9. CASE DeliveryFails(w)
  BY <1>3, <1>4, <1>9 DEF DeliveryFails, Fault, Finish
<1>10. CASE SaveMessage(w) \/ CountMessage(w) \/ SaveReport(w) \/ CountReport(w) \/ CountScore(w)
  BY <1>1, <1>10, SaveMessageInv, CountMessageInv, SaveReportInv, CountReportInv, CountScoreInv
<1> QED
  BY <1>1, <1>5, <1>6, <1>7, <1>8, <1>9, <1>10 DEF DeliveryStep

-----------------------------------------------------------------------------
\* One request moves, and the mailbox counter is not ahead of the sequence.
LEMMA RequestMoves ==
  ASSUME TypeOK, TypeOK', CInv, NEW r \in Requests, UNCHANGED <<now, job>>,
         \A q \in Requests \ {r} : req'[q] = req[q], faults' >= faults,
         \A key \in CounterKeys \ {"mailboxes_created"} : counters'[key] = counters[key],
         seq'.messages = seq.messages,
         counters'["mailboxes_created"] + In(r, Inserted') + seq.mailboxes
           <= counters["mailboxes_created"] + In(r, Inserted) + seq'.mailboxes
  PROVE  CInv'
<1>1. /\ counters["mailboxes_created"] \in Nat /\ counters["messages_received"] \in Nat
      /\ counters["reports_generated"] \in Nat /\ counters["score_sum"] \in Nat
      /\ seq.mailboxes \in Nat /\ seq.messages \in Nat /\ faults \in Nat
  BY Numbers
<1>2. counters'["mailboxes_created"] \in Nat /\ seq'.mailboxes \in Nat /\ faults' \in Nat
  BY DEF TypeOK, StoreTypeOK, CounterKeys
<1>3. Inserted' \ {r} \subseteq Inserted \ {r}
  BY DEF Inserted
<1>4. /\ Cardinality(Inserted) \in Nat /\ Cardinality(Inserted') \in Nat
      /\ Cardinality(Inserted') + In(r, Inserted) <= Cardinality(Inserted) + In(r, Inserted')
  BY <1>3, HandlersFinite, CardOne
<1>5. In(r, Inserted) \in Nat /\ In(r, Inserted') \in Nat
  BY DEF In
<1>6. counters'["mailboxes_created"] + Cardinality(Inserted') <= seq'.mailboxes
  BY <1>1, <1>2, <1>4, <1>5 DEF CInv
<1>7. Stored' = Stored /\ Reporting' = Reporting /\ Adding' = Adding
  BY DEF Stored, Reporting, Adding, InTime
<1>8. /\ Cardinality(Stored) \in Nat /\ Cardinality(Reporting) \in Nat
      /\ Cardinality(Adding) \in Nat
  BY HandlersFinite, FS_CardinalityType
<1>9. /\ counters'["messages_received"] = counters["messages_received"]
      /\ counters'["reports_generated"] = counters["reports_generated"]
      /\ counters'["score_sum"] = counters["score_sum"]
  BY DEF CounterKeys
<1>10. Added \in Nat /\ Added' \in Nat /\ Added <= Added'
  BY <1>1, <1>2, <1>7, <1>8, <1>9 DEF CInv, Added
<1>11. /\ TopScore * Added \in Nat /\ TopScore * Added' \in Nat
       /\ TopScore * Added <= TopScore * Added' /\ (TopScore * Added)' = TopScore * Added'
  BY <1>10, TopScoreFacts, Times DEF TopScore
<1>12. counters'["score_sum"] <= (TopScore * Added)'
  BY <1>1, <1>9, <1>11 DEF CInv
<1> QED
  BY <1>1, <1>2, <1>6, <1>7, <1>8, <1>9, <1>10, <1>12 DEF CInv

\* Every step of createMailbox: the row comes first, its counter after it.
LEMMA CreateInv ==
  ASSUME TypeOK, TypeOK', CInv, NEW r \in Requests, Create(r)
  PROVE  CInv'
<1>1. UNCHANGED <<now, job>> /\ CreationStep(r)
  BY DEF Create
<1>2. /\ req \in [Requests -> RequestState] /\ req[r] \in RequestState /\ faults \in Nat
      /\ counters \in [CounterKeys -> Nat] /\ counters["mailboxes_created"] \in Nat
      /\ seq \in [mailboxes : Nat, messages : Nat]
      /\ seq.mailboxes \in Nat /\ seq.messages \in Nat
  BY Numbers DEF TypeOK, CreationTypeOK, StoreTypeOK
<1>3. ASSUME NEW q, req' = [req EXCEPT ![r] = q], q.pc # "count",
             UNCHANGED <<counters, seq>>, faults' \in {faults, faults + 1}
      PROVE  CInv'
  <2>1. req'[r] = q /\ \A p \in Requests \ {r} : req'[p] = req[p]
    BY <1>2, <1>3
  <2>2. In(r, Inserted') = 0 /\ In(r, Inserted) \in Nat
    BY <1>3, <2>1 DEF In, Inserted
  <2>3. /\ faults' >= faults /\ seq'.messages = seq.messages
        /\ counters'["mailboxes_created"] + In(r, Inserted') + seq.mailboxes
             <= counters["mailboxes_created"] + In(r, Inserted) + seq'.mailboxes
    BY <1>2, <1>3, <2>2
  <2>4. \A key \in CounterKeys \ {"mailboxes_created"} : counters'[key] = counters[key]
    BY <1>3
  <2> QED
    BY <1>1, <2>1, <2>3, <2>4, RequestMoves
<1>4. ASSUME EndRequest(r), UNCHANGED <<counters, seq>>, faults' \in {faults, faults + 1}
      PROVE  CInv'
  <2>1. IdleRequest.pc # "count" /\ req' = [req EXCEPT ![r] = IdleRequest]
    BY <1>4 DEF EndRequest, IdleRequest
  <2> QED
    BY <1>3, <1>4, <2>1
<1>5. ASSUME NEW pc, pc # "count", Goto(r, pc), UNCHANGED <<counters, seq>>, faults' = faults
      PROVE  CInv'
  <2>1. req' = [req EXCEPT ![r] = [req[r] EXCEPT !.pc = pc]] /\ [req[r] EXCEPT !.pc = pc].pc = pc
    BY <1>2, <1>5 DEF Goto, RequestState
  <2> QED
    BY <1>3, <1>5, <2>1
<1>6. CASE CheckIPLimit(r)
  <2>1. PICK token, ip, opts :
          req' = [req EXCEPT ![r] = [pc |-> "global", token |-> token, ip |-> ip, opts |-> opts]]
    BY <1>6 DEF CheckIPLimit, Receive
  <2> DEFINE q == [pc |-> "global", token |-> token, ip |-> ip, opts |-> opts]
  <2>2. q.pc # "count" /\ req' = [req EXCEPT ![r] = q]
    BY <2>1
  <2>3. UNCHANGED <<counters, seq>> /\ faults' = faults
    BY <1>6 DEF CheckIPLimit, Tables
  <2> HIDE DEF q
  <2> QED
    BY <1>3, <2>2, <2>3
<1>7. CASE CheckGlobalLimit(r)
  <2>1. EndRequest(r) \/ Goto(r, "generate") \/ Goto(r, "lookup")
    BY <1>7 DEF CheckGlobalLimit
  <2> QED
    BY <1>4, <1>5, <1>7, <2>1 DEF CheckGlobalLimit, Tables
<1>8. CASE LookupExisting(r)
  <2>1. EndRequest(r) \/ Goto(r, "insert") \/ Goto(r, "delete")
    BY <1>8 DEF LookupExisting
  <2> QED
    BY <1>4, <1>5, <1>8, <2>1 DEF LookupExisting, Tables
<1>9. CASE DeleteExpired(r)
  BY <1>5, <1>9 DEF DeleteExpired, DeleteMailboxes
<1>10. CASE generateMailboxAddress(r)
  <2>1. PICK token \in LegacyTokens :
          req' = [req EXCEPT ![r] = [req[r] EXCEPT !.pc = "insert", !.token = token]]
    BY <1>10 DEF generateMailboxAddress
  <2>2. [req[r] EXCEPT !.pc = "insert", !.token = token].pc = "insert"
    BY <1>2 DEF RequestState
  <2> QED
    BY <1>3, <1>10, <2>1, <2>2 DEF generateMailboxAddress, Tables
<1>11. CASE InsertMailbox(r)
  <2>1. CASE EndRequest(r) /\ UNCHANGED Tables
    BY <1>4, <1>11, <2>1 DEF InsertMailbox, Tables
  <2>2. CASE CreateMailbox(req[r].token, req[r].ip) /\ Goto(r, "count")
    <3>1. req'[r].pc = "count" /\ \A p \in Requests \ {r} : req'[p] = req[p]
      BY <1>2, <2>2 DEF Goto, RequestState
    <3>2. In(r, Inserted') = 1 /\ In(r, Inserted) = 0
      BY <1>11, <3>1 DEF In, Inserted, InsertMailbox, At
    <3>3. /\ counters' = counters /\ seq'.mailboxes = seq.mailboxes + 1
          /\ seq'.messages = seq.messages /\ faults' = faults
      BY <1>2, <1>11, <2>2 DEF CreateMailbox, InsertMailbox
    <3>4. /\ counters'["mailboxes_created"] + In(r, Inserted') + seq.mailboxes
               <= counters["mailboxes_created"] + In(r, Inserted) + seq'.mailboxes
          /\ faults' >= faults
      BY <1>2, <3>2, <3>3
    <3>5. \A key \in CounterKeys \ {"mailboxes_created"} : counters'[key] = counters[key]
      BY <3>3, SMTT(20)
    <3> QED
      BY <1>1, <3>1, <3>3, <3>4, <3>5, RequestMoves
  <2> QED
    BY <1>11, <2>1, <2>2 DEF InsertMailbox
<1>12. CASE CountMailbox(r)
  <2>1. CASE Fault /\ UNCHANGED Tables
    <3>1. CASE EndRequest(r)
      BY <1>4, <2>1, <3>1 DEF Fault, Tables
    <3>2. CASE Goto(r, "checks")
      <4>1. /\ req' = [req EXCEPT ![r] = [req[r] EXCEPT !.pc = "checks"]]
            /\ [req[r] EXCEPT !.pc = "checks"].pc = "checks"
        BY <1>2, <3>2 DEF Goto, RequestState
      <4> QED
        BY <1>3, <2>1, <4>1 DEF Fault, Tables
    <3> QED
      BY <1>12, <3>1, <3>2 DEF CountMailbox
  <2>2. CASE incrCounter("mailboxes_created", 1) /\ UNCHANGED faults
    <3>1. req'[r].pc \in {"idle", "checks"} /\ \A p \in Requests \ {r} : req'[p] = req[p]
      BY <1>2, <1>12 DEF CountMailbox, EndRequest, Goto, IdleRequest, RequestState
    <3>2. In(r, Inserted') = 0 /\ In(r, Inserted) = 1
      BY <1>12, <3>1 DEF In, Inserted, CountMailbox, At
    <3>3. /\ counters'["mailboxes_created"] = counters["mailboxes_created"] + 1
          /\ \A key \in CounterKeys \ {"mailboxes_created"} : counters'[key] = counters[key]
      BY <1>2, <2>2 DEF incrCounter, CounterKeys
    <3>4. seq' = seq /\ faults' = faults
      BY <2>2 DEF incrCounter
    <3>5. /\ counters'["mailboxes_created"] + In(r, Inserted') + seq.mailboxes
               <= counters["mailboxes_created"] + In(r, Inserted) + seq'.mailboxes
          /\ faults' >= faults
      BY <1>2, <3>2, <3>3, <3>4
    <3> QED
      BY <1>1, <3>1, <3>3, <3>4, <3>5, RequestMoves
  <2> QED
    BY <1>12, <2>1, <2>2 DEF CountMailbox
<1>13. CASE StoreOptIns(r)
  BY <1>4, <1>13 DEF StoreOptIns, UpdateMailboxChecks
<1>14. CASE RequestFails(r)
  BY <1>4, <1>14 DEF RequestFails, Fault, Tables
<1> QED
  BY <1>1, <1>6, <1>7, <1>8, <1>9, <1>10, <1>11, <1>12, <1>13, <1>14 DEF CreationStep

-----------------------------------------------------------------------------
\* The clock moves: deliveries run out of time.
LEMMA TickInv ==
  ASSUME TypeOK, TypeOK', CInv, Tick
  PROVE  CInv'
<1>1. now \in Nat /\ now' = now + 1 /\ UNCHANGED <<counters, seq, faults, req, job>>
  BY DEF TypeOK, StoreTypeOK, Tick, Tables
<1>2. job \in [Workers -> JobState] /\ \A w \in Workers : job[w].deadline \in Nat
  BY DEF TypeOK, InboundTypeOK, JobState
<1>3. Inserted' = Inserted /\ Stored' = Stored
  BY <1>1 DEF Inserted, Stored
<1>4. Reporting' \subseteq Reporting /\ Adding' \subseteq Adding
  BY <1>1, <1>2 DEF Reporting, Adding, InTime
<1>5. /\ Cardinality(Reporting') <= Cardinality(Reporting)
      /\ Cardinality(Adding') <= Cardinality(Adding)
  BY <1>4, HandlersFinite, FS_Subset
<1>6. {Cardinality(Inserted), Cardinality(Stored), Cardinality(Reporting), Cardinality(Adding),
       Cardinality(Inserted'), Cardinality(Stored'), Cardinality(Reporting'),
       Cardinality(Adding')} \subseteq Nat
  BY HandlersFinite, FS_CardinalityType
<1>7. Cardinality(Inserted') <= Cardinality(Inserted) /\ Cardinality(Stored') <= Cardinality(Stored)
  BY <1>3, <1>6
<1>8. faults \in Nat /\ faults' >= faults
  BY <1>1, Numbers
<1> QED
  BY <1>1, <1>5, <1>6, <1>7, <1>8, QuietStep

\* After a restart nobody is about to count anything.
LEMMA RestartInv ==
  ASSUME TypeOK, TypeOK', CInv, Restart
  PROVE  CInv'
<1>1. /\ req' = NoRequests /\ job' = NoJobs /\ UNCHANGED <<counters, seq>> /\ faults' = faults + 1
  BY DEF Restart, Fault, Tables
<1>2. /\ \A r \in Requests : req'[r].pc = "idle"
      /\ \A w \in Workers : job'[w].pc = "idle"
  BY <1>1 DEF NoRequests, IdleRequest, NoJobs, IdleJob
<1>3. Inserted' = {} /\ Stored' = {} /\ Reporting' = {} /\ Adding' = {}
  BY <1>2 DEF Inserted, Stored, Reporting, Adding
<1>4. /\ Cardinality(Inserted') = 0 /\ Cardinality(Stored') = 0
      /\ Cardinality(Reporting') = 0 /\ Cardinality(Adding') = 0
  BY <1>3, FS_EmptySet
<1>5. {Cardinality(Inserted), Cardinality(Stored), Cardinality(Reporting), Cardinality(Adding)}
        \subseteq Nat
  BY HandlersFinite, FS_CardinalityType
<1>6. faults \in Nat /\ faults' >= faults
  BY <1>1, Numbers
<1> QED
  BY <1>1, <1>4, <1>5, <1>6, QuietStep

\* Steps that touch neither a handler nor a counter.
LEMMA ElsewhereInv ==
  ASSUME TypeOK, TypeOK', CInv, UNCHANGED <<now, req, job, counters, seq>>,
         faults' \in {faults, faults + 1}
  PROVE  CInv'
<1>1. Inserted' = Inserted /\ Stored' = Stored /\ Reporting' = Reporting /\ Adding' = Adding
  BY DEF Inserted, Stored, Reporting, Adding, InTime
<1>2. {Cardinality(Inserted), Cardinality(Stored), Cardinality(Reporting), Cardinality(Adding)}
        \subseteq Nat
  BY HandlersFinite, FS_CardinalityType
<1>3. /\ Cardinality(Inserted') <= Cardinality(Inserted)
      /\ Cardinality(Stored') <= Cardinality(Stored)
      /\ Cardinality(Reporting') <= Cardinality(Reporting)
      /\ Cardinality(Adding') <= Cardinality(Adding)
  BY <1>1, <1>2
<1>4. faults \in Nat /\ faults' >= faults
  BY Numbers
<1> QED
  BY <1>1, <1>2, <1>3, <1>4, QuietStep, SMTT(20)

\* The counters start at zero.
LEMMA CountersInit == Init => CInv
<1> SUFFICES ASSUME Init PROVE CInv
  OBVIOUS
<1>1. /\ \A r \in Requests : req[r].pc = "idle"
      /\ \A w \in Workers : job[w].pc = "idle"
  BY DEF Init, CreationInit, NoRequests, IdleRequest, InboundInit, NoJobs, IdleJob
<1>2. Inserted = {} /\ Stored = {} /\ Reporting = {} /\ Adding = {}
  BY <1>1 DEF Inserted, Stored, Reporting, Adding
<1>3. /\ Cardinality(Inserted) = 0 /\ Cardinality(Stored) = 0
      /\ Cardinality(Reporting) = 0 /\ Cardinality(Adding) = 0
  BY <1>2, FS_EmptySet
<1>4. /\ \A key \in CounterKeys : counters[key] = 0
      /\ seq.mailboxes = 0 /\ seq.messages = 0 /\ faults = 0
  BY DEF Init, StoreInit
<1>5. Added = 0 /\ TopScore * 0 = 0
  BY <1>3, <1>4, TopScoreFacts DEF Added, CounterKeys
<1> QED
  BY <1>3, <1>4, <1>5 DEF CInv, CounterKeys

\* The statistics never run ahead of what happened, for any number of requests,
\* deliveries, failing statements, missed deadlines and restarts.
THEOREM CountersAreSound == Spec => []CountersSound
<1>1. CInv /\ TypeOK /\ TypeOK' /\ [Next]_vars => CInv'
  <2> SUFFICES ASSUME CInv, TypeOK, TypeOK', [Next]_vars PROVE CInv'
    OBVIOUS
  <2>1. ASSUME NEW r \in Requests, Create(r) PROVE CInv'
    BY <2>1, CreateInv
  <2>2. ASSUME NEW w \in Workers, Deliver(w) PROVE CInv'
    BY <2>2, DeliverInv
  <2>3. ASSUME NEW token \in Tokens, DeleteMailbox(token) PROVE CInv'
    BY <2>3, ElsewhereInv DEF DeleteMailbox, DeleteMailboxes
  <2>4. CASE CleanupMessages
    BY <2>4, ElsewhereInv DEF CleanupMessages, DeleteMessages
  <2>5. CASE CleanupMailboxes
    BY <2>5, ElsewhereInv DEF CleanupMailboxes, DeleteMailboxes
  <2>6. CASE CleanupFails
    BY <2>6, ElsewhereInv DEF CleanupFails, Fault, Tables
  <2>7. CASE Restart
    BY <2>7, RestartInv
  <2>8. CASE Tick
    BY <2>8, TickInv
  <2>9. CASE UNCHANGED vars
    BY <2>9, ElsewhereInv DEF vars, storeVars, Tables
  <2> QED
    BY <2>1, <2>2, <2>3, <2>4, <2>5, <2>6, <2>7, <2>8, <2>9, SMTT(20) DEF Next
<1>2. CInv /\ TypeOK => CountersSound
  <2> SUFFICES ASSUME CInv, TypeOK PROVE CountersSound
    OBVIOUS
  <2>1. /\ counters["mailboxes_created"] \in Nat /\ counters["messages_received"] \in Nat
        /\ counters["reports_generated"] \in Nat /\ counters["score_sum"] \in Nat
        /\ seq.mailboxes \in Nat /\ seq.messages \in Nat /\ faults \in Nat
    BY Numbers
  <2>2. /\ Cardinality(Inserted) \in Nat /\ Cardinality(Stored) \in Nat
        /\ Cardinality(Reporting) \in Nat /\ Cardinality(Adding) \in Nat
    BY HandlersFinite, FS_CardinalityType
  <2> DEFINE n == counters["reports_generated"] + faults
  <2>3. Added \in Nat /\ n \in Nat /\ Added <= n
    BY <2>1, <2>2 DEF CInv, Added
  <2> HIDE DEF n
  <2>4. TopScore * Added \in Nat /\ TopScore * n \in Nat /\ TopScore * Added <= TopScore * n
    BY <2>3, TopScoreFacts, Times
  <2>5. counters["score_sum"] <= TopScore * n
    BY <2>1, <2>4 DEF CInv
  <2> QED
    BY <2>1, <2>2, <2>5 DEF CInv, CountersSound, n
<1> QED
  BY <1>1, <1>2, CountersInit, TypeCorrect, PTL DEF Spec

-----------------------------------------------------------------------------
(* The limit per address *)

ActiveOf(ip) == {b \in mailboxes : b.expires > now /\ b.ip = ip}

\* The requests between the check of the limit and the INSERT.
PastCheck(ip) ==
  {r \in Requests : /\ req[r].pc \in {"global", "lookup", "delete", "generate", "insert"}
                    /\ req[r].ip = ip}

\* Every request past the check may still add one mailbox, and no more.
LInv ==
  /\ IsFiniteSet(mailboxes)
  /\ \A ip \in IPs : Cardinality(ActiveOf(ip)) + Cardinality(PastCheck(ip))
                       < MaxActivePerIP + Cardinality(Requests)

\* The sets are finite and their sizes are numbers.
LEMMA LimitSizes ==
  ASSUME IsFiniteSet(mailboxes), NEW ip
  PROVE  /\ IsFiniteSet(ActiveOf(ip)) /\ Cardinality(ActiveOf(ip)) \in Nat
         /\ IsFiniteSet(PastCheck(ip)) /\ Cardinality(PastCheck(ip)) \in Nat
         /\ Cardinality(PastCheck(ip)) <= Cardinality(Requests) /\ Cardinality(Requests) \in Nat
  BY CreationAssumption, FS_Subset, FS_CardinalityType DEF ActiveOf, PastCheck

\* Neither set grows.
LEMMA LimitQuiet ==
  ASSUME LInv, IsFiniteSet(mailboxes'),
         \A ip \in IPs : /\ ActiveOf(ip)' \subseteq ActiveOf(ip)
                         /\ PastCheck(ip)' \subseteq PastCheck(ip)
  PROVE  LInv'
<1>1. IsFiniteSet(mailboxes)
  BY DEF LInv
<1>2. ASSUME NEW ip \in IPs
      PROVE  Cardinality(ActiveOf(ip)') + Cardinality(PastCheck(ip)')
               < MaxActivePerIP + Cardinality(Requests)
  <2>1. /\ Cardinality(ActiveOf(ip)) \in Nat /\ Cardinality(PastCheck(ip)) \in Nat
        /\ Cardinality(Requests) \in Nat
    BY <1>1, LimitSizes
  <2>2. /\ Cardinality(ActiveOf(ip)') \in Nat /\ Cardinality(PastCheck(ip)') \in Nat
        /\ Cardinality(ActiveOf(ip)') <= Cardinality(ActiveOf(ip))
        /\ Cardinality(PastCheck(ip)') <= Cardinality(PastCheck(ip))
    BY <1>1, <1>2, LimitSizes, FS_Subset, FS_CardinalityType
  <2> QED
    BY <1>2, <2>1, <2>2, CreationAssumption DEF LInv
<1> QED
  BY <1>2 DEF LInv

\* A request that moves on without inserting, the mailboxes unchanged or fewer.
LEMMA LimitMove ==
  ASSUME TypeOK, LInv, NEW r \in Requests, NEW q, req' = [req EXCEPT ![r] = q], now' = now,
         mailboxes' \subseteq mailboxes,
         q.pc \in {"global", "lookup", "delete", "generate", "insert"} =>
           /\ req[r].pc \in {"global", "lookup", "delete", "generate", "insert"}
           /\ q.ip = req[r].ip
  PROVE  LInv'
<1>1. req'[r] = q /\ \A p \in Requests \ {r} : req'[p] = req[p]
  BY DEF TypeOK, CreationTypeOK
<1>2. IsFiniteSet(mailboxes')
  BY FS_Subset DEF LInv
<1>3. \A ip \in IPs : ActiveOf(ip)' \subseteq ActiveOf(ip) /\ PastCheck(ip)' \subseteq PastCheck(ip)
  BY <1>1 DEF ActiveOf, PastCheck
<1> QED
  BY <1>2, <1>3, LimitQuiet

\* The check: fewer than the limit are active, and at most every request is past it.
LEMMA LimitCheck ==
  ASSUME TypeOK, LInv, NEW r \in Requests, CheckIPLimit(r), now' = now
  PROVE  LInv'
<1>1. PICK ip \in IPs : CountActiveMailboxesByIP(ip) < MaxActivePerIP /\ Receive(r, ip)
  BY DEF CheckIPLimit
<1>2. mailboxes' = mailboxes /\ IsFiniteSet(mailboxes) /\ IsFiniteSet(mailboxes')
  BY DEF CheckIPLimit, Tables, LInv
<1>3. /\ req'[r].ip = ip /\ req'[r].pc = "global"
      /\ \A p \in Requests \ {r} : req'[p] = req[p]
  BY <1>1 DEF Receive, TypeOK, CreationTypeOK
<1>4. ASSUME NEW i \in IPs
      PROVE  Cardinality(ActiveOf(i)') + Cardinality(PastCheck(i)')
               < MaxActivePerIP + Cardinality(Requests)
  <2>1. ActiveOf(i)' = ActiveOf(i)
    BY <1>2 DEF ActiveOf
  <2>2. /\ Cardinality(ActiveOf(i)) \in Nat /\ Cardinality(PastCheck(i)) \in Nat
        /\ Cardinality(Requests) \in Nat /\ IsFiniteSet(PastCheck(i))
    BY <1>2, LimitSizes
  <2>3. PastCheck(i)' \subseteq Requests
    BY DEF PastCheck
  <2>4. Cardinality(PastCheck(i)') \in Nat /\ Cardinality(PastCheck(i)') <= Cardinality(Requests)
    BY <2>3, CreationAssumption, FS_Subset, FS_CardinalityType
  <2>5. CASE i = ip
    <3>1. ActiveOf(i) = {b \in Active : b.ip = i}
      BY DEF ActiveOf, Active
    <3>2. Cardinality(ActiveOf(i)) < MaxActivePerIP
      BY <1>1, <2>5, <3>1 DEF CountActiveMailboxesByIP
    <3> QED
      BY <2>1, <2>2, <2>4, <3>2, CreationAssumption
  <2>6. CASE i # ip
    <3>1. PastCheck(i)' \subseteq PastCheck(i)
      BY <1>3, <2>6 DEF PastCheck
    <3>2. Cardinality(PastCheck(i)') <= Cardinality(PastCheck(i))
      BY <2>2, <3>1, FS_Subset, SMTT(20)
    <3> QED
      BY <1>4, <2>1, <2>2, <2>4, <3>2, CreationAssumption, SMTT(20) DEF LInv
  <2> QED
    BY <2>5, <2>6
<1> QED
  BY <1>2, <1>4 DEF LInv

\* The INSERT: one mailbox more, one request past the check less.
LEMMA LimitInsert ==
  ASSUME TypeOK, LInv, NEW r \in Requests, req[r].pc = "insert", now' = now,
         CreateMailbox(req[r].token, req[r].ip), Goto(r, "count")
  PROVE  LInv'
<1> DEFINE new == [id |-> seq.mailboxes + 1, token |-> req[r].token, ip |-> req[r].ip,
                   expires |-> now + MailboxTTL, flags |-> {}]
<1>1. req \in [Requests -> RequestState] /\ req[r] \in RequestState
  BY DEF TypeOK, CreationTypeOK
<1>2. req'[r].pc = "count" /\ \A p \in Requests \ {r} : req'[p] = req[p]
  BY <1>1 DEF Goto, RequestState
<1>3. mailboxes' = mailboxes \cup {new} /\ IsFiniteSet(mailboxes) /\ new.ip = req[r].ip
  BY DEF CreateMailbox, LInv
<1> HIDE DEF new
<1>4. IsFiniteSet(mailboxes')
  BY <1>3, FS_AddElement
<1>5. ASSUME NEW i \in IPs
      PROVE  Cardinality(ActiveOf(i)') + Cardinality(PastCheck(i)')
               < MaxActivePerIP + Cardinality(Requests)
  <2>1. /\ Cardinality(ActiveOf(i)) \in Nat /\ Cardinality(PastCheck(i)) \in Nat
        /\ Cardinality(Requests) \in Nat
        /\ IsFiniteSet(ActiveOf(i)) /\ IsFiniteSet(PastCheck(i))
    BY <1>3, LimitSizes, SMTT(20)
  <2>2. CASE i = req[r].ip
    <3>1. ActiveOf(i)' \subseteq ActiveOf(i) \cup {new}
      BY <1>3 DEF ActiveOf
    <3>2. /\ IsFiniteSet(ActiveOf(i) \cup {new})
          /\ Cardinality(ActiveOf(i) \cup {new}) <= Cardinality(ActiveOf(i)) + 1
          /\ Cardinality(ActiveOf(i) \cup {new}) \in Nat
      <4>1. /\ IsFiniteSet(ActiveOf(i) \cup {new})
            /\ Cardinality(ActiveOf(i) \cup {new})
                 = IF new \in ActiveOf(i) THEN Cardinality(ActiveOf(i))
                                          ELSE Cardinality(ActiveOf(i)) + 1
        BY <2>1, FS_AddElement, SMTT(20)
      <4> QED
        BY <2>1, <4>1, SMTT(20)
    <3>3. /\ Cardinality(ActiveOf(i)') <= Cardinality(ActiveOf(i)) + 1
          /\ Cardinality(ActiveOf(i)') \in Nat
      <4>1. /\ IsFiniteSet(ActiveOf(i)')
            /\ Cardinality(ActiveOf(i)') <= Cardinality(ActiveOf(i) \cup {new})
        BY <3>1, <3>2, FS_Subset
      <4>2. Cardinality(ActiveOf(i)') \in Nat
        BY <4>1, FS_CardinalityType
      <4> QED
        BY <2>1, <3>2, <4>1, <4>2, SMTT(20)
    <3>4. r \in PastCheck(i) /\ PastCheck(i)' = PastCheck(i) \ {r}
      BY <1>2, <2>2, SMTT(20) DEF PastCheck
    <3>5. Cardinality(PastCheck(i)') = Cardinality(PastCheck(i)) - 1
      BY <2>1, <3>4, FS_RemoveElement
    <3> QED
      BY <1>5, <2>1, <3>3, <3>5, CreationAssumption, SMTT(20) DEF LInv
  <2>3. CASE i # req[r].ip
    <3>1. ActiveOf(i)' = ActiveOf(i) /\ PastCheck(i)' = PastCheck(i)
      BY <1>2, <1>3, <2>3 DEF ActiveOf, PastCheck
    <3> QED
      BY <1>5, <3>1 DEF LInv
  <2> QED
    BY <2>2, <2>3, SMTT(20)
<1> QED
  BY <1>4, <1>5 DEF LInv

\* Storing opt-ins rewrites rows and adds none.
LEMMA LimitOptIns ==
  ASSUME TypeOK, LInv, NEW r \in Requests, StoreOptIns(r), now' = now
  PROVE  LInv'
<1> DEFINE new(b) == IF b.token = req[r].token THEN [b EXCEPT !.flags = req[r].opts] ELSE b
<1>1. mailboxes' = {new(b) : b \in mailboxes} /\ mailboxes \subseteq MailboxRow
  BY DEF StoreOptIns, UpdateMailboxChecks, TypeOK, StoreTypeOK
<1>2. \A b \in mailboxes : new(b).ip = b.ip /\ new(b).expires = b.expires
  BY <1>1 DEF MailboxRow
<1>3. req'[r].pc = "idle" /\ \A p \in Requests \ {r} : req'[p] = req[p]
  BY DEF StoreOptIns, EndRequest, IdleRequest, TypeOK, CreationTypeOK
<1>4. ASSUME NEW S, S \subseteq mailboxes
      PROVE  /\ IsFiniteSet({new(b) : b \in S})
             /\ Cardinality({new(b) : b \in S}) <= Cardinality(S)
  <2> DEFINE T == {new(b) : b \in S}
             g == [b \in S |-> new(b)]
  <2>1. IsFiniteSet(S)
    BY <1>4, FS_Subset DEF LInv
  <2>2. g \in [S -> T] /\ \A t \in T : \E b \in S : g[b] = t
    OBVIOUS
  <2>3. g \in Surjection(S, T)
    BY <2>2 DEF Surjection
  <2> HIDE DEF T, g
  <2>4. IsFiniteSet(T) /\ Cardinality(T) <= Cardinality(S)
    BY <2>1, <2>3, FS_Surjection
  <2> QED
    BY <2>4 DEF T
<1>5. IsFiniteSet(mailboxes) /\ IsFiniteSet(mailboxes')
  BY <1>1, <1>4 DEF LInv
<1>6. ASSUME NEW i \in IPs
      PROVE  Cardinality(ActiveOf(i)') + Cardinality(PastCheck(i)')
               < MaxActivePerIP + Cardinality(Requests)
  <2>1. /\ Cardinality(ActiveOf(i)) \in Nat /\ Cardinality(PastCheck(i)) \in Nat
        /\ Cardinality(Requests) \in Nat /\ IsFiniteSet(PastCheck(i))
    BY <1>5, LimitSizes
  <2>2. ActiveOf(i)' = {new(b) : b \in ActiveOf(i)}
    BY <1>1, <1>2 DEF ActiveOf
  <2>3. ActiveOf(i) \subseteq mailboxes
    BY DEF ActiveOf
  <2>4. /\ Cardinality(ActiveOf(i)') <= Cardinality(ActiveOf(i))
        /\ Cardinality(ActiveOf(i)') \in Nat
    BY <1>4, <2>2, <2>3, FS_CardinalityType
  <2>5. PastCheck(i)' \subseteq PastCheck(i)
    BY <1>3 DEF PastCheck
  <2>6. Cardinality(PastCheck(i)') <= Cardinality(PastCheck(i)) /\ Cardinality(PastCheck(i)') \in Nat
    BY <2>1, <2>5, FS_Subset, FS_CardinalityType
  <2> QED
    BY <1>6, <2>1, <2>4, <2>6, CreationAssumption DEF LInv
<1> QED
  BY <1>5, <1>6 DEF LInv

\* Every step of createMailbox keeps the bound.
LEMMA LimitCreate ==
  ASSUME TypeOK, LInv, NEW r \in Requests, Create(r)
  PROVE  LInv'
<1>1. now' = now /\ CreationStep(r)
  BY DEF Create
<1>2. req \in [Requests -> RequestState] /\ req[r] \in RequestState
  BY DEF TypeOK, CreationTypeOK
<1>3. ASSUME EndRequest(r), mailboxes' \subseteq mailboxes PROVE LInv'
  <2>1. IdleRequest.pc = "idle" /\ req' = [req EXCEPT ![r] = IdleRequest]
    BY <1>3 DEF EndRequest, IdleRequest
  <2> QED
    BY <1>1, <1>3, <2>1, LimitMove
<1>4. ASSUME NEW pc \in {"lookup", "delete", "generate", "insert", "checks"}, Goto(r, pc),
             mailboxes' \subseteq mailboxes,
             req[r].pc \in {"global", "lookup", "delete", "generate", "insert"} \/ pc = "checks"
      PROVE  LInv'
  <2> DEFINE q == [req[r] EXCEPT !.pc = pc]
  <2>1. req' = [req EXCEPT ![r] = q] /\ q.pc = pc /\ q.ip = req[r].ip
    BY <1>2, <1>4 DEF Goto, RequestState
  <2> HIDE DEF q
  <2> QED
    BY <1>1, <1>4, <2>1, LimitMove, ZenonT(40)
<1>5. CASE CheckIPLimit(r)
  BY <1>1, <1>5, LimitCheck
<1>6. CASE CheckGlobalLimit(r) \/ LookupExisting(r)
  <2>1. /\ EndRequest(r) \/ Goto(r, "generate") \/ Goto(r, "lookup") \/ Goto(r, "insert")
              \/ Goto(r, "delete")
        /\ mailboxes' = mailboxes /\ req[r].pc \in {"global", "lookup"}
    BY <1>6 DEF CheckGlobalLimit, LookupExisting, Tables, At
  <2> QED
    BY <1>3, <1>4, <2>1
<1>7. CASE DeleteExpired(r)
  BY <1>4, <1>7 DEF DeleteExpired, DeleteMailboxes, At
<1>8. CASE generateMailboxAddress(r)
  <2>1. PICK token \in LegacyTokens :
          req' = [req EXCEPT ![r] = [req[r] EXCEPT !.pc = "insert", !.token = token]]
    BY <1>8 DEF generateMailboxAddress
  <2> DEFINE q == [req[r] EXCEPT !.pc = "insert", !.token = token]
  <2>2. req' = [req EXCEPT ![r] = q] /\ q.pc = "insert" /\ q.ip = req[r].ip
    BY <1>2, <2>1 DEF RequestState
  <2>3. mailboxes' = mailboxes /\ req[r].pc = "generate"
    BY <1>8 DEF generateMailboxAddress, Tables, At
  <2> HIDE DEF q
  <2> QED
    BY <1>1, <2>2, <2>3, LimitMove
<1>9. CASE InsertMailbox(r)
  <2>1. CASE EndRequest(r) /\ UNCHANGED Tables
    BY <1>3, <2>1, SMTT(20) DEF Tables
  <2>2. CASE CreateMailbox(req[r].token, req[r].ip) /\ Goto(r, "count")
    BY <1>1, <1>9, <2>2, LimitInsert DEF InsertMailbox, At
  <2> QED
    BY <1>9, <2>1, <2>2 DEF InsertMailbox
<1>10. CASE CountMailbox(r)
  <2>1. mailboxes' = mailboxes /\ (EndRequest(r) \/ Goto(r, "checks"))
    BY <1>10 DEF CountMailbox, incrCounter, Tables
  <2> QED
    BY <1>3, <1>4, <2>1
<1>11. CASE StoreOptIns(r)
  BY <1>1, <1>11, LimitOptIns
<1>12. CASE RequestFails(r)
  BY <1>3, <1>12 DEF RequestFails, Tables
<1> QED
  BY <1>1, <1>5, <1>6, <1>7, <1>8, <1>9, <1>10, <1>11, <1>12 DEF CreationStep

\* Steps of everybody else: mailboxes only go, requests are only dropped.
LEMMA LimitOthers ==
  ASSUME TypeOK, LInv, mailboxes' \subseteq mailboxes, now' \in {now, now + 1},
         req' = req \/ req' = NoRequests
  PROVE  LInv'
<1>1. now \in Nat /\ mailboxes \subseteq MailboxRow
  BY DEF TypeOK, StoreTypeOK
<1>2. \A b \in mailboxes : b.expires \in Nat
  BY <1>1 DEF MailboxRow
<1>3. IsFiniteSet(mailboxes')
  BY FS_Subset DEF LInv
<1>4. \A ip \in IPs : ActiveOf(ip)' \subseteq ActiveOf(ip)
  BY <1>1, <1>2 DEF ActiveOf
<1>5. \A ip \in IPs : PastCheck(ip)' \subseteq PastCheck(ip)
  BY DEF PastCheck, NoRequests, IdleRequest
<1> QED
  BY <1>3, <1>4, <1>5, LimitQuiet

\* Requests that overlap between the check and the INSERT pass the limit per address
\* by less than their number, for every limit and every number of requests.
THEOREM LimitHolds == Spec => []LimitOvershoot
<1>1. Init => LInv
  <2> SUFFICES ASSUME Init PROVE LInv
    OBVIOUS
  <2>1. mailboxes = {} /\ \A r \in Requests : req[r].pc = "idle"
    BY DEF Init, StoreInit, CreationInit, NoRequests, IdleRequest
  <2>2. \A ip \in IPs : ActiveOf(ip) = {} /\ PastCheck(ip) = {}
    BY <2>1 DEF ActiveOf, PastCheck
  <2>3. Cardinality({}) = 0 /\ IsFiniteSet({}) /\ Cardinality(Requests) \in Nat
    BY FS_EmptySet, FS_CardinalityType, CreationAssumption
  <2> QED
    BY <2>1, <2>2, <2>3, CreationAssumption DEF LInv
<1>2. LInv /\ TypeOK /\ [Next]_vars => LInv'
  <2> SUFFICES ASSUME LInv, TypeOK, [Next]_vars PROVE LInv'
    OBVIOUS
  <2>1. ASSUME NEW r \in Requests, Create(r) PROVE LInv'
    BY <2>1, LimitCreate
  <2>2. ASSUME NEW w \in Workers, Deliver(w) PROVE LInv'
    <3>1. now' = now /\ req' = req /\ mailboxes' = mailboxes
      BY <2>2 DEF Deliver, DeliveryStep, isAllowedRecipient, LookupMailbox, Enrich, AnalyzeAndSeal,
                  SaveMessage, InsertMessage, SaveMessageRow, CountMessage, SaveReport, UpsertReport,
                  CountReport, CountScore, Count, incrCounter, DeliveryFails, Tables
    <3> QED
      BY <3>1, LimitOthers, SMTT(20)
  <2>3. ASSUME NEW token \in Tokens, DeleteMailbox(token) PROVE LInv'
    BY <2>3, LimitOthers, SMTT(20) DEF DeleteMailbox, DeleteMailboxes
  <2>4. CASE CleanupMessages \/ CleanupMailboxes \/ CleanupFails
    BY <2>4, LimitOthers
       DEF CleanupMessages, CleanupMailboxes, CleanupFails, DeleteMessages, DeleteMailboxes, Tables
  <2>5. CASE Restart \/ Tick
    BY <2>5, LimitOthers DEF Restart, Tick, Tables
  <2>6. CASE UNCHANGED vars
    BY <2>6, LimitOthers DEF vars, storeVars, Tables
  <2> QED
    BY <2>1, <2>2, <2>3, <2>4, <2>5, <2>6 DEF Next
<1>3. LInv => LimitOvershoot
  <2> SUFFICES ASSUME LInv, NEW ip \in IPs
               PROVE  CountActiveMailboxesByIP(ip) < MaxActivePerIP + Cardinality(Requests)
    BY DEF LimitOvershoot
  <2>1. ActiveOf(ip) = {b \in Active : b.ip = ip}
    BY DEF ActiveOf, Active
  <2>2. /\ Cardinality(ActiveOf(ip)) \in Nat /\ Cardinality(PastCheck(ip)) \in Nat
        /\ Cardinality(Requests) \in Nat
    BY LimitSizes DEF LInv
  <2>3. Cardinality(ActiveOf(ip)) < MaxActivePerIP + Cardinality(Requests)
    BY <2>2, CreationAssumption DEF LInv
  <2> QED
    BY <2>1, <2>3 DEF CountActiveMailboxesByIP
<1> QED
  BY <1>1, <1>2, <1>3, TypeCorrect, PTL DEF Spec
=============================================================================
