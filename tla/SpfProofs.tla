------------------------------ MODULE SpfProofs ------------------------------
(***************************************************************************)
(* Proofs about the SPF evaluator, as part of Reception, for any set of    *)
(* domains, any lookup budget up to the depth limit and records of any     *)
(* length.                                                                 *)
(***************************************************************************)
EXTENDS Reception, TLAPS, SequenceTheorems

Frames == [domain : Domains, via : Vias, terms : 0..MaxTerms,
           redirect : Domains \cup {NoDomain}, qualifier : {"+", "-", "~", "?"}]
Places == [pc : {"idle", "call", "terms", "return", "done"}, via : Vias,
           domain : Domains \cup {NoDomain}, result : Results, by : Reasons]
Deep(s) == {s[i].domain : i \in 1..Len(s)}
ViasOf(s) == {s[i].via : i \in 1..Len(s)}

\* The call stack is well formed: its bottom is the call of evaluateSPF, every
\* other activation was called by the one below it, and the loop detection map
\* holds the domains under evaluation.
Core ==
  /\ at \in Places /\ stack \in Seq(Frames) /\ seen \subseteq Domains
  /\ at.pc = "idle" => stack = <<>>
  /\ at.pc = "call" => at.domain \in Domains
  /\ at.pc \in {"call", "return"} => (at.via = "top" <=> stack = <<>>)
  /\ at.pc = "terms" => stack # <<>>
  /\ at.pc = "done" => stack = <<>> /\ at.via = "top"
  /\ \A i \in 1..Len(stack) : stack[i].via = "top" <=> i = 1
  /\ seen = Deep(stack)
  /\ \A i, j \in 1..Len(stack) : stack[i].domain = stack[j].domain => i = j

\* Every activation but the first was paid for with a lookup, and a lookup that
\* was not to be had is on its way out as a permanent error.
Budget ==
  /\ lookups \in Nat /\ lookups <= spfLookupBudget + 1
  /\ at.by # "depth-limit"
  /\ at.pc \in {"idle", "call", "terms"} => lookups <= spfLookupBudget
  /\ at.pc = "return" /\ lookups > spfLookupBudget => at.result = "permerror"
  /\ at.pc = "call" => Len(stack) <= lookups
  /\ at.pc \in {"terms", "return"} => Len(stack) <= lookups + 1

\* A question without an answer is on its way out as a temporary error.
Silent == /\ lost \in BOOLEAN
          /\ lost <=> (at.pc \in {"return", "done"} /\ at.result = "temperror")

\* The match a verdict rests on was made in the activation that returns it or in
\* one it redirected to.
Decided ==
  at.pc \in {"return", "done"} /\ at.by = "mechanism"
    /\ at.result \in {"pass", "fail", "softfail", "neutral"} =>
      decider \subseteq ViasOf(stack) \cup {at.via, "redirect"}

SpfInv == Core /\ Budget /\ Silent /\ Decided

-----------------------------------------------------------------------------
\* A sequence without its last element.
LEMMA PopFacts ==
  ASSUME NEW S, NEW s \in Seq(S), s # <<>>
  PROVE  /\ Len(s) \in Nat /\ Len(s) > 0
         /\ s[Len(s)] \in S
         /\ SubSeq(s, 1, Len(s) - 1) \in Seq(S)
         /\ Len(SubSeq(s, 1, Len(s) - 1)) = Len(s) - 1
         /\ \A i \in 1..(Len(s) - 1) : SubSeq(s, 1, Len(s) - 1)[i] = s[i]
<1>1. Len(s) \in Nat /\ Len(s) > 0
  BY EmptySeq
<1>2. \A i \in 1..Len(s) : s[i] \in S
  BY ElementOfSeq
<1>3. \A i \in 1..(Len(s) - 1) : s[i] \in S
  BY <1>1, <1>2
<1> DEFINE t == SubSeq(s, 1, Len(s) - 1)
<1>4. /\ t \in Seq(S)
      /\ Len(t) = IF 1 <= Len(s) - 1 THEN Len(s) - 1 - 1 + 1 ELSE 0
      /\ \A i \in 1..(Len(s) - 1 - 1 + 1) : t[i] = s[1 + i - 1]
  BY <1>1, <1>3, SubSeqProperties
<1> HIDE DEF t
<1>5. Len(t) = Len(s) - 1
  <2>1. \A n \in Nat : n > 0 => (IF 1 <= n - 1 THEN n - 1 - 1 + 1 ELSE 0) = n - 1
    OBVIOUS
  <2> QED
    BY <1>1, <1>4, <2>1
<1>6. \A i \in 1..(Len(s) - 1) : t[i] = s[i]
  BY <1>1, <1>4
<1> QED
  BY <1>1, <1>2, <1>4, <1>5, <1>6 DEF t

\* A sequence with one more element.
LEMMA PushFacts ==
  ASSUME NEW S, NEW s \in Seq(S), NEW e \in S
  PROVE  /\ s \o <<e>> \in Seq(S)
         /\ Len(s) \in Nat
         /\ Len(s \o <<e>>) = Len(s) + 1
         /\ \A i \in 1..Len(s) : (s \o <<e>>)[i] = s[i]
         /\ (s \o <<e>>)[Len(s) + 1] = e
<1>1. <<e>> \in Seq(S) /\ Len(<<e>>) = 1 /\ <<e>>[1] = e
  OBVIOUS
<1>2. Len(s) \in Nat
  BY LenProperties
<1> QED
  BY <1>1, <1>2, ConcatProperties

\* The innermost activation returns: the stack below it is as it was, and its
\* domain is the one that leaves the map.
LEMMA LeaveCore ==
  ASSUME Core, stack # <<>>, NEW result \in Results, NEW by \in Reasons, Leave(result, by)
  PROVE  /\ Core' /\ Len(stack) \in Nat /\ Len(stack') = Len(stack) - 1
         /\ at'.pc = "return" /\ at'.result = result /\ at'.by = by
         /\ ViasOf(stack) = ViasOf(stack') \cup {at'.via}
<1> DEFINE n == Len(stack)
           t == SubSeq(stack, 1, n - 1)
<1>1. stack \in Seq(Frames)
  BY DEF Core
<1>2. /\ n \in Nat /\ n > 0 /\ stack[n] \in Frames
      /\ t \in Seq(Frames) /\ Len(t) = n - 1
      /\ \A i \in 1..(n - 1) : t[i] = stack[i]
  BY <1>1, PopFacts
<1>3. /\ stack' = t /\ seen' = seen \ {stack[n].domain}
      /\ at' = [pc |-> "return", via |-> stack[n].via, domain |-> stack[n].domain,
                result |-> result, by |-> by]
  BY DEF Leave, Top, Below
<1> HIDE DEF n, t
<1>4. at' \in Places
  BY <1>2, <1>3 DEF Frames, Places
<1>5. Deep(t) = Deep(stack) \ {stack[n].domain}
  BY <1>2 DEF Core, Deep, n
<1>6. t = <<>> <=> n = 1
  BY <1>2, EmptySeq
<1>7. ViasOf(stack) = ViasOf(t) \cup {stack[n].via}
  BY <1>2 DEF ViasOf, n
<1>8. \A i \in 1..Len(t) : t[i].via = "top" <=> i = 1
  BY <1>2 DEF Core, n
<1>9. \A i, j \in 1..Len(t) : t[i].domain = t[j].domain => i = j
  BY <1>2 DEF Core, n
<1>10. at'.via = "top" <=> t = <<>>
  BY <1>2, <1>3, <1>6 DEF Core, n
<1>11. seen' = Deep(stack') /\ seen' \subseteq Domains
  BY <1>3, <1>5 DEF Core
<1>12. Core'
  BY <1>2, <1>3, <1>4, <1>8, <1>9, <1>10, <1>11 DEF Core
<1> QED
  BY <1>2, <1>3, <1>7, <1>12 DEF n

\* Replacing the innermost frame by one of the same activation changes nothing
\* that Core speaks of.
LEMMA ReadCore ==
  ASSUME Core, stack # <<>>, Top.terms < MaxTerms,
         NEW f \in Frames, f.domain = Top.domain, f.via = Top.via, f.terms = Top.terms,
         Read(f)
  PROVE  /\ stack' \in Seq(Frames) /\ Len(stack) \in Nat /\ Len(stack') = Len(stack)
         /\ stack' # <<>>
         /\ \A i \in 1..Len(stack) :
              stack'[i].domain = stack[i].domain /\ stack'[i].via = stack[i].via
<1> DEFINE n == Len(stack)
           t == SubSeq(stack, 1, n - 1)
           g == [f EXCEPT !.terms = @ + 1]
<1>1. stack \in Seq(Frames)
  BY DEF Core
<1>2. /\ n \in Nat /\ n > 0 /\ stack[n] \in Frames
      /\ t \in Seq(Frames) /\ Len(t) = n - 1
      /\ \A i \in 1..(n - 1) : t[i] = stack[i]
  BY <1>1, PopFacts
<1>3. g \in Frames /\ g.domain = stack[n].domain /\ g.via = stack[n].via
  BY <1>2, SpfAssumption DEF Frames, Top
<1>4. stack' = t \o <<g>>
  BY DEF Read, Below
<1> HIDE DEF n, t, g
<1>5. /\ t \o <<g>> \in Seq(Frames) /\ Len(t \o <<g>>) = n
      /\ \A i \in 1..(n - 1) : (t \o <<g>>)[i] = stack[i]
      /\ (t \o <<g>>)[n] = g
  BY <1>2, <1>3, PushFacts
<1>6. stack' # <<>>
  BY <1>2, <1>4, <1>5, EmptySeq
<1>7. \A i \in 1..n : stack'[i].domain = stack[i].domain /\ stack'[i].via = stack[i].via
  <2> TAKE i \in 1..n
  <2>1. CASE i = n
    BY <2>1, <1>3, <1>4, <1>5
  <2>2. CASE i # n
    BY <2>2, <1>2, <1>4, <1>5
  <2> QED
    BY <2>1, <2>2
<1> QED
  BY <1>2, <1>4, <1>5, <1>6, <1>7 DEF n

\* The innermost activation reads a term and stays, or calls the domain it names.
LEMMA ReadStays ==
  ASSUME Core, at.pc = "terms", Top.terms < MaxTerms,
         NEW f \in Frames, f.domain = Top.domain, f.via = Top.via, f.terms = Top.terms,
         Read(f), seen' = seen,
         at' = at \/ \E d \in Domains : Calling(d, "include")
  PROVE  Core' /\ Len(stack) \in Nat /\ Len(stack') = Len(stack)
<1>1. stack # <<>>
  BY DEF Core
<1>2. /\ stack' \in Seq(Frames) /\ Len(stack) \in Nat /\ Len(stack') = Len(stack)
      /\ stack' # <<>>
      /\ \A i \in 1..Len(stack) :
           stack'[i].domain = stack[i].domain /\ stack'[i].via = stack[i].via
  BY <1>1, ReadCore
<1>3. Deep(stack') = Deep(stack)
  BY <1>2 DEF Deep
<1>4. /\ \A i \in 1..Len(stack') : stack'[i].via = "top" <=> i = 1
      /\ \A i, j \in 1..Len(stack') : stack'[i].domain = stack'[j].domain => i = j
  BY <1>2 DEF Core
<1>5. CASE at' = at
  BY <1>2, <1>3, <1>4, <1>5, SMTT(20) DEF Core
<1>6. CASE \E d \in Domains : Calling(d, "include")
  <2>1. /\ at' \in Places /\ at'.pc = "call" /\ at'.domain \in Domains
        /\ at'.via = "include"
    BY <1>6 DEF Calling, Places, Vias, Results, Reasons, NoResult
  <2> QED
    BY <1>2, <1>3, <1>4, <2>1 DEF Core
<1> QED
  BY <1>5, <1>6

\* The results of a match are verdicts.
LEMMA QualifierFacts ==
  ASSUME NEW q
  PROVE  qualifierToResult(q) \in {"pass", "fail", "softfail", "neutral"}
BY DEF qualifierToResult

\* A match in a record that is being read, or that waits for an include.
LEMMA MatchInv ==
  ASSUME SpfInv, at.pc \in {"terms", "return"}, stack # <<>>, NEW q, Match(q),
         ~lost, lost' = lost,
         lookups' \in {lookups, lookups + 1}, lookups' <= spfLookupBudget
  PROVE  SpfInv'
<1>1. qualifierToResult(q) \in Results /\ qualifierToResult(q) # "temperror"
  BY QualifierFacts DEF Results
<1>2. "mechanism" \in Reasons
  BY DEF Reasons
<1>3. /\ Core' /\ Len(stack) \in Nat /\ Len(stack') = Len(stack) - 1
      /\ at'.pc = "return" /\ at'.result = qualifierToResult(q) /\ at'.by = "mechanism"
      /\ ViasOf(stack) = ViasOf(stack') \cup {at'.via}
  BY <1>1, <1>2, LeaveCore DEF SpfInv, Match
<1>4. Budget'
  BY <1>3, SpfAssumption DEF SpfInv, Budget
<1>5. Silent'
  BY <1>1, <1>3 DEF SpfInv, Silent
<1>6. Decided'
  BY <1>3 DEF Decided, Match, ViasOf
<1> QED
  BY <1>3, <1>4, <1>5, <1>6 DEF SpfInv

\* An activation that ends without a match of its own.
LEMMA LeaveInv ==
  ASSUME SpfInv, at.pc \in {"terms", "return"}, stack # <<>>,
         NEW result \in Results, NEW by \in Reasons \ {"depth-limit"}, Leave(result, by),
         lost' \in BOOLEAN, lost' <=> result = "temperror",
         lookups' \in {lookups, lookups + 1},
         lookups' <= spfLookupBudget + 1,
         lookups' <= spfLookupBudget \/ result = "permerror",
         by = "mechanism" /\ result \in {"pass", "fail", "softfail", "neutral"} =>
           decider' \subseteq ViasOf(stack) \cup {"redirect"}
  PROVE  SpfInv'
<1>1. /\ Core' /\ Len(stack) \in Nat /\ Len(stack') = Len(stack) - 1
      /\ at'.pc = "return" /\ at'.result = result /\ at'.by = by
      /\ ViasOf(stack) = ViasOf(stack') \cup {at'.via}
  BY LeaveCore DEF SpfInv
<1>2. Budget'
  BY <1>1, SpfAssumption DEF SpfInv, Budget
<1>3. Silent'
  BY <1>1 DEF Silent
<1>4. Decided'
  BY <1>1 DEF Decided
<1> QED
  BY <1>1, <1>2, <1>3, <1>4 DEF SpfInv

-----------------------------------------------------------------------------
\* A mechanism comes to "failed" exactly when an answer it needs is missing.
LEMMA AskingFacts ==
  ASSUME NEW ask \in Asking
  PROVE  ask.failed \in BOOLEAN /\ (ask.failed <=> ask.outcome = "failed")
<1>1. CASE \E a \in HostAnswers : ask = [outcome |-> a, failed |-> a = "failed"]
  <2>1. PICK a \in HostAnswers : ask = [outcome |-> a, failed |-> a = "failed"]
    BY <1>1
  <2>2. ask.outcome = a /\ ask.failed = (a = "failed")
    BY <2>1
  <2> QED
    BY <2>2
<1>2. CASE \E hosts \in HostLists :
             ask = [outcome |-> mxResolvesToIP(hosts),
                    failed |-> Some(hosts, "failed") /\ ~Some(hosts, "match")]
  <2>1. PICK hosts \in HostLists :
          ask = [outcome |-> mxResolvesToIP(hosts),
                 failed |-> Some(hosts, "failed") /\ ~Some(hosts, "match")]
    BY <1>2
  <2>2. mxResolvesToIP(hosts) = "failed" <=> Some(hosts, "failed") /\ ~Some(hosts, "match")
    BY DEF mxResolvesToIP
  <2> QED
    BY <2>1, <2>2
<1>3. CASE \E hosts \in HostLists :
             ask = [outcome |-> ptrMatches(hosts), failed |-> ptrMatches(hosts) = "failed"]
  <2>1. PICK hosts \in HostLists :
          ask = [outcome |-> ptrMatches(hosts), failed |-> ptrMatches(hosts) = "failed"]
    BY <1>3
  <2>2. ask.outcome = ptrMatches(hosts) /\ ask.failed = (ptrMatches(hosts) = "failed")
    BY <2>1
  <2> QED
    BY <2>2
<1> QED
  BY <1>1, <1>2, <1>3 DEF Asking

\* A call without a name to look up, or that finds none, never starts a record.
LEMMA RefuseInv ==
  ASSUME SpfInv, at.pc = "call",
         NEW result \in Results, NEW by \in {"loop-detected", "record"}, Refuse(result, by),
         lost' \in BOOLEAN, lost' <=> result = "temperror",
         UNCHANGED <<lookups, decider>>
  PROVE  SpfInv'
<1>1. at \in Places
  BY DEF SpfInv, Core
<1>2. /\ at' \in Places /\ at'.pc = "return" /\ at'.result = result /\ at'.by = by
      /\ at'.via = at.via
  BY <1>1, ZenonT(40) DEF Refuse, Places, Reasons
<1>3. stack' = stack /\ seen' = seen
  BY DEF Refuse
<1>4. Core'
  BY <1>2, <1>3 DEF SpfInv, Core, Deep
<1>5. Budget'
  <2>1. Len(stack) \in Nat
    BY LenProperties DEF SpfInv, Core
  <2> QED
    BY <1>2, <1>3, <2>1, SpfAssumption DEF SpfInv, Budget
<1>6. Silent'
  BY <1>2 DEF Silent
<1>7. Decided'
  BY <1>2 DEF Decided
<1> QED
  BY <1>4, <1>5, <1>6, <1>7 DEF SpfInv

\* A domain that is not under evaluation gets an activation of its own.
LEMMA EnterInv ==
  ASSUME SpfInv, at.pc = "call", at.domain \notin seen,
         at' = [at EXCEPT !.pc = "terms"],
         NEW f \in Frames, f.domain = at.domain, f.via = at.via,
         stack' = stack \o <<f>>, seen' = seen \cup {at.domain},
         ~lost, lost' = FALSE, UNCHANGED <<lookups, decider>>
  PROVE  SpfInv'
<1> DEFINE n == Len(stack)
<1>1. stack \in Seq(Frames) /\ at \in Places
  BY DEF SpfInv, Core
<1>2. /\ stack' \in Seq(Frames) /\ n \in Nat /\ Len(stack') = n + 1
      /\ \A i \in 1..n : stack'[i] = stack[i]
      /\ stack'[n + 1] = f
  BY <1>1, PushFacts
<1>3. at' \in Places /\ at'.pc = "terms" /\ at'.by = at.by
  BY <1>1 DEF Places
<1>4. at.domain \in Domains
  BY DEF SpfInv, Core
<1> HIDE DEF n
<1>5. Deep(stack') = Deep(stack) \cup {at.domain}
  <2>1. Deep(stack) = {stack[i].domain : i \in 1..n}
    BY DEF Deep, n
  <2>2. Deep(stack') = {stack'[i].domain : i \in 1..(n + 1)}
    BY <1>2 DEF Deep
  <2>3. 1..(n + 1) = (1..n) \cup {n + 1}
    BY <1>2
  <2>4. Deep(stack') = {stack'[i].domain : i \in 1..n} \cup {stack'[n + 1].domain}
    BY <2>2, <2>3
  <2>5. {stack'[i].domain : i \in 1..n} = {stack[i].domain : i \in 1..n}
    BY <1>2
  <2> QED
    BY <1>2, <2>1, <2>4, <2>5
<1>6. stack' # <<>>
  BY <1>2, EmptySeq
<1>7. \A i \in 1..Len(stack') : stack'[i].via = "top" <=> i = 1
  <2>1. at.via = "top" <=> n = 0
    BY <1>1, <1>2, EmptySeq DEF SpfInv, Core, n
  <2> QED
    BY <1>2, <2>1 DEF SpfInv, Core, n
<1>8. \A i, j \in 1..Len(stack') : stack'[i].domain = stack'[j].domain => i = j
  <2>1. \A i \in 1..n : stack[i].domain # at.domain
    BY DEF SpfInv, Core, Deep, n
  <2> QED
    BY <1>2, <2>1 DEF SpfInv, Core, n
<1>9. Core'
  BY <1>2, <1>3, <1>4, <1>5, <1>6, <1>7, <1>8 DEF SpfInv, Core
<1>10. Budget'
  BY <1>2, <1>3, SpfAssumption DEF SpfInv, Budget, n
<1>11. Silent' /\ Decided'
  BY <1>3 DEF Silent, Decided
<1> QED
  BY <1>9, <1>10, <1>11 DEF SpfInv

-----------------------------------------------------------------------------
\* In a record nothing is lost, the budget is kept and the frame is well typed.
LEMMA InRecord ==
  ASSUME SpfInv, at.pc = "terms"
  PROVE  /\ stack # <<>> /\ Top \in Frames /\ ~lost
         /\ lookups \in Nat /\ lookups <= spfLookupBudget
         /\ Len(stack) \in Nat /\ Len(stack) <= lookups + 1
<1>1. stack \in Seq(Frames) /\ stack # <<>>
  BY DEF SpfInv, Core
<1>2. Top \in Frames /\ Len(stack) \in Nat
  BY <1>1, PopFacts DEF Top
<1>3. ~lost
  BY DEF SpfInv, Silent
<1> QED
  BY <1>1, <1>2, <1>3 DEF SpfInv, Budget

\* A term that decides nothing, or the call of an included domain.
LEMMA ReadInv ==
  ASSUME SpfInv, Reading,
         NEW f \in Frames, f.domain = Top.domain, f.via = Top.via, f.terms = Top.terms,
         Read(f), seen' = seen, lost' = FALSE, decider' = decider,
         lookups' \in {lookups, lookups + 1}, lookups' <= spfLookupBudget,
         at' = at \/ (lookups' = lookups + 1 /\ \E d \in Domains : Calling(d, "include"))
  PROVE  SpfInv'
<1>1. at.pc = "terms" /\ Top.terms < MaxTerms
  BY DEF Reading
<1>2. /\ lookups \in Nat /\ Len(stack) \in Nat /\ Len(stack) <= lookups + 1
  BY <1>1, InRecord
<1>3. Core' /\ Len(stack') = Len(stack)
  BY <1>1, ReadStays DEF SpfInv
<1>4. CASE at' = at
  <2>1. Budget'
    BY <1>1, <1>2, <1>3, <1>4, SpfAssumption DEF SpfInv, Budget
  <2>2. Silent' /\ Decided'
    BY <1>1, <1>4 DEF Silent, Decided
  <2> QED
    BY <1>3, <2>1, <2>2, SMTT(20) DEF SpfInv
<1>5. CASE lookups' = lookups + 1 /\ \E d \in Domains : Calling(d, "include")
  <2>1. at'.pc = "call" /\ at'.by = "none"
    BY <1>5 DEF Calling
  <2>2. Budget'
    BY <1>2, <1>3, <1>5, <2>1, SpfAssumption, SMTT(20) DEF SpfInv, Budget
  <2>3. Silent' /\ Decided'
    BY <2>1 DEF Silent, Decided
  <2> QED
    BY <1>3, <2>2, <2>3 DEF SpfInv
<1> QED
  BY <1>4, <1>5

\* The evaluation starts, or has nothing to start with.
LEMMA StartInv == SpfInv /\ evaluateSPF => SpfInv'
<1> SUFFICES ASSUME SpfInv, evaluateSPF PROVE SpfInv'
  OBVIOUS
<1>1. /\ at.pc = "idle" /\ stack = <<>> /\ stack \in Seq(Frames) /\ Len(stack) = 0 /\ ~lost
      /\ stack' = stack /\ seen' = seen /\ lookups' = lookups /\ lost' = lost
  BY DEF SpfInv, Core, Silent, evaluateSPF
<1>2. /\ at' \in Places /\ at'.via = "top" /\ at'.result = "none" /\ at'.by \in {"none", "missing"}
      /\ at'.pc = "done" \/ (at'.pc = "call" /\ at'.domain \in Domains)
  <2>1. CASE \E d \in Domains : Calling(d, "top")
    BY <2>1 DEF Calling, Places, Vias, Results, Reasons, NoResult
  <2>2. CASE at' = [Idle EXCEPT !.pc = "done", !.by = "missing"]
    <3>1. at' = [pc |-> "done", via |-> "top", domain |-> NoDomain, result |-> NoResult,
                 by |-> "missing"]
      BY <2>2 DEF Idle
    <3> QED
      BY <3>1 DEF Places, Vias, Results, Reasons, NoResult
  <2> QED
    BY <2>1, <2>2 DEF evaluateSPF
<1>3. Core'
  BY <1>1, <1>2 DEF SpfInv, Core, Deep
<1>4. Budget'
  BY <1>1, <1>2, SpfAssumption DEF SpfInv, Budget
<1>5. Silent'
  BY <1>1, <1>2 DEF SpfInv, Silent
<1>6. Decided'
  BY <1>2 DEF Decided
<1> QED
  BY <1>3, <1>4, <1>5, <1>6 DEF SpfInv

\* checkSPFDomain up to its record.
LEMMA EnterDomainInv == SpfInv /\ EnterDomain => SpfInv'
<1> SUFFICES ASSUME SpfInv, EnterDomain PROVE SpfInv'
  OBVIOUS
<1>1. /\ at.pc = "call" /\ ~lost /\ lost \in BOOLEAN /\ UNCHANGED <<lookups, decider>>
      /\ at \in Places /\ at.domain \in Domains
  BY DEF SpfInv, Core, Silent, EnterDomain
<1>2. CASE Len(stack) > DepthLimit
  <2>1. Len(stack) \in Nat /\ lookups \in Nat
    BY LenProperties DEF SpfInv, Core, Budget
  <2> QED
    BY <1>1, <1>2, <2>1, SpfAssumption, SMTT(20) DEF SpfInv, Budget
<1>3. CASE Refuse("permerror", "loop-detected") /\ UNCHANGED lost
  <2>1. "permerror" \in Results
    BY DEF Results
  <2> QED
    BY <1>1, <1>3, <2>1, RefuseInv, SMTT(20)
<1>4. ASSUME at.domain \notin seen, NEW txt \in TxtAnswers, lost' = (lost \/ txt = "failed"),
             IF lookupSPFRecord(txt) # "record"
             THEN Refuse(lookupSPFRecord(txt), "record")
             ELSE /\ at' = [at EXCEPT !.pc = "terms"]
                  /\ stack' = stack \o <<[domain |-> at.domain, via |-> at.via, terms |-> 0,
                                          redirect |-> NoDomain, qualifier |-> "+"]>>
                  /\ seen' = seen \cup {at.domain}
      PROVE  SpfInv'
  <2>1. /\ lookupSPFRecord(txt) \in Results \cup {"record"}
        /\ lookupSPFRecord(txt) = "temperror" <=> txt = "failed"
    BY DEF lookupSPFRecord, TxtAnswers, Results
  <2>2. lost' \in BOOLEAN /\ (lost' <=> lookupSPFRecord(txt) = "temperror")
    BY <1>1, <1>4, <2>1
  <2>3. CASE lookupSPFRecord(txt) # "record"
    BY <1>1, <1>4, <2>1, <2>2, <2>3, RefuseInv
  <2>4. CASE lookupSPFRecord(txt) = "record"
    <3> DEFINE f == [domain |-> at.domain, via |-> at.via, terms |-> 0,
                     redirect |-> NoDomain, qualifier |-> "+"]
    <3>1. f \in Frames /\ f.domain = at.domain /\ f.via = at.via
      BY <1>1, SpfAssumption DEF Frames, Places
    <3>2. lost' = FALSE
      BY <2>2, <2>4
    <3>3. /\ at' = [at EXCEPT !.pc = "terms"]
          /\ stack' = stack \o <<f>> /\ seen' = seen \cup {at.domain}
      BY <1>4, <2>4
    <3> HIDE DEF f
    <3> QED
      BY <1>1, <1>4, <3>1, <3>2, <3>3, EnterInv
  <2> QED
    BY <2>3, <2>4
<1> QED
  BY <1>2, <1>3, <1>4, SMTT(20) DEF EnterDomain

\* A term of no consequence, and an address that matches.
LEMMA TermInv == SpfInv /\ (SkipTerm \/ MatchTerm) => SpfInv'
<1> SUFFICES ASSUME SpfInv, SkipTerm \/ MatchTerm PROVE SpfInv'
  OBVIOUS
<1>1. Reading /\ at.pc = "terms"
  BY DEF SkipTerm, MatchTerm, Reading
<1>2. stack # <<>> /\ Top \in Frames /\ ~lost /\ lookups \in Nat /\ lookups <= spfLookupBudget
  BY <1>1, InRecord
<1>3. lost \in BOOLEAN
  BY DEF SpfInv, Silent
<1>4. CASE SkipTerm
  <2>1. PICK d \in Domains \cup {Top.redirect} : Read([Top EXCEPT !.redirect = d])
    BY <1>4 DEF SkipTerm
  <2> DEFINE f == [Top EXCEPT !.redirect = d]
  <2>2. f \in Frames /\ f.domain = Top.domain /\ f.via = Top.via /\ f.terms = Top.terms
    BY <1>2 DEF Frames
  <2>3. at' = at /\ seen' = seen /\ lookups' = lookups /\ lost' = FALSE /\ decider' = decider
    BY <1>2, <1>3, <1>4 DEF SkipTerm, Stay
  <2> HIDE DEF f
  <2>4. Read(f)
    BY <2>1 DEF f
  <2> QED
    BY <1>1, <1>2, <2>2, <2>3, <2>4, ReadInv
<1>5. CASE MatchTerm
  <2>1. PICK q \in {"+", "-", "~", "?"} : Match(q)
    BY <1>5 DEF MatchTerm
  <2>2. lookups' = lookups /\ lost' = lost
    BY <1>5 DEF MatchTerm
  <2> QED
    BY <1>1, <1>2, <2>1, <2>2, MatchInv
<1> QED
  BY <1>4, <1>5

\* a, mx, exists and ptr.
LEMMA HostTermInv == SpfInv /\ HostTerm => SpfInv'
<1> SUFFICES ASSUME SpfInv, HostTerm PROVE SpfInv'
  OBVIOUS
<1>1. Reading /\ at.pc = "terms" /\ Top.terms < MaxTerms /\ lookups' = lookups + 1
  BY DEF HostTerm, Reading
<1>2. stack # <<>> /\ Top \in Frames /\ ~lost /\ lookups \in Nat /\ lookups <= spfLookupBudget
  BY <1>1, InRecord
<1>3. lost \in BOOLEAN /\ lookups' <= spfLookupBudget + 1
  BY <1>1, <1>2, SpfAssumption DEF SpfInv, Silent
<1>4. "permerror" \in Results /\ "temperror" \in Results
      /\ "lookup-limit" \in Reasons \ {"depth-limit"} /\ "mechanism" \in Reasons \ {"depth-limit"}
  BY DEF Results, Reasons
<1>5. CASE OverBudget /\ Leave("permerror", "lookup-limit") /\ UNCHANGED <<lost, decider>>
  <2>1. lost' \in BOOLEAN /\ (lost' <=> "permerror" = "temperror")
    BY <1>2, <1>3, <1>5
  <2> QED
    BY <1>1, <1>2, <1>3, <1>4, <1>5, <2>1, LeaveInv
<1>6. ASSUME ~OverBudget, NEW ask \in Asking, NEW q \in {"+", "-", "~", "?"},
             lost' = (lost \/ ask.failed),
             CASE ask.outcome = "match" -> Match(q)
               [] ask.outcome = "failed" -> Leave("temperror", "mechanism") /\ UNCHANGED decider
               [] OTHER -> Read(Top) /\ Stay /\ UNCHANGED decider
      PROVE  SpfInv'
  <2>1. ask.failed \in BOOLEAN /\ (ask.failed <=> ask.outcome = "failed")
    BY <1>6, AskingFacts
  <2>2. lost' \in BOOLEAN /\ (lost' <=> ask.outcome = "failed")
    BY <1>2, <1>3, <1>6, <2>1, SMTT(20)
  <2>3. lookups' <= spfLookupBudget
    BY <1>1, <1>2, <1>6, SpfAssumption, SMTT(20) DEF OverBudget
  <2>4. CASE ask.outcome = "match"
    <3>1. Match(q)
      BY <1>6, <2>4
    <3>2. lost' = lost
      BY <1>2, <1>3, <2>2, <2>4, SMTT(20)
    <3> QED
      BY <1>1, <1>2, <2>3, <3>1, <3>2, MatchInv
  <2>5. CASE ask.outcome = "failed"
    <3>1. Leave("temperror", "mechanism")
      BY <1>6, <2>5
    <3> QED
      BY <1>1, <1>2, <1>3, <1>4, <2>2, <2>3, <2>5, <3>1, LeaveInv, SMTT(20)
  <2>6. CASE ask.outcome \notin {"match", "failed"}
    <3>1. Read(Top) /\ at' = at /\ seen' = seen /\ decider' = decider
      BY <1>6, <2>6 DEF Stay
    <3>2. lost' = FALSE
      BY <2>2, <2>6, SMTT(20)
    <3> QED
      BY <1>1, <1>2, <2>3, <3>1, <3>2, ReadInv
  <2> QED
    BY <2>4, <2>5, <2>6
<1> QED
  BY <1>5, <1>6 DEF HostTerm

\* include: and the end of a record.
LEMMA CallInv == SpfInv /\ (IncludeTerm \/ EndOfRecord) => SpfInv'
<1> SUFFICES ASSUME SpfInv, IncludeTerm \/ EndOfRecord PROVE SpfInv'
  OBVIOUS
<1>1. at.pc = "terms"
  BY DEF IncludeTerm, EndOfRecord, Reading
<1>2. /\ stack # <<>> /\ Top \in Frames /\ ~lost /\ lookups \in Nat /\ lookups <= spfLookupBudget
      /\ Len(stack) \in Nat /\ Len(stack) <= lookups + 1
  BY <1>1, InRecord
<1>3. lost \in BOOLEAN /\ lost' = lost /\ decider' = decider
  BY DEF SpfInv, Silent, IncludeTerm, EndOfRecord
<1>4. lost' \in BOOLEAN /\ lost' = FALSE
  BY <1>2, <1>3
<1>5. lookups' \in {lookups, lookups + 1} /\ lookups' <= spfLookupBudget + 1
  BY <1>2, SpfAssumption DEF IncludeTerm, EndOfRecord
<1>6. ASSUME NEW by \in Reasons \ {"depth-limit"}, Leave("permerror", by)
      PROVE  SpfInv'
  <2>1. "permerror" \in Results
    BY DEF Results
  <2> QED
    BY <1>1, <1>2, <1>4, <1>5, <1>6, <2>1, LeaveInv
<1>7. "lookup-limit" \in Reasons \ {"depth-limit"} /\ "mechanism" \in Reasons \ {"depth-limit"}
      /\ "default-neutral" \in Reasons \ {"depth-limit"} /\ "neutral" \in Results
  BY DEF Reasons, Results
<1>8. CASE Leave("permerror", "lookup-limit") \/ Leave("permerror", "mechanism")
  BY <1>6, <1>7, <1>8
<1>9. ASSUME Reading, ~OverBudget, NEW d \in Domains, NEW q \in {"+", "-", "~", "?"},
             Read([Top EXCEPT !.qualifier = q]), Calling(d, "include"), UNCHANGED seen,
             lookups' = lookups + 1
      PROVE  SpfInv'
  <2> DEFINE f == [Top EXCEPT !.qualifier = q]
  <2>1. f \in Frames /\ f.domain = Top.domain /\ f.via = Top.via /\ f.terms = Top.terms
    BY <1>2, <1>9 DEF Frames
  <2>2. lookups' <= spfLookupBudget
    BY <1>2, <1>9, SpfAssumption DEF OverBudget
  <2> HIDE DEF f
  <2>3. Read(f)
    BY <1>9 DEF f
  <2> QED
    BY <1>3, <1>4, <1>9, <2>1, <2>2, <2>3, ReadInv
<1>10. CASE Leave("neutral", "default-neutral") /\ UNCHANGED lookups
  BY <1>1, <1>2, <1>4, <1>5, <1>7, <1>10, LeaveInv, SMTT(20)
<1>11. ASSUME Top.redirect # NoDomain, lookups' = lookups + 1, ~OverBudget,
              Calling(Top.redirect, "redirect"), UNCHANGED <<stack, seen>>
       PROVE  SpfInv'
  <2>1. /\ at' \in Places /\ at'.pc = "call" /\ at'.domain \in Domains /\ at'.via = "redirect"
        /\ at'.by = "none"
    BY <1>2, <1>11, SMTT(20) DEF Calling, Places, Frames, Vias, Results, Reasons, NoResult
  <2>2. Core'
    BY <1>2, <1>11, <2>1, SMTT(20) DEF SpfInv, Core, Deep
  <2>3. Budget'
    BY <1>2, <1>11, <2>1, SpfAssumption, SMTT(20) DEF Budget, OverBudget
  <2>4. Silent' /\ Decided'
    BY <1>4, <2>1 DEF Silent, Decided
  <2> QED
    BY <2>2, <2>3, <2>4, SMTT(20) DEF SpfInv
<1>12. CASE IncludeTerm
  BY <1>8, <1>9, <1>12, SMTT(20) DEF IncludeTerm
<1>13. CASE EndOfRecord
  BY <1>8, <1>10, <1>11, <1>13 DEF EndOfRecord
<1> QED
  BY <1>12, <1>13

\* A call returns to the activation that made it.
LEMMA ReturnInv == SpfInv /\ ReturnToCaller => SpfInv'
<1> SUFFICES ASSUME SpfInv, ReturnToCaller PROVE SpfInv'
  OBVIOUS
<1>1. /\ at.pc = "return" /\ at \in Places /\ stack \in Seq(Frames)
      /\ lookups' = lookups /\ lost' = lost
  BY DEF SpfInv, Core, ReturnToCaller
<1>2. /\ lost \in BOOLEAN /\ (lost <=> at.result = "temperror")
      /\ lookups \in Nat /\ lookups <= spfLookupBudget + 1 /\ at.by # "depth-limit"
      /\ at.result # "permerror" => lookups <= spfLookupBudget
  BY <1>1, SpfAssumption DEF SpfInv, Silent, Budget
<1>3. lost' \in BOOLEAN /\ (lost' <=> at.result = "temperror")
  BY <1>1, <1>2
<1>4. at.result \in Results /\ at.by \in Reasons \ {"depth-limit"} /\ at.via \in Vias
  BY <1>1, <1>2 DEF Places
<1>5. at.via # "top" => stack # <<>>
  BY <1>1 DEF SpfInv, Core
<1>6. "mechanism" \in Reasons \ {"depth-limit"}
  BY SMTT(20) DEF Reasons
<1>7. CASE at.via = "top" /\ at' = [at EXCEPT !.pc = "done"] /\ UNCHANGED <<stack, seen, decider>>
  <2>1. /\ at' \in Places /\ at'.pc = "done" /\ at'.via = "top" /\ at'.result = at.result
        /\ at'.by = at.by
    BY <1>1, <1>7 DEF Places
  <2>2. stack' = <<>> /\ stack' = stack /\ seen' = seen
    BY <1>1, <1>7, SMTT(20) DEF SpfInv, Core
  <2>3. Core'
    BY <2>1, <2>2 DEF SpfInv, Core, Deep
  <2>4. Budget'
    BY <1>1, <1>2, <2>1 DEF Budget
  <2>5. Silent'
    BY <1>3, <2>1 DEF Silent
  <2>6. Decided'
    BY <1>1, <1>7, <2>1, <2>2, SMTT(20) DEF SpfInv, Decided, ViasOf
  <2> QED
    BY <2>3, <2>4, <2>5, <2>6 DEF SpfInv
<1>8. CASE at.via = "redirect" /\ Leave(at.result, at.by) /\ UNCHANGED decider
  <2>1. at.by = "mechanism" /\ at.result \in {"pass", "fail", "softfail", "neutral"} =>
          decider' \subseteq ViasOf(stack) \cup {"redirect"}
    BY <1>1, <1>8 DEF SpfInv, Decided
  <2> QED
    BY <1>1, <1>2, <1>3, <1>4, <1>5, <1>8, <2>1, LeaveInv, SMTT(20)
<1>9. CASE Included
  <2>1. stack # <<>> /\ at.via = "include"
    BY <1>5, <1>9 DEF Included
  <2>2. CASE at.result = "pass"
    <3>1. Match(Top.qualifier)
      BY <1>9, <2>2 DEF Included
    <3> QED
      BY <1>1, <1>2, <2>1, <2>2, <3>1, MatchInv, SMTT(20)
  <2>3. CASE at.result \in {"temperror", "permerror"}
    <3>1. Leave(at.result, "mechanism")
      BY <1>9, <2>3 DEF Included
    <3> QED
      BY <1>1, <1>2, <1>3, <1>4, <1>6, <2>1, <2>3, <3>1, LeaveInv, SMTT(20)
  <2>4. CASE at.result \notin {"pass", "temperror", "permerror"}
    <3>1. at' = [at EXCEPT !.pc = "terms"] /\ UNCHANGED <<stack, seen, decider>>
      BY <1>9, <2>4 DEF Included
    <3>2. at' \in Places /\ at'.pc = "terms" /\ at'.by = at.by
      BY <1>1, <3>1 DEF Places
    <3>3. Core'
      BY <2>1, <3>1, <3>2 DEF SpfInv, Core, Deep
    <3>4. Budget'
      BY <1>1, <1>2, <2>4, <3>1, <3>2 DEF SpfInv, Budget
    <3>5. Silent' /\ Decided'
      BY <1>3, <2>4, <3>2 DEF Silent, Decided
    <3> QED
      BY <3>3, <3>4, <3>5 DEF SpfInv
  <2> QED
    BY <2>2, <2>3, <2>4
<1> QED
  BY <1>7, <1>8, <1>9, SMTT(20) DEF ReturnToCaller

\* The state in which an evaluation starts.
LEMMA SpfInitInv == SpfInit => SpfInv
<1> SUFFICES ASSUME SpfInit PROVE SpfInv
  OBVIOUS
<1>1. /\ at = Idle /\ stack = <<>> /\ stack \in Seq(Frames) /\ Len(stack) = 0
      /\ lookups = 0 /\ seen = {} /\ lost = FALSE
  BY DEF SpfInit
<1>2. at \in Places /\ at.pc = "idle" /\ at.by = "none" /\ at.result = "none"
  BY <1>1 DEF Idle, Places, Vias, Results, Reasons, NoResult
<1>3. Core
  BY <1>1, <1>2 DEF Core, Deep
<1>4. Budget
  BY <1>1, <1>2, SpfAssumption DEF Budget
<1>5. Silent /\ Decided
  BY <1>1, <1>2 DEF Silent, Decided
<1> QED
  BY <1>3, <1>4, <1>5 DEF SpfInv

\* The invariant holds through every evaluation of a message.
THEOREM SpfInvariant == Spec => []SpfInv
<1>1. Init => SpfInv
  BY SpfInitInv DEF Init
<1>2. SpfInv /\ [Next]_vars => SpfInv'
  <2> SUFFICES ASSUME SpfInv, [Next]_vars PROVE SpfInv'
    OBVIOUS
  <2>1. CASE SpfStep
    BY <2>1, StartInv, EnterDomainInv, TermInv, HostTermInv, CallInv, ReturnInv
       DEF SpfStep, SpfNext
  <2>2. CASE Stamp
    <3>1. SpfInit'
      BY <2>2, SMTT(20) DEF Stamp, SpfInit, Idle, NoDomain, NoResult
    <3> QED
      BY <3>1, SpfInitInv, PTL
  <2>3. CASE UNCHANGED spfVars
    BY <2>3 DEF spfVars, SpfInv, Core, Budget, Silent, Decided, Deep, ViasOf
  <2> QED
    BY <2>1, <2>2, <2>3 DEF Next, vars, RunnerStep, Report, Reanalyze
<1> QED
  BY <1>1, <1>2, PTL DEF Spec

\* For every set of domains and every lookup budget: the loop detection map holds
\* exactly the domains under evaluation, so a reported loop is one.
THEOREM LoopsAreReal == Spec => []LoopIsReal
<1>1. SpfInv => LoopIsReal
  BY DEF SpfInv, Core, LoopIsReal, Deep
<1> QED
  BY <1>1, SpfInvariant, PTL

\* For every budget that is no larger than the depth limit: the evaluation is ended
\* by the budget, never by the depth.
THEOREM BudgetEndsEvaluation == Spec => []BudgetStopsFirst
<1>1. SpfInv => BudgetStopsFirst
  BY DEF SpfInv, Budget, BudgetStopsFirst
<1> QED
  BY <1>1, SpfInvariant, PTL

\* However deep the includes and redirects: the result is "temperror" exactly when a
\* question it rests on was not answered.
THEOREM OutageIsTemperror == Spec => []SilenceIsTemperror
<1>1. SpfInv => SilenceIsTemperror
  BY SMTT(20) DEF SpfInv, Silent, SilenceIsTemperror
<1> QED
  BY <1>1, SpfInvariant, PTL

\* A verdict never rests on a term of an included record.
THEOREM OwnPolicyDecides == Spec => []OwnPolicy
<1>1. SpfInv => OwnPolicy
  <2> SUFFICES ASSUME SpfInv, at.pc = "done", at.by = "mechanism",
                      at.result \in {"pass", "fail", "softfail", "neutral"}
               PROVE  "include" \notin decider
    BY DEF OwnPolicy
  <2>1. stack = <<>> /\ at.via = "top"
    BY DEF SpfInv, Core
  <2>2. ViasOf(stack) = {}
    BY <2>1 DEF ViasOf
  <2> QED
    BY <2>1, <2>2 DEF SpfInv, Decided
<1> QED
  BY <1>1, SpfInvariant, PTL
=============================================================================
