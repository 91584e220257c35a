---------------------------- MODULE SpfEvaluation ----------------------------
(***************************************************************************)
(* The SPF evaluator of the receiving side (cmd/sender-report/auth.go):    *)
(* checkSPFDomain calls itself for include and redirect, matchSPFMechanism *)
(* asks the DNS.  A frame is one activation of checkSPFDomain that has its *)
(* record; the record is met term by term, any sequence of at most         *)
(* MaxTerms terms, and differs freely from one lookup to the next.         *)
(* Names, addresses and prefix lengths are reduced to what they decide.    *)
(***************************************************************************)
EXTENDS Integers, Sequences, FiniteSets

CONSTANTS Domains,
          spfLookupBudget,  \* mechanisms that may ask the DNS
          DepthLimit,       \* nesting of checkSPFDomain
          MaxTerms          \* terms of a record

ASSUME SpfAssumption ==
  /\ spfLookupBudget \in Nat /\ DepthLimit \in Nat /\ MaxTerms \in Nat
  /\ DepthLimit >= spfLookupBudget

VARIABLES
  at,       \* where the evaluation is: about to call, in a record, returning, done
  stack,    \* the activations, innermost last
  lookups,  \* the counter shared by all of them
  seen,     \* the loop detection map
  lost,     \* history: a question the result rests on was not answered
  decider   \* history: how the activation that matched last was reached

spfVars == <<at, stack, lookups, seen, lost, decider>>

Results == {"pass", "fail", "softfail", "neutral", "none", "temperror", "permerror"}
Vias == {"top", "include", "redirect"}
Reasons == {"none", "depth-limit", "loop-detected", "record", "lookup-limit",
            "mechanism", "default-neutral", "missing"}
NoDomain == "none"
NoResult == "none"

SpfTypeOK ==
  /\ at \in [pc : {"idle", "call", "terms", "return", "done"}, via : Vias,
             domain : Domains \cup {NoDomain}, result : Results, by : Reasons]
  /\ stack \in Seq([domain : Domains, via : Vias, terms : 0..MaxTerms,
                    redirect : Domains \cup {NoDomain}, qualifier : {"+", "-", "~", "?"}])
  /\ lookups \in Nat
  /\ seen \subseteq Domains
  /\ lost \in BOOLEAN
  /\ decider \in SUBSET Vias

Idle == [pc |-> "idle", via |-> "top", domain |-> NoDomain, result |-> NoResult, by |-> "none"]

SpfInit ==
  /\ at = Idle /\ stack = <<>> /\ lookups = 0 /\ seen = {}
  /\ lost = FALSE /\ decider = {}

-----------------------------------------------------------------------------
Top == stack[Len(stack)]
Below == SubSeq(stack, 1, Len(stack) - 1)

qualifierToResult(q) ==
  CASE q = "+" -> "pass" [] q = "-" -> "fail" [] q = "~" -> "softfail" [] OTHER -> "neutral"

Calling(domain, via) ==
  at' = [pc |-> "call", via |-> via, domain |-> domain, result |-> NoResult, by |-> "none"]

\* A call that ends before it has a record of its own.
Refuse(result, by) ==
  /\ at' = [at EXCEPT !.pc = "return", !.result = result, !.by = by]
  /\ UNCHANGED <<stack, seen>>

\* Fault variant: the domain is not taken off the map.
Leave_KeepsSeen(result, by) ==
  /\ at' = [pc |-> "return", via |-> Top.via, domain |-> Top.domain,
            result |-> result, by |-> by]
  /\ stack' = Below
  /\ UNCHANGED seen

\* The innermost activation returns; its deferred delete runs.
Leave(result, by) ==
  /\ at' = [pc |-> "return", via |-> Top.via, domain |-> Top.domain,
            result |-> result, by |-> by]
  /\ stack' = Below
  /\ seen' = seen \ {Top.domain}

\* The innermost activation reads its next term.
Reading == at.pc = "terms" /\ Top.terms < MaxTerms
Read(frame) == stack' = Below \o <<[frame EXCEPT !.terms = @ + 1]>>
Stay == UNCHANGED <<at, seen>>

-----------------------------------------------------------------------------
\* evaluateSPF: the envelope domain, else the HELO name; without one, or
\* without the client's address, there is nothing to evaluate.
evaluateSPF ==
  /\ at.pc = "idle"
  /\ \/ \E d \in Domains : Calling(d, "top")
     \/ at' = [Idle EXCEPT !.pc = "done", !.by = "missing"]
  /\ UNCHANGED <<stack, lookups, seen, lost, decider>>

\* lookupSPFRecord: what the TXT records of a domain amount to.
TxtAnswers == {"one", "several", "other", "absent", "failed"}
lookupSPFRecord(txt) ==
  CASE txt = "one" -> "record"
    [] txt = "several" -> "permerror"
    [] txt = "failed" -> "temperror"
    [] OTHER -> "none"

\* checkSPFDomain up to its record: depth, loop, lookup.
EnterDomain ==
  /\ at.pc = "call"
  /\ \/ /\ Len(stack) > DepthLimit
        /\ Refuse("permerror", "depth-limit") /\ UNCHANGED lost
     \/ /\ Len(stack) <= DepthLimit /\ at.domain \in seen
        /\ Refuse("permerror", "loop-detected") /\ UNCHANGED lost
     \/ /\ Len(stack) <= DepthLimit /\ at.domain \notin seen
        /\ \E txt \in TxtAnswers :
             /\ lost' = (lost \/ txt = "failed")
             /\ IF lookupSPFRecord(txt) # "record"
                THEN Refuse(lookupSPFRecord(txt), "record")
                ELSE /\ at' = [at EXCEPT !.pc = "terms"]
                     /\ stack' = stack \o <<[domain |-> at.domain, via |-> at.via, terms |-> 0,
                                             redirect |-> NoDomain, qualifier |-> "+"]>>
                     /\ seen' = seen \cup {at.domain}
  /\ UNCHANGED <<lookups, decider>>

\* redirect= is remembered, the last one wins; other modifiers, unknown
\* mechanisms and addresses that do not match are passed over.
SkipTerm ==
  /\ Reading
  /\ \E d \in Domains \cup {Top.redirect} : Read([Top EXCEPT !.redirect = d])
  /\ Stay /\ UNCHANGED <<lookups, lost, decider>>

\* A match ends the record with the result of its qualifier.
Match(q) ==
  /\ Leave(qualifierToResult(q), "mechanism")
  /\ decider' = {stack[i].via : i \in 1..Len(stack)}

MatchTerm ==
  /\ Reading
  /\ \E q \in {"+", "-", "~", "?"} : Match(q)
  /\ UNCHANGED <<lookups, lost>>

-----------------------------------------------------------------------------
\* hostResolvesToIP for the hosts a mechanism names: each one matches, does not
\* match, or its lookup is not answered.
HostAnswers == {"match", "other", "failed"}
Some(hosts, answer) == \E i \in DOMAIN hosts : hosts[i] = answer

\* Fault variant: a host that cannot be looked up does not match.
mxResolvesToIP_Ignored(hosts) == IF Some(hosts, "match") THEN "match" ELSE "other"

\* mxResolvesToIP: a failed host is remembered; a later match still counts.
mxResolvesToIP(hosts) ==
  IF Some(hosts, "match") THEN "match"
  ELSE IF Some(hosts, "failed") THEN "failed" ELSE "other"

\* The ptr names are tried in order: the first match or failure ends it.
ptrMatches(hosts) ==
  LET ends == {i \in DOMAIN hosts : hosts[i] # "other"}
  IN  IF ends = {} THEN "other" ELSE hosts[CHOOSE i \in ends : \A j \in ends : i <= j]

\* What a mechanism that asks the DNS comes to: a and exists ask once, mx and
\* ptr ask for names first.
HostLists == {<<a>> : a \in HostAnswers} \cup {<<a, b>> : a, b \in HostAnswers}
Asking ==
  {[outcome |-> a, failed |-> a = "failed"] : a \in HostAnswers}
    \cup {[outcome |-> mxResolvesToIP(hosts),
           failed |-> Some(hosts, "failed") /\ ~Some(hosts, "match")] : hosts \in HostLists}
    \cup {[outcome |-> ptrMatches(hosts), failed |-> ptrMatches(hosts) = "failed"] :
            hosts \in HostLists}

\* Fault variant: the mechanism after the last one allowed is still asked.
OverBudget_OffByOne == lookups > spfLookupBudget

OverBudget == lookups' > spfLookupBudget

\* a, mx, exists and ptr.
HostTerm ==
  /\ Reading
  /\ lookups' = lookups + 1
  /\ \/ OverBudget /\ Leave("permerror", "lookup-limit") /\ UNCHANGED <<lost, decider>>
     \/ /\ ~OverBudget
        /\ \E ask \in Asking, q \in {"+", "-", "~", "?"} :
             /\ lost' = (lost \/ ask.failed)
             /\ CASE ask.outcome = "match" -> Match(q)
                  [] ask.outcome = "failed" ->
                       Leave("temperror", "mechanism") /\ UNCHANGED decider
                  [] OTHER -> Read(Top) /\ Stay /\ UNCHANGED decider

\* include: the qualifier waits for the result of the named domain.
IncludeTerm ==
  /\ Reading
  /\ lookups' = lookups + 1
  /\ \/ OverBudget /\ Leave("permerror", "lookup-limit")
     \/ ~OverBudget /\ Leave("permerror", "mechanism")   \* include: without a name
     \/ /\ ~OverBudget
        /\ \E d \in Domains, q \in {"+", "-", "~", "?"} :
             Read([Top EXCEPT !.qualifier = q]) /\ Calling(d, "include")
        /\ UNCHANGED seen
  /\ UNCHANGED <<lost, decider>>

\* No term matched: redirect, else neutral.
EndOfRecord ==
  /\ at.pc = "terms"
  /\ \/ /\ Top.redirect = NoDomain
        /\ Leave("neutral", "default-neutral") /\ UNCHANGED lookups
     \/ /\ Top.redirect # NoDomain
        /\ lookups' = lookups + 1
        /\ \/ OverBudget /\ Leave("permerror", "lookup-limit")
           \/ ~OverBudget /\ Calling(Top.redirect, "redirect") /\ UNCHANGED <<stack, seen>>
  /\ UNCHANGED <<lost, decider>>

-----------------------------------------------------------------------------
\* Fault variant: the result of an included domain is taken as it is.
Included_TakesResult ==
  /\ at.via = "include"
  /\ Leave(at.result, "mechanism") /\ UNCHANGED decider

\* An included domain that passes is a match, an error is passed on, anything
\* else is no match.
Included ==
  /\ at.via = "include"
  /\ CASE at.result = "pass" -> Match(Top.qualifier)
       [] at.result \in {"temperror", "permerror"} ->
            Leave(at.result, "mechanism") /\ UNCHANGED decider
       [] OTHER -> at' = [at EXCEPT !.pc = "terms"] /\ UNCHANGED <<stack, seen, decider>>

\* A call returns to its caller; redirect hands the result on.
ReturnToCaller ==
  /\ at.pc = "return"
  /\ \/ /\ at.via = "top"
        /\ at' = [at EXCEPT !.pc = "done"] /\ UNCHANGED <<stack, seen, decider>>
     \/ at.via = "redirect" /\ Leave(at.result, at.by) /\ UNCHANGED decider
     \/ Included
  /\ UNCHANGED <<lookups, lost>>

SpfNext ==
  evaluateSPF \/ EnterDomain \/ SkipTerm \/ MatchTerm \/ HostTerm \/ IncludeTerm
    \/ EndOfRecord \/ ReturnToCaller

-----------------------------------------------------------------------------
\* An outage never becomes a verdict: the evaluation ends in "temperror" exactly
\* when a question its result rests on went unanswered, however deep in includes
\* and redirects; an unreachable MX host beside a matching one does not count.
SilenceIsTemperror == at.pc = "done" => (lost <=> at.result = "temperror")

\* Only the sender's own policy decides: the matching term of a verdict is one of
\* the sender's record or of the record it redirects to, never of an include.
OwnPolicy ==
  at.pc = "done" /\ at.by = "mechanism" /\ at.result \in {"pass", "fail", "softfail", "neutral"} =>
    "include" \notin decider

\* A loop that is reported is one: the domain is being evaluated right now, and a
\* domain included twice in a row is not a loop.
LoopIsReal ==
  /\ seen = {stack[i].domain : i \in 1..Len(stack)}
  /\ \A i, j \in 1..Len(stack) : stack[i].domain = stack[j].domain => i = j

\* The lookup budget of the whole evaluation is never overrun by more than the
\* mechanism that is refused, and it stops the nesting before the depth limit.
BudgetStopsFirst ==
  /\ lookups <= spfLookupBudget + 1
  /\ at.by # "depth-limit"
=============================================================================
