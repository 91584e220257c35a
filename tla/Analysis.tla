------------------------------ MODULE Analysis ------------------------------
(***************************************************************************)
(* Analyze, from the stored message to the scored report, and the rechecks *)
(* a reader triggers afterwards (internal/analyzer/analyzer.go).           *)
(*                                                                         *)
(* The message, the sender's DNS and the options are the facts w.  Analyze *)
(* runs as its sections do, in their order, each appending its checks; a   *)
(* panic may interrupt any of them and is recovered into a partial report. *)
(* The concurrent network section is one step here: CheckRunner shows that *)
(* the runner returns exactly that.  Afterwards single checks are asked    *)
(* again, when the sender's DNS may be unchanged, repaired or unreachable. *)
(*                                                                         *)
(* MaxDeviations bounds how many things are out of the ordinary in one     *)
(* behaviour: unusual facts, panics and rechecks together.                 *)
(***************************************************************************)
EXTENDS NetworkChecks, ContentChecks, Functions

CONSTANT MaxDeviations
ASSUME MaxDeviationsAssumption == MaxDeviations \in Nat

VARIABLES w,        \* the facts
          spent,    \* deviations from the usual so far
          stage,    \* the section Analyze is in
          checks,   \* report.Checks
          score, label, mailType,
          warned,   \* the "incomplete" warning is in the report header
          outcome,  \* "running", "complete", "unparsed" or "panicked"
          last,     \* the check asked again last, or "none"
          told      \* that recheck came with the finding it replaces

vars ==
  <<w, spent, stage, checks, score, label, mailType, warned, outcome, last, told>>

Sections == <<"parse", "auth", "envelope", "content", "newsletter", "network",
              "enrich", "score">>
Recheckable ==
  {"spf", "spf_strictness", "dmarc", "dmarc_policy", "mx_records",
   "address_records", "dkim_keylength", "envelope_mx", "mta_sts", "tls_rpt",
   "bimi", "dnssec", "dane_tlsa", "ptr", "ptr_pattern", "domain_age",
   "domain_blocklist", "link_blocklist", "from_domain_rcv", "broken_links"}

\* The result's fields have their types, the score is a tenth of a point within
\* 0..10 and the label is the one of the score.
TypeOK ==
  /\ stage \in Range(Sections) \cup {"done"}
  /\ spent \in 0..MaxDeviations
  /\ \A i \in DOMAIN checks :
       /\ checks[i].status \in Statuses
       /\ checks[i].delta \in Int
       /\ checks[i].mark \in Marks
  /\ score \in {10 * i : i \in 0..100}
  /\ stage = "done" => label = assignLabel(score)
  /\ warned \in BOOLEAN
  /\ outcome \in {"running", "complete", "unparsed", "panicked"}
  /\ last \in Recheckable \cup {"none"}
  /\ told \in BOOLEAN

Start ==
  /\ stage = "parse" /\ checks = <<>> /\ score = Full /\ label = "none"
  /\ mailType = "none" /\ warned = FALSE /\ outcome = "running" /\ last = "none"
  /\ told = FALSE

Init ==
  /\ Start
  /\ \/ w = Usual /\ spent = 0
     \/ /\ MaxDeviations >= 1 /\ spent = 1
        /\ \E f \in Facts : \E v \in Unusual[f] : w = [Usual EXCEPT ![f] = v]
     \/ /\ MaxDeviations >= 2 /\ spent = 2
        /\ \E f, g \in Facts : \E v \in Unusual[f], u \in Unusual[g] :
             f # g /\ w = [Usual EXCEPT ![f] = v, ![g] = u]

-----------------------------------------------------------------------------
After(s) == LET i == CHOOSE j \in DOMAIN Sections : Sections[j] = s
            IN  Sections[i + 1]

\* mail.ReadMessage and the body; an unreadable message is a report of its own.
ParseMessage ==
  /\ stage = "parse"
  /\ IF w.parse = "failed"
     THEN /\ checks' = <<fail("mime_parse", -200)>>
          /\ score' = clampScore(Full - 200)
          /\ label' = assignLabel(score')
          /\ stage' = "done" /\ outcome' = "unparsed"
          /\ UNCHANGED mailType
     ELSE /\ checks' = When(w.body = "failed", <<warn("body_read", -50)>>)
          /\ mailType' = detectMailType(w)
          /\ stage' = "auth"
          /\ UNCHANGED <<score, label, outcome>>
  /\ UNCHANGED <<w, spent, warned, last, told>>

\* What one of the local sections appends.
Appended(s) ==
  CASE s = "auth" -> AuthSection(w)
    [] s = "envelope" -> EnvelopeSection(w)
    [] s = "content" -> ContentSection(w)
    [] s = "newsletter" -> newsletterHeuristics(w)
    [] OTHER -> <<>>

LocalSection ==
  /\ stage \in {"auth", "envelope", "content", "newsletter"}
  /\ checks' = checks \o Appended(stage)
  /\ mailType' = IF stage = "newsletter" THEN FinalMailType(w) ELSE mailType
  /\ stage' = After(stage)
  /\ UNCHANGED <<w, spent, score, label, warned, outcome, last, told>>

\* Fault variant: a task that panics leaves no result.
NetworkResults_PanicDropsResult(panics) ==
  LET kept == SelectSeq(Tasks(w), LAMBDA id : id \notin panics)
  IN  [i \in DOMAIN kept |-> NetworkCheck(w, kept[i])]

\* runChecksConcurrently: one result per task in task order; a task that panics
\* leaves an error result under its own id.
NetworkResults(panics) ==
  [i \in DOMAIN Tasks(w) |->
     IF Tasks(w)[i] \in panics THEN errorCheck(Tasks(w)[i])
     ELSE NetworkCheck(w, Tasks(w)[i])]

\* A simulated message has no delivery: every network check is a placeholder.
SimulationPlaceholders ==
  LET ids == <<"mx_records", "address_records", "dkim_keylength", "envelope_mx",
               "mta_sts", "tls_rpt", "bimi", "dnssec", "dane_tlsa", "ptr",
               "ptr_pattern", "link_blocklist", "rbl", "from_domain_rcv",
               "domain_age", "domain_blocklist">>
  IN  [i \in DOMAIN ids |-> [info(ids[i]) EXCEPT !.mark = "skipped"]]

NetworkSection ==
  /\ stage = "network"
  /\ IF Delivered(w)
     THEN \E panics \in {{}} \cup {{id} : id \in Range(Tasks(w))} :
            /\ spent + Cardinality(panics) <= MaxDeviations
            /\ spent' = spent + Cardinality(panics)
            /\ checks' = checks \o NetworkResults(panics)
            /\ UNCHANGED warned
     ELSE /\ checks' = checks \o SimulationPlaceholders
          /\ UNCHANGED <<warned, spent>>
  /\ stage' = "enrich"
  /\ UNCHANGED <<w, score, label, mailType, outcome, last, told>>

Enriched(cs) == [i \in DOMAIN cs |-> enrichCheckResult(cs[i])]

Enrich ==
  /\ stage = "enrich"
  /\ checks' = Enriched(checks)
  /\ stage' = "score"
  /\ UNCHANGED <<w, spent, score, label, mailType, warned, outcome, last, told>>

\* The essential gate holds for every report but a simulated one.
FinalScore ==
  IF Delivered(w) THEN Gated(RawScore(checks), checks) ELSE RawScore(checks)

Score ==
  /\ stage = "score"
  /\ score' = FinalScore
  /\ label' = assignLabel(score')
  /\ warned' = (countUnresolved(checks) # {})
  /\ stage' = "done" /\ outcome' = "complete"
  /\ UNCHANGED <<w, spent, checks, mailType, last, told>>

\* A panic outside the isolated tasks: the checks appended so far, an error
\* check, and the plain sum of the deltas as they stand.
Panic ==
  /\ stage \in {"auth", "envelope", "content", "newsletter", "enrich", "score"}
  /\ spent < MaxDeviations /\ spent' = spent + 1
  /\ \E n \in 0..Len(Appended(stage)) :
       checks' = checks \o SubSeq(Appended(stage), 1, n) \o <<errorCheck("analyze")>>
  /\ score' = RawScore(checks')
  /\ label' = assignLabel(score')
  /\ stage' = "done" /\ outcome' = "panicked"
  /\ UNCHANGED <<w, mailType, warned, last, told>>

-----------------------------------------------------------------------------
\* The previous finding as an older client sends it: not at all.
Omitted == [status |-> "", delta |-> 0]

\* The delta a recheck keeps when it could only establish that a record exists:
\* that of the finding it replaces or, if that is unknown, a warning's.
pendingDelta(id, prev) ==
  IF prev.status = "" THEN scoreFor(checkImportance(id), "warn") ELSE prev.delta

\* The record is there, the verdict is not re-verified.
recheckUnconfirmed(id, prev) ==
  LET delta == pendingDelta(id, prev)
  IN  [Result(id, IF delta < 0 THEN "warn" ELSE "info", delta) EXCEPT !.mark = "pending"]

spfRecordRecheck(x, prev) ==
  IF ~PrimaryKnown(x) THEN info("spf")
  ELSE CASE AskTXT(x, "spfTxt") = "unavailable" -> unresolved("spf")
         [] AskTXT(x, "spfTxt") = "ok" /\ x.spfRecord # "notspf" ->
              recheckUnconfirmed("spf", prev)
         [] OTHER -> warn("spf", 0)

spfStrictnessRecheck(x) ==
  IF ~PrimaryKnown(x) THEN info("spf_strictness")
  ELSE IF AskTXT(x, "spfTxt") = "unavailable" THEN unresolved("spf_strictness")
  ELSE spfStrictnessCheck([x EXCEPT !.envelope = IF @ = "none" THEN "same" ELSE @])

dmarcRecordRecheck(x, prev) ==
  IF x.from = "none" THEN info("dmarc")
  ELSE IF Dmarc(x).status = "unavailable" THEN unresolved("dmarc")
  ELSE IF Dmarc(x).found THEN recheckUnconfirmed("dmarc", prev)
  ELSE fail("dmarc", 0)

dmarcPolicyRecheck(x) ==
  IF x.from # "none" /\ Dmarc(x).status = "unavailable"
  THEN unresolved("dmarc_policy") ELSE dmarcPolicyCheck(x)

Recheck(id, x, prev) ==
  enrichCheckResult(
    CASE id = "spf" -> spfRecordRecheck(x, prev)
      [] id = "spf_strictness" -> spfStrictnessRecheck(x)
      [] id = "dmarc" -> dmarcRecordRecheck(x, prev)
      [] id = "dmarc_policy" -> dmarcPolicyRecheck(x)
      [] id = "broken_links" -> brokenLinksCheck(x)
      [] OTHER -> NetworkCheck(x, id))

\* The facts that are answers to a DNS question, and the other ones a change of
\* the sender's DNS can repair.
Questions ==
  {"spfTxt", "redirectTxt", "dmarcTxt", "orgTxt", "keyTxt", "mx", "ip",
   "bounceMx", "bounceIp", "stsTxt", "tlsRptTxt", "bimiTxt", "dnskey", "tlsa",
   "tcp", "addr", "host"}
DnsFacts ==
  Questions \cup {"spfRecord", "dmarcIs", "policy", "sp", "pct", "key",
                 "hostMatches", "dns"}

\* The world when the reader clicks: as it was, with the sender's DNS repaired,
\* or with no resolver answering.
Repaired(x) == [f \in Facts |-> IF f \in DnsFacts THEN Usual[f] ELSE x[f]]
Later(x) == {x, Repaired(x), [x EXCEPT !.dns = "down"]}

\* Only the SPF and DMARC rechecks read the finding they replace.
Unconfirmable == {"spf", "dmarc"}

\* The reader asks one check again; its result, or the error check of one that
\* panics, replaces the old one and the score is derived anew from the checks.
RecheckOne(i, x, panics, prev) ==
  LET id == checks[i].id
      new == [checks EXCEPT ![i] = IF panics THEN errorCheck(id)
                                   ELSE Recheck(id, x, prev)]
  IN  /\ checks' = new
      /\ score' = ComputeScore(new).score
      /\ label' = ComputeScore(new).label
      /\ last' = id /\ told' = (prev # Omitted)
      /\ w' = x

DoRecheck ==
  /\ stage = "done"
  /\ \E i \in DOMAIN checks, panics \in BOOLEAN : \E x \in Later(w) :
       /\ checks[i].id \in Recheckable
       /\ spent' = spent + (IF panics THEN 2 ELSE 1) /\ spent' <= MaxDeviations
       /\ \/ RecheckOne(i, x, panics, checks[i])
          \/ checks[i].id \in Unconfirmable /\ RecheckOne(i, x, panics, Omitted)
  /\ UNCHANGED <<stage, mailType, warned, outcome>>

-----------------------------------------------------------------------------
Next ==
  ParseMessage \/ LocalSection \/ NetworkSection \/ Enrich \/ Score \/ Panic
    \/ DoRecheck

Spec == Init /\ [][Next]_vars

-----------------------------------------------------------------------------
Completed == stage = "done" /\ outcome = "complete"
Fresh == Completed /\ last = "none"
Of(id) == {i \in DOMAIN checks : checks[i].id = id}

\* A score above 9.5 is earned: the report of a delivered message that scores
\* more has all four essential checks, each of them a pass, also when a check's
\* goroutine panicked and after any rechecks.
PerfectIsEarned ==
  Completed /\ Delivered(w) /\ score > essentialPerfectCap =>
    \A id \in Essentials : Of(id) # {} /\ \A i \in Of(id) : checks[i].status = "pass"

\* The label is honest, at its thresholds, whatever else is in the report and
\* after any rechecks: no report is Excellent in which an important or critical
\* check fails, and two failing critical checks make it High Risk.
LabelIsHonest ==
  LET failing == {checks[i].id : i \in {j \in DOMAIN checks : checks[j].status = "fail"}}
  IN  Completed =>
        /\ failing \cap (Kritisch \cup Wichtig) # {} => label # "Excellent"
        /\ Cardinality(failing \cap Kritisch) >= 2 => label = "High Risk"

\* The checks that judge the sender by a DNS question the analysis asks, and
\* their results for the facts y.
DnsChecks ==
  {"spf", "spf_strictness", "dmarc", "dmarc_policy", "mx_records",
   "address_records", "dkim_keylength", "envelope_mx", "mta_sts", "tls_rpt",
   "bimi", "dnssec", "dane_tlsa", "ptr", "ptr_pattern", "from_domain_rcv"}
Judged(y, id) ==
  enrichCheckResult(
    CASE id = "spf" -> SpfCheck(y) [] id = "spf_strictness" -> spfStrictnessCheck(y)
      [] id = "dmarc" -> DmarcCheck(y) [] id = "dmarc_policy" -> dmarcPolicyCheck(y)
      [] OTHER -> NetworkCheck(y, id))

\* The facts, had every question that went unanswered been answered with the
\* record; what the verifiers told the receiving side stays.
AllAnswered ==
  [f \in Facts |->
     IF f = "dns" THEN "up"
     ELSE IF f = "spf" THEN SpfResult(w)
     ELSE IF f \in Questions /\ DNSLookupFailed(w[f]) THEN "records"
     ELSE w[f]]

\* Silence is not evidence: no DNS check costs more than it would, had the
\* questions that went unanswered been answered with the record.  The one
\* exception is the strictness of an SPF record that defers to a redirect
\* target, where spfLookupRedirect reads any error as no record.
SilenceIsNotEvidence ==
  Fresh /\ Delivered(w) =>
    \A i \in DOMAIN checks :
      /\ checks[i].id \in DnsChecks
      /\ ~(checks[i].id = "spf_strictness" /\ w.spfRecord = "redirect")
      => checks[i].delta >= 0 \/ checks[i].delta >= Judged(AllAnswered, checks[i].id).delta

\* An outage is announced: when no question about the sender's domain could be
\* answered, the header of the report says that it is incomplete.
OutageIsAnnounced ==
  Fresh /\ Delivered(w) /\ Down(w) /\ w.nameOk /\ PrimaryKnown(w) => warned

\* Clean means somebody said so: a blocklist check passes only if at least one
\* of its providers answered that the sender is not listed and none listed it; a
\* refusal or a timeout of all of them is no pass.  An address outside 127.0.*
\* is a listing to the IP lists, and no listing to the domain and link lists.
CleanIsAnswered ==
  LET Clean(list, clear) ==
        ~Down(w) /\ Range(list) \cap clear # {}
                 /\ Range(list) \subseteq clear \cup {"refused", "timeout"}
  IN  Fresh => \A i \in DOMAIN checks : checks[i].status = "pass" =>
        /\ checks[i].id = "rbl" => Clean(w.rbl, {"nxdomain"})
        /\ checks[i].id = "domain_blocklist" => Clean(w.domainList, {"nxdomain", "foreign"})
        /\ checks[i].id = "link_blocklist" => Clean(w.linkList, {"nxdomain", "foreign"})

\* Bulk mail is never excused: a report that calls the message bulk, by its
\* headers or by its content, judges its unsubscribe header.
BulkNotExcused ==
  Completed /\ mailType = "bulk" =>
    \A i \in Of("list_unsub") : checks[i].status # "na"

\* Does the recheck of SPF or DMARC get an answer to its question?
GetsAnswer(id, x) ==
  IF id = "spf" THEN PrimaryKnown(x) /\ AskTXT(x, "spfTxt") # "unavailable"
                ELSE x.from # "none" /\ Dmarc(x).status # "unavailable"


\* What unresolvedDetailKey is for: when silence changed the result of a check,
\* the report header says how much of the result is missing.
UnansweredIsAnnounced ==
  Fresh /\ Delivered(w) =>
    \A i \in DOMAIN checks :
      /\ checks[i].id \in DnsChecks
      /\ Judged(w, checks[i].id).status # Judged(AllAnswered, checks[i].id).status
      => warned
=============================================================================
