------------------------------- MODULE Scoring -------------------------------
(***************************************************************************)
(* How check results become a score (internal/analyzer/analyzer.go).       *)
(*                                                                         *)
(* A check result keeps what scoring, grouping and the report header read: *)
(* the check's id, its status, its score delta in hundredths of a point    *)
(* and the marker in its technical details ("unresolved", "pending",       *)
(* "skipped", "error" or "none").  Texts, names and links are left out.    *)
(***************************************************************************)
EXTENDS Integers, Sequences

Statuses == {"pass", "warn", "fail", "info", "na"}
Marks == {"none", "unresolved", "pending", "skipped", "error"}

Result(id, status, delta) ==
  [id |-> id, status |-> status, delta |-> delta, mark |-> "none"]

pass(id, delta) == Result(id, "pass", delta)
warn(id, delta) == Result(id, "warn", delta)
fail(id, delta) == Result(id, "fail", delta)
info(id) == Result(id, "info", 0)
na(id) == Result(id, "na", 0)
errorCheck(id) == [Result(id, "info", 0) EXCEPT !.mark = "error"]

\* Fault variant: a lookup that did not answer is not marked.
unresolved_Unmarked(id) == info(id)

\* The third state of a check: the lookup itself did not work.
unresolved(id) == [info(id) EXCEPT !.mark = "unresolved"]

\* Results that are appended only under a condition.
When(cond, results) == IF cond THEN results ELSE <<>>

\* withDetails replaces the whole details map, so a marker set before is lost.
withDetails(c) == [c EXCEPT !.mark = "none"]

-----------------------------------------------------------------------------
Kritisch == {"spf", "dkim", "dmarc", "ptr", "rbl", "domain_blocklist",
             "link_blocklist", "link_domain_mismatch"}
Wichtig == {"spf_strictness", "dkim_keylength", "dmarc_policy",
            "spf_alignment", "dkim_alignment", "dmarc_alignment",
            "from_alignment", "helo", "mx_records", "tls_transport",
            "spamassassin", "rspamd", "display_name", "list_unsub",
            "mime_parse", "mime_ct", "mime_boundary", "message_id",
            "received_chain", "one_click_unsub", "harmful_html"}
Optional == {"mta_sts", "tls_rpt", "bimi", "dnssec", "dane_tlsa", "arc",
             "preheader", "x_google_dkim"}

checkImportance(id) ==
  IF id \in Kritisch THEN "Kritisch"
  ELSE IF id \in Wichtig THEN "Wichtig"
  ELSE IF id \in Optional THEN "Optional"
  ELSE "Empfohlen"

Penalty == [Kritisch  |-> [fail |-> -260, warn |-> -130],
            Wichtig   |-> [fail |-> -130, warn |-> -60],
            Empfohlen |-> [fail |-> -50,  warn |-> -25],
            Optional  |-> [fail |-> 0,    warn |-> 0]]

\* Deductions only: passes and infos are neutral.
scoreFor(importance, status) ==
  IF status \in {"fail", "warn"} THEN Penalty[importance][status] ELSE 0

\* Checks that keep the magnitude they computed themselves.
SelfScored == {"domain_age", "rbl", "spamassassin", "rspamd", "spf_strictness"}


\* The scoring part of enrichCheckResult: N/A is free, a pending recheck and the
\* self-scored checks keep their delta, every other check is weighted by its
\* importance and status.
enrichCheckResult(c) ==
  IF c.status = "na" THEN [c EXCEPT !.delta = 0]
  ELSE IF c.mark = "pending" \/ c.id \in SelfScored THEN c
  ELSE [c EXCEPT !.delta = scoreFor(checkImportance(c.id), c.status)]

-----------------------------------------------------------------------------
Full == 1000
essentialPerfectCap == 950
Essentials == {"spf", "dkim", "dmarc", "ptr"}

\* Clamps to 0..10 points and rounds half up to a tenth of a point.
clampScore(s) ==
  IF s < 0 THEN 0
  ELSE IF s > Full THEN Full
  ELSE ((s + 5) \div 10) * 10

\* Fault variant: Excellent begins at 8.5.
assignLabel_Lenient(s) ==
  IF s >= 850 THEN "Excellent"
  ELSE IF s >= 750 THEN "Good"
  ELSE IF s >= 550 THEN "Needs Work"
  ELSE "High Risk"

assignLabel(s) ==
  IF s >= 900 THEN "Excellent"
  ELSE IF s >= 750 THEN "Good"
  ELSE IF s >= 550 THEN "Needs Work"
  ELSE "High Risk"

\* Every essential check in the report is a pass; absent ones are not required.
essentialsAllPass(checks) ==
  \A i \in DOMAIN checks :
    checks[i].id \in Essentials => checks[i].status = "pass"

\* The deltas of the first n checks.
SumTo(checks) ==
  LET sum[n \in 0..Len(checks)] ==
        IF n = 0 THEN 0 ELSE sum[n - 1] + checks[n].delta
  IN  sum[Len(checks)]

\* 10 plus every delta, clamped.
RawScore(checks) == clampScore(Full + SumTo(checks))

\* The essential gate.
Gated(score, checks) ==
  IF score > essentialPerfectCap /\ ~essentialsAllPass(checks)
  THEN essentialPerfectCap ELSE score

\* Re-derives score and label from a set of checks after a recheck.
ComputeScore(checks) ==
  LET s == Gated(RawScore(checks), checks)
  IN  [score |-> s, label |-> assignLabel(s)]

countUnresolved(checks) ==
  {i \in DOMAIN checks : checks[i].mark = "unresolved"}
=============================================================================
