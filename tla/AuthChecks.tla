----------------------------- MODULE AuthChecks -----------------------------
(***************************************************************************)
(* The authentication checks of a report: SPF, DKIM, DMARC, their          *)
(* alignment and policy strength (internal/analyzer/analyzer.go, dns.go    *)
(* and dkim_diag.go).  Every operator maps the facts to a check result     *)
(* with the delta the code gives it before weighting.                      *)
(***************************************************************************)
EXTENDS AuthResults, Scoring

\* Every lookup of the analysis; an outage answers nothing.
Ask(w, fact) == lookup(w.nameOk, IF Down(w) THEN "timeout" ELSE w[fact])
AskTXT(w, fact) ==
  IF Down(w) THEN lookupTXT(w.nameOk, "timeout", <<>>)
  ELSE lookupTXT(w.nameOk, w[fact], w.externals)

isForwardedMail(w) == w.arc \in {"pass", "fail"} \/ w.arcHeader \/ w.forwardHeader

\* relaxedAligned in the analyzer compares organisational domains.
relaxedAligned(relation, from) ==
  from # "none" /\ relation \in {"same", "aligned", "sub", "sibling"}
AlignedSPF(w) == relaxedAligned(w.envelope, w.from)
AlignedDKIM(w) == w.signature /\ relaxedAligned(w.signer, w.from)

PrimaryKnown(w) == w.from # "none" \/ w.envelope # "none"

-----------------------------------------------------------------------------
\* The SPF record of the envelope domain; with no such domain none is sought.
SpfLookup(w) == IF w.envelope = "none" THEN "ok" ELSE AskTXT(w, "spfTxt")
SpfRecordFound(w) ==
  w.envelope # "none" /\ SpfLookup(w) = "ok" /\ w.spfRecord # "notspf"

SpfCheck(w) ==
  LET res == SpfResult(w)
  IN  IF res = "pass" THEN pass("spf", 40)
      ELSE IF res \in {"fail", "softfail"}
           THEN IF isForwardedMail(w) THEN warn("spf", -30) ELSE fail("spf", -140)
      ELSE IF SpfRecordFound(w) THEN info("spf")
      ELSE IF SpfLookup(w) = "unavailable" THEN unresolved("spf")
      ELSE warn("spf", -80)

-----------------------------------------------------------------------------
\* inspectDKIMKeyRecords: a single record, for e-mail, with a usable key.
KeyUsable(key) == key \in {"rsa2048", "rsa1024", "ed25519"}

\* diagnoseDKIMKey: what the analysis finds under the selector's name.
diagnoseDKIMKey(w) ==
  IF ~w.sigTags THEN "unknown"
  ELSE CASE AskTXT(w, "keyTxt") = "unavailable" -> "unavailable"
         [] AskTXT(w, "keyTxt") = "absent" -> "absent"
         [] OTHER -> IF KeyUsable(w.key) THEN "usable" ELSE "unusable"

\* dkimMissingKeyFinding: only a key that is there now, or a question nobody
\* answered, softens the verdict.
dkimMissingKeyFinding(diag) ==
  IF diag \in {"unavailable", "usable"} THEN warn("dkim", -60)
  ELSE fail("dkim", -120)

\* classifyDKIMFailure, in the order of its cases.
classifyDKIMFailure(w) ==
  CASE DkimDetail(w) = "sha1" ->
         IF w.clock = "before" THEN warn("dkim", -60) ELSE fail("dkim", -100)
    [] DkimDetail(w) = "body length" -> warn("dkim", -50)
    [] DkimDetail(w) \in {"too short", "multiple txt", "mismatch"} -> fail("dkim", -120)
    [] DkimDetail(w) = "expired" -> fail("dkim", -100)
    [] DkimDetail(w) = "key problem" ->
         dkimMissingKeyFinding(IF w.signature THEN diagnoseDKIMKey(w) ELSE "unknown")
    [] OTHER -> fail("dkim", -140)

DkimCheck(w) ==
  LET res == DkimResult(w)
  IN  IF res = "pass" THEN pass("dkim", 40)
      ELSE IF res \in {"fail", "temperror", "permerror"} THEN classifyDKIMFailure(w)
      ELSE IF w.signature THEN warn("dkim", -50) ELSE fail("dkim", -100)

-----------------------------------------------------------------------------
Dmarc(w) ==
  lookupDMARCRecord(dmarcRecordsAt(AskTXT(w, "dmarcTxt"), w.dmarcIs),
                    w.orgDiffers,
                    dmarcRecordsAt(AskTXT(w, "orgTxt"), w.dmarcIs))
DmarcFound(w) == w.from # "none" /\ Dmarc(w).found
DmarcUnavailable(w) == w.from # "none" /\ Dmarc(w).status = "unavailable"

DmarcCheck(w) ==
  IF DmarcResult(w) = "pass" THEN pass("dmarc", 40)
  ELSE IF DmarcFound(w)
       THEN IF AlignedSPF(w) \/ AlignedDKIM(w)
            THEN IF isForwardedMail(w) /\ ~AlignedSPF(w)
                 THEN warn("dmarc", -20) ELSE warn("dmarc", -30)
            ELSE IF isForwardedMail(w) THEN warn("dmarc", -50)
            ELSE fail("dmarc", -100)
  ELSE IF DmarcUnavailable(w) THEN unresolved("dmarc")
  ELSE fail("dmarc", -120)

\* The sp= tag wins for a From domain governed by its organisational domain.
Policy(w) == IF Dmarc(w).viaOrg /\ w.sp # "" THEN w.sp ELSE w.policy
dmarcPolicyCheck(w) ==
  IF ~DmarcFound(w) THEN info("dmarc_policy")
  ELSE IF Policy(w) \in {"reject", "quarantine"}
       THEN IF w.pct < 100 \/ w.sp = "none" THEN warn("dmarc_policy", -20)
            ELSE pass("dmarc_policy", IF Policy(w) = "reject" THEN 30 ELSE 10)
  ELSE IF Policy(w) = "none" THEN warn("dmarc_policy", -30)
  ELSE warn("dmarc_policy", -20)

-----------------------------------------------------------------------------
spfAlignmentCheck(w) ==
  IF w.from # "none" /\ w.envelope # "none" /\ SpfResult(w) = "pass" /\ AlignedSPF(w)
  THEN pass("spf_alignment", 20)
  ELSE IF w.from = "none" \/ w.envelope = "none" \/ SpfResult(w) = "pass"
  THEN warn("spf_alignment", -40)
  ELSE warn("spf_alignment", -50)

dkimAlignmentCheck(w) ==
  IF DkimResult(w) # "pass" THEN warn("dkim_alignment", -50)
  ELSE IF AlignedDKIM(w) THEN pass("dkim_alignment", 20)
  ELSE warn("dkim_alignment", -40)

dmarcAlignmentCheck(w) ==
  IF w.from = "none" THEN warn("dmarc_alignment", -50)
  ELSE IF \/ SpfResult(w) = "pass" /\ AlignedSPF(w)
          \/ DkimResult(w) = "pass" /\ AlignedDKIM(w)
       THEN pass("dmarc_alignment", 20)
  ELSE fail("dmarc_alignment", -90)

-----------------------------------------------------------------------------
\* spfAllQualifier and spfLookupRedirect: with no "all" of its own the record
\* takes that of its redirect target, whose lookup failure reads as none.
EffectiveAll(w) ==
  IF w.spfRecord = "redirect"
  THEN IF ~Down(w) /\ LookupTXTSource(w.redirectTxt, w.externals) = "records"
       THEN "-all" ELSE "none"
  ELSE IF w.spfRecord = "toomany" THEN "-all"
  ELSE w.spfRecord

spfStrictnessCheck(w) ==
  IF ~SpfRecordFound(w) THEN info("spf_strictness")
  ELSE IF EffectiveAll(w) = "+all" THEN fail("spf_strictness", -150)
  ELSE IF w.spfRecord = "toomany" THEN warn("spf_strictness", -60)
  ELSE CASE EffectiveAll(w) = "-all" -> pass("spf_strictness", 0)
         [] EffectiveAll(w) = "~all" -> warn("spf_strictness", 0)
         [] EffectiveAll(w) = "?all" -> warn("spf_strictness", -30)
         [] OTHER -> warn("spf_strictness",
                          IF w.spfRecord = "redirect" THEN -20 ELSE -30)

displayNameCheck(w) ==
  IF w.from = "none" \/ w.displayName = "none" THEN info("display_name")
  ELSE CASE w.displayName = "foreign" -> warn("display_name", -70)
         [] w.displayName = "brand" -> warn("display_name", -60)
         [] OTHER -> pass("display_name", 0)

\* What Analyze appends first.
AuthSection(w) ==
  <<SpfCheck(w), DkimCheck(w), DmarcCheck(w), spfAlignmentCheck(w),
    dkimAlignmentCheck(w), dmarcAlignmentCheck(w), dmarcPolicyCheck(w),
    spfStrictnessCheck(w), displayNameCheck(w)>>
=============================================================================
