----------------------------- MODULE AuthResults -----------------------------
(***************************************************************************)
(* How the receiving side turns the verifiers' answers into the SPF, DKIM  *)
(* and DMARC results it writes into the message (cmd/sender-report/auth.go).*)
(* A domain is known by its relation to the From domain: "same", "sub" (a  *)
(* subdomain of it), "sibling" (another subdomain of the same organisation),*)
(* "other"/"foreign" or "none".                                            *)
(***************************************************************************)
EXTENDS Integers, Sequences, MailFacts, DnsLookup

\* Any passing signature wins; then a temporary error, then a permanent one.
\* Without a verified signature the verifier's own error, if any, decides.
evaluateDKIM(verifs, err) ==
  LET Some(v) == \E i \in DOMAIN verifs : verifs[i] = v
  IN  IF verifs = <<>> THEN (IF err = "other" THEN "fail" ELSE err)
      ELSE IF Some("pass") THEN "pass"
      ELSE IF Some("temperror") THEN "temperror"
      ELSE IF Some("permerror") THEN "permerror"
      ELSE "fail"

\* Relaxed alignment here is by suffix: one name contains the other.
domainAligned(relation, strict) ==
  relation \in (IF strict THEN {"same", "aligned"}
                          ELSE {"same", "aligned", "sub"})

\* lookup is what the DMARC library found: "policy", "none" or an error.
evaluateDMARC(from, lookupResult, strict, spf, spfDomain, dkim, dkimDomain) ==
  IF from = "none" THEN "none"
  ELSE IF lookupResult # "policy" THEN lookupResult
  ELSE IF \/ spf = "pass" /\ domainAligned(spfDomain, strict)
          \/ dkim = "pass" /\ domainAligned(dkimDomain, strict)
       THEN "pass" ELSE "fail"

-----------------------------------------------------------------------------
Down(w) == w.dns = "down"
Delivered(w) == w.mode = "delivery"

\* evaluateSPF's early return; otherwise the evaluator's verdict, which is
\* "temperror" when no question is answered.
SpfResult(w) ==
  IF ~Delivered(w) THEN w.spf
  ELSE IF ~w.remoteIP \/ (w.envelope = "none" /\ w.helo = "missing") THEN "none"
  ELSE IF ~w.nameOk THEN "none"
  ELSE IF Down(w) THEN "temperror"
  ELSE w.spf

\* The verifier reports on no signature: there is none, or it gave up.
NoneVerified(w) == ~w.signature \/ w.dkim = "none" \/ w.dkimErr # "none"

DkimResult(w) ==
  IF ~Delivered(w) THEN w.dkim
  ELSE evaluateDKIM(IF NoneVerified(w) THEN <<>>
                    ELSE IF ~w.nameOk THEN <<"permerror">>
                    ELSE IF Down(w) THEN <<"temperror">> ELSE <<w.dkim>>,
                    w.dkimErr)

\* The detail line the verifier leaves: no key for a name that cannot be asked
\* about; "key unavailable" in an outage is none of the known reasons.
DkimDetail(w) ==
  IF ~Delivered(w) \/ NoneVerified(w) THEN w.dkimDetail
  ELSE IF ~w.nameOk THEN "key problem"
  ELSE IF Down(w) THEN "other"
  ELSE w.dkimDetail

DmarcResult(w) ==
  evaluateDMARC(w.from,
                IF ~Delivered(w) THEN w.dmarc ELSE IF ~w.nameOk THEN "none"
                ELSE IF Down(w) THEN "temperror" ELSE w.dmarc,
                w.strict, SpfResult(w), w.envelope, DkimResult(w), w.signer)
=============================================================================
