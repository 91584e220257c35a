------------------------------ MODULE DnsLookup ------------------------------
(***************************************************************************)
(* What a DNS question can come back as (internal/analyzer/dns.go and      *)
(* internal/dnsfallback).  A resolver's answer is one of five; the helpers *)
(* fold it into the three states every check must tell apart.              *)
(***************************************************************************)
EXTENDS Integers, Sequences

Answers == {"records", "nodata", "nxdomain", "servfail", "timeout"}

\* Fault variant: any error is read as "no such record".
classifyDNSError_AnyErrorAbsent(answer) ==
  IF answer = "records" THEN "ok" ELSE "absent"

\* Only an authoritative negative answer is "absent"; an unknown error never is.
classifyDNSError(answer) ==
  IF answer = "records" THEN "ok"
  ELSE IF answer \in {"nodata", "nxdomain"} THEN "absent"
  ELSE "unavailable"

DNSLookupFailed(answer) == classifyDNSError(answer) = "unavailable"

\* asciiDomain: a name with no DNS form is never asked about.
Asked(nameOk, answer) == IF nameOk THEN classifyDNSError(answer) ELSE "absent"

\* lookupMX, lookupIPAddr, lookupHost, lookupAddr.
lookup(nameOk, answer) == Asked(nameOk, answer)

-----------------------------------------------------------------------------
\* The local resolver first; if it finds nothing, the external ones in order
\* (those asked before the context ended).  If none finds a record the caller
\* gets what the local resolver said.
LookupTXTSource(local, externals) ==
  IF local = "records" \/ \E i \in DOMAIN externals : externals[i] = "records"
  THEN "records" ELSE local

lookupTXT(nameOk, local, externals) ==
  Asked(nameOk, LookupTXTSource(local, externals))

-----------------------------------------------------------------------------
\* dnsRecords: the query that also shows DNSSEC and TLSA records.  A truncated
\* answer is asked again over TCP; a response code other than success or
\* NXDOMAIN is no answer.
dnsRecords(udp, tcp) ==
  LET reply == IF udp = "truncated" THEN tcp ELSE udp
  IN  IF reply = "truncated" THEN "ok" ELSE classifyDNSError(reply)

\* What a blocklist can answer.
DnsblAnswers == {"listed", "foreign", "nxdomain", "refused", "timeout"}

\* Fault variant: a list that refuses to answer has answered.
dnsblListed_RefusalIsAnswer(answer) ==
  [listed |-> answer = "listed", answered |-> answer # "timeout"]

\* NXDOMAIN means not listed, a refusal code or no answer means the list told
\* nothing, a 127.0.* address means listed, any other address not.
dnsblListed(answer) ==
  [listed   |-> answer = "listed",
   answered |-> answer \in {"listed", "foreign", "nxdomain"}]

\* The IP blocklists count every address that is not a refusal as a listing.
rblListed(answer) ==
  [listed   |-> answer \in {"listed", "foreign"},
   answered |-> answer \in {"listed", "foreign", "nxdomain"}]

-----------------------------------------------------------------------------
\* The record at one _dmarc name: TXT records that do not start with v=DMARC1
\* are not DMARC records.
dmarcRecordsAt(txt, isDmarc) ==
  IF txt = "ok" /\ ~isDmarc THEN "absent" ELSE txt

\* lookupDMARCRecord: the From domain, then (only if that answered "absent" and
\* the organisational domain differs) the organisational domain.
lookupDMARCRecord(at, orgDiffers, atOrg) ==
  LET org == at = "absent" /\ orgDiffers
      status == IF org THEN atOrg ELSE at
  IN  [found |-> status = "ok", viaOrg |-> org, status |-> status]
=============================================================================
