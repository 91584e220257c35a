---------------------------- MODULE NetworkChecks ----------------------------
(***************************************************************************)
(* The checks of a report that ask the network: the sender's MX, address,  *)
(* DKIM key, MTA-STS, TLS-RPT, BIMI, DNSSEC and DANE records, reverse DNS, *)
(* blocklists, domain age, SpamAssassin and Rspamd (internal/analyzer).    *)
(***************************************************************************)
EXTENDS AuthChecks, FiniteSetsExt

\* A question about an address or a host that came out of the DNS itself.
AskHost(w, fact) == lookup(TRUE, IF Down(w) THEN "timeout" ELSE w[fact])

mxRecordCheck(w) ==
  IF ~PrimaryKnown(w) THEN info("mx_records")
  ELSE CASE Ask(w, "mx") = "unavailable" -> unresolved("mx_records")
         [] Ask(w, "mx") = "absent" -> warn("mx_records", -30)
         [] OTHER -> pass("mx_records", 10)

\* A domain without addresses is fine as long as its MX records are there.
addressRecordCheck(w) ==
  IF ~PrimaryKnown(w) THEN info("address_records")
  ELSE CASE Ask(w, "ip") = "unavailable" -> unresolved("address_records")
         [] Ask(w, "ip") = "ok" -> pass("address_records", 10)
         [] OTHER -> IF Ask(w, "mx") = "ok" THEN info("address_records")
                     ELSE IF Ask(w, "mx") = "unavailable"
                     THEN unresolved("address_records")
                     ELSE warn("address_records", -30)

dkimKeyLengthCheck(w) ==
  IF ~w.signature \/ ~w.sigTags THEN info("dkim_keylength")
  ELSE CASE AskTXT(w, "keyTxt") = "unavailable" ->
              withDetails(unresolved("dkim_keylength"))
         [] AskTXT(w, "keyTxt") = "absent" -> warn("dkim_keylength", -30)
         [] OTHER ->
              CASE w.key \in {"ed25519", "rsa2048", "several", "version", "service"} ->
                     pass("dkim_keylength", 10)
                [] w.key \in {"bad base64", "revoked", "no key"} ->
                     warn("dkim_keylength", -30)
                [] w.key = "unreadable" -> warn("dkim_keylength", -20)
                [] w.key = "not rsa" -> info("dkim_keylength")
                [] w.key = "rsa512" -> fail("dkim_keylength", -100)
                [] w.key = "rsa1024" -> warn("dkim_keylength", -40)

-----------------------------------------------------------------------------
\* Where bounces go: the Return-Path domain, else the envelope domain.
BounceDomain(w) ==
  IF w.returnPath \in {"same", "other"} THEN w.returnPath ELSE w.envelope
BounceAsk(w, own, other) == Ask(w, IF BounceDomain(w) = "same" THEN own ELSE other)

envelopeBounceMXCheck(w) ==
  IF BounceDomain(w) = "none" THEN info("envelope_mx")
  ELSE CASE BounceAsk(w, "mx", "bounceMx") = "unavailable" ->
              withDetails(unresolved("envelope_mx"))
         [] BounceAsk(w, "mx", "bounceMx") = "ok" -> pass("envelope_mx", 10)
         [] OTHER ->
              CASE BounceAsk(w, "ip", "bounceIp") = "unavailable" ->
                     withDetails(unresolved("envelope_mx"))
                [] BounceAsk(w, "ip", "bounceIp") = "ok" -> info("envelope_mx")
                [] OTHER -> warn("envelope_mx", -50)

fromDomainReceiveCheck(w) ==
  IF w.from = "none" \/ BounceDomain(w) = "same" THEN info("from_domain_rcv")
  ELSE CASE Ask(w, "mx") = "ok" -> pass("from_domain_rcv", 0)
         [] \/ Ask(w, "mx") = "unavailable"
            \/ Ask(w, "mx") = "absent" /\ Ask(w, "ip") = "unavailable" ->
              unresolved("from_domain_rcv")
         [] Ask(w, "mx") = "absent" /\ Ask(w, "ip") = "ok" -> info("from_domain_rcv")
         [] OTHER -> warn("from_domain_rcv", -40)

-----------------------------------------------------------------------------
\* The three policy records found by a TXT prefix; all attach their details
\* after the marker.
TxtPolicyCheck(w, id, fact, bonus) ==
  IF ~PrimaryKnown(w) THEN info(id)
  ELSE CASE AskTXT(w, fact) = "unavailable" -> withDetails(unresolved(id))
         [] AskTXT(w, fact) = "ok" -> pass(id, bonus)
         [] OTHER -> info(id)
mtaStsCheck(w) == TxtPolicyCheck(w, "mta_sts", "stsTxt", 15)
tlsRptCheck(w) == TxtPolicyCheck(w, "tls_rpt", "tlsRptTxt", 10)
bimiCheck(w) == TxtPolicyCheck(w, "bimi", "bimiTxt", 10)

AskRaw(w, fact) ==
  IF ~w.nameOk THEN "absent"
  ELSE IF Down(w) THEN "unavailable" ELSE dnsRecords(w[fact], w.tcp)

dnssecCheck(w) ==
  IF ~PrimaryKnown(w) \/ ~w.resolver THEN info("dnssec")
  ELSE CASE AskRaw(w, "dnskey") = "unavailable" -> unresolved("dnssec")
         [] AskRaw(w, "dnskey") = "ok" -> pass("dnssec", 10)
         [] OTHER -> info("dnssec")

daneCheck(w) ==
  IF ~PrimaryKnown(w) \/ ~w.resolver THEN info("dane_tlsa")
  ELSE CASE \/ Ask(w, "mx") = "unavailable"
            \/ Ask(w, "mx") = "ok" /\ AskRaw(w, "tlsa") = "unavailable" ->
              unresolved("dane_tlsa")
         [] Ask(w, "mx") = "ok" /\ AskRaw(w, "tlsa") = "ok" -> pass("dane_tlsa", 10)
         [] OTHER -> info("dane_tlsa")

-----------------------------------------------------------------------------
ptrPlausibility(w) ==
  IF ~w.remoteIP THEN warn("ptr", -40)
  ELSE CASE AskHost(w, "addr") = "unavailable" -> unresolved("ptr")
         [] AskHost(w, "addr") = "absent" -> fail("ptr", -100)
         [] OTHER ->
              CASE AskHost(w, "host") = "unavailable" -> unresolved("ptr")
                [] AskHost(w, "host") = "absent" -> warn("ptr", -50)
                [] ~w.hostMatches -> warn("ptr", -40)
                [] w.helo # "missing" /\ ~(w.helo = "fqdn" /\ w.heloIsHost) ->
                     warn("ptr", -40)
                [] OTHER -> pass("ptr", 20)

ptrPatternCheck(w) ==
  IF ~w.remoteIP THEN info("ptr_pattern")
  ELSE CASE AskHost(w, "addr") = "unavailable" -> unresolved("ptr_pattern")
         [] AskHost(w, "addr") = "absent" -> info("ptr_pattern")
         [] w.dynamicHost -> warn("ptr_pattern", -60)
         [] OTHER -> pass("ptr_pattern", 10)

-----------------------------------------------------------------------------
\* The answers of a list of blocklist providers, read by one of the two rules
\* and counted.
Heard(w, fact) ==
  IF Down(w) THEN [i \in DOMAIN w[fact] |-> "timeout"] ELSE w[fact]
HeardRbl(w) == [i \in DOMAIN w.rbl |-> rblListed(Heard(w, "rbl")[i])]
HeardDnsbl(w, fact) == [i \in DOMAIN w[fact] |-> dnsblListed(Heard(w, fact)[i])]
Listed(read) == Cardinality({i \in DOMAIN read : read[i].listed})
Answered(read) == Cardinality({i \in DOMAIN read : read[i].answered})

rblHeuristics(w) ==
  LET n == Listed(HeardRbl(w))
  IN  IF w.rbl = <<>> \/ ~w.remoteIP THEN info("rbl")
      ELSE IF n >= 2 THEN fail("rbl", IF n >= 3 THEN -300 ELSE -220)
      ELSE IF n = 1 THEN warn("rbl", -130)
      ELSE IF Answered(HeardRbl(w)) = 0 THEN info("rbl")
      ELSE pass("rbl", 10)

\* The domain and link blocklists differ in what they ask about.
Blocklist(id, read, penalty, bonus) ==
  IF Listed(read) > 0 THEN fail(id, penalty)
  ELSE IF Answered(read) = 0 THEN info(id)
  ELSE pass(id, bonus)
domainBlocklistCheck(w) ==
  IF ~PrimaryKnown(w) THEN info("domain_blocklist")
  ELSE Blocklist("domain_blocklist", HeardDnsbl(w, "domainList"), -150, 20)
linkBlocklistCheck(w) ==
  IF w.links = 0 THEN info("link_blocklist")
  ELSE Blocklist("link_blocklist", HeardDnsbl(w, "linkList"), -120, 10)

\* The younger the domain, the more it costs: 2 points at registration, nothing
\* after a year.
AgeDelta(age) ==
  IF age < 365 THEN -((200 * (365 - age) * (365 - age)) \div (365 * 365)) ELSE 0
domainAgeCheck(w) ==
  IF ~PrimaryKnown(w) \/ ~w.rdap \/ Down(w) THEN info("domain_age")
  ELSE CASE AgeDelta(w.age) <= -100 -> fail("domain_age", AgeDelta(w.age))
         [] AgeDelta(w.age) \in -99..-1 -> warn("domain_age", AgeDelta(w.age))
         [] OTHER -> pass("domain_age", 0)

spamAssassinHeuristic(w) ==
  CASE w.spamd = "spam" -> fail("spamassassin", -160)
    [] w.spamd = "close" -> warn("spamassassin", -40)
    [] w.spamd = "ham" -> pass("spamassassin", 0)
    [] OTHER -> info("spamassassin")

rspamdHeuristic(w) ==
  CASE w.rspamd = "reject" -> fail("rspamd", -220)
    [] w.rspamd = "soft reject" -> fail("rspamd", -150)
    [] w.rspamd \in {"greylist", "over"} -> warn("rspamd", -80)
    [] w.rspamd = "no action" -> pass("rspamd", 0)
    [] OTHER -> info("rspamd")

-----------------------------------------------------------------------------
\* The tasks of an analysis, in the order they are listed.
AlwaysTasks ==
  <<"mx_records", "address_records", "dkim_keylength", "envelope_mx", "mta_sts",
    "tls_rpt", "bimi", "dnssec", "dane_tlsa", "ptr", "ptr_pattern",
    "from_domain_rcv">>
Tasks(w) ==
  AlwaysTasks \o When("rbl" \in w.enabled, <<"rbl">>)
    \o When("spamassassin" \in w.enabled, <<"spamassassin">>)
    \o When("rspamd" \in w.enabled, <<"rspamd">>)
    \o When("domain_age" \in w.enabled, <<"domain_age">>)
    \o When("domain_blocklist" \in w.enabled, <<"domain_blocklist", "link_blocklist">>)

NetworkCheck(w, id) ==
  CASE id = "mx_records" -> mxRecordCheck(w)
    [] id = "address_records" -> addressRecordCheck(w)
    [] id = "dkim_keylength" -> dkimKeyLengthCheck(w)
    [] id = "envelope_mx" -> envelopeBounceMXCheck(w)
    [] id = "mta_sts" -> mtaStsCheck(w)
    [] id = "tls_rpt" -> tlsRptCheck(w)
    [] id = "bimi" -> bimiCheck(w)
    [] id = "dnssec" -> dnssecCheck(w)
    [] id = "dane_tlsa" -> daneCheck(w)
    [] id = "ptr" -> ptrPlausibility(w)
    [] id = "ptr_pattern" -> ptrPatternCheck(w)
    [] id = "from_domain_rcv" -> fromDomainReceiveCheck(w)
    [] id = "rbl" -> rblHeuristics(w)
    [] id = "spamassassin" -> spamAssassinHeuristic(w)
    [] id = "rspamd" -> rspamdHeuristic(w)
    [] id = "domain_age" -> domainAgeCheck(w)
    [] id = "domain_blocklist" -> domainBlocklistCheck(w)
    [] id = "link_blocklist" -> linkBlocklistCheck(w)
=============================================================================
