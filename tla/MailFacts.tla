------------------------------ MODULE MailFacts ------------------------------
(***************************************************************************)
(* What an analysis of a message depends on, as one record of facts about  *)
(* the message, the sender's DNS, the network and the operator's options.  *)
(* Usual is a well set up newsletter with every check enabled; Unusual     *)
(* gives, fact by fact, the other values the checks tell apart.  A DNS     *)
(* fact is what the resolver answers (DnsLookup!Answers).                  *)
(***************************************************************************)
EXTENDS Integers, Sequences, FiniteSets

Usual ==
  [dns |-> "up", externals |-> <<>>, nameOk |-> TRUE, resolver |-> TRUE,
   mode |-> "delivery",
   \* the message as a whole
   parse |-> "ok", body |-> "ok", from |-> "present", envelope |-> "same",
   returnPath |-> "same", helo |-> "fqdn", received |-> "tls",
   replyTo |-> TRUE, displayName |-> "plain", remoteIP |-> TRUE,
   \* what the verifiers tell the receiving side, and forwarding headers
   spf |-> "pass", dkim |-> "pass", dkimErr |-> "none", dkimDetail |-> "none",
   dmarc |-> "policy", strict |-> FALSE,
   arc |-> "none", forwardHeader |-> FALSE, arcHeader |-> FALSE,
   xGoogle |-> "none", clock |-> "before",
   \* the sender's records
   spfTxt |-> "records", spfRecord |-> "-all", redirectTxt |-> "records",
   dmarcTxt |-> "records", dmarcIs |-> TRUE, orgDiffers |-> FALSE,
   orgTxt |-> "records", policy |-> "reject", sp |-> "", pct |-> 100,
   signature |-> TRUE, sigTags |-> TRUE, signer |-> "aligned",
   keyTxt |-> "records", key |-> "rsa2048",
   mx |-> "records", ip |-> "records", bounceMx |-> "records",
   bounceIp |-> "records", stsTxt |-> "records", tlsRptTxt |-> "records",
   bimiTxt |-> "records", dnskey |-> "records", tlsa |-> "records",
   tcp |-> "records", addr |-> "records", host |-> "records",
   hostMatches |-> TRUE, heloIsHost |-> TRUE, dynamicHost |-> FALSE,
   \* reputation services
   rbl |-> <<"nxdomain", "nxdomain">>, domainList |-> <<"nxdomain">>,
   linkList |-> <<"nxdomain">>, age |-> 400, rdap |-> TRUE,
   spamd |-> "ham", rspamd |-> "no action",
   \* headers and content
   mailHeader |-> "list", listUnsub |-> "https", listPost |-> TRUE,
   thread |-> FALSE, bulkPhrase |-> FALSE, contentType |-> "ok",
   parts |-> "both", images |-> "few", alt |-> "all", attachments |-> FALSE,
   charset |-> "utf-8", links |-> 6, shortener |-> FALSE, tracking |-> FALSE,
   template |-> FALSE, linkTarget |-> "own", linkProbe |-> "ok",
   html |-> "clean", subject |-> "plain", date |-> "ok", messageId |-> "ok",
   fakeReply |-> FALSE, noReply |-> FALSE, unicode |-> "plain",
   preheader |-> TRUE,
   \* the operator's options
   enabled |-> {"rbl", "spamassassin", "rspamd", "domain_age",
                "domain_blocklist", "broken_links"}]

NoAnswer == {"nxdomain", "timeout"}
Unusual ==
  [dns |-> {"down"}, externals |-> {<<"timeout">>, <<"timeout", "records">>},
   nameOk |-> {FALSE}, resolver |-> {FALSE}, mode |-> {"simulation"},
   parse |-> {"failed"}, body |-> {"failed"}, from |-> {"none"},
   envelope |-> {"sub", "sibling", "other", "none"},
   returnPath |-> {"other", "missing", "unusable"},
   helo |-> {"missing", "literal", "nodot"},
   received |-> {"plain", "earlier", "unclear", "none"},
   replyTo |-> {FALSE}, displayName |-> {"none", "foreign", "brand"},
   remoteIP |-> {FALSE},
   spf |-> {"fail", "softfail", "neutral", "none", "temperror", "permerror"},
   dkim |-> {"fail", "temperror", "permerror", "none"},
   dkimErr |-> {"temperror", "permerror", "other"},
   dkimDetail |-> {"sha1", "body length", "too short", "expired", "body hash",
                   "key problem", "multiple txt", "mismatch", "other"},
   dmarc |-> {"none", "temperror", "permerror"}, strict |-> {TRUE},
   arc |-> {"pass", "fail"}, forwardHeader |-> {TRUE}, arcHeader |-> {TRUE},
   xGoogle |-> {"pass", "fail"}, clock |-> {"after"},
   spfTxt |-> NoAnswer,
   spfRecord |-> {"~all", "?all", "+all", "noall", "redirect", "toomany",
                  "notspf"},
   redirectTxt |-> NoAnswer, dmarcTxt |-> NoAnswer, dmarcIs |-> {FALSE},
   orgDiffers |-> {TRUE}, orgTxt |-> NoAnswer,
   policy |-> {"quarantine", "none", "other"}, sp |-> {"none", "reject"},
   pct |-> {1}, signature |-> {FALSE}, sigTags |-> {FALSE},
   signer |-> {"sibling", "foreign"}, keyTxt |-> NoAnswer,
   key |-> {"rsa1024", "rsa512", "ed25519", "bad base64", "unreadable",
            "not rsa", "revoked", "several", "version", "service", "no key"},
   mx |-> NoAnswer, ip |-> NoAnswer, bounceMx |-> NoAnswer,
   bounceIp |-> NoAnswer, stsTxt |-> NoAnswer, tlsRptTxt |-> NoAnswer,
   bimiTxt |-> NoAnswer, dnskey |-> {"nodata", "servfail", "truncated"},
   tlsa |-> {"nodata", "servfail", "truncated"}, tcp |-> {"timeout"},
   addr |-> NoAnswer, host |-> NoAnswer, hostMatches |-> {FALSE},
   heloIsHost |-> {FALSE}, dynamicHost |-> {TRUE},
   rbl |-> {<<"listed", "nxdomain">>, <<"listed", "listed">>,
            <<"refused", "timeout">>, <<"refused", "nxdomain">>,
            <<"foreign", "timeout">>},
   domainList |-> {<<>>, <<"foreign">>, <<"nxdomain", "listed">>,
                   <<"refused", "timeout">>, <<"refused", "nxdomain">>},
   linkList |-> {<<>>, <<"nxdomain", "listed">>, <<"refused", "timeout">>,
                 <<"refused", "nxdomain">>},
   age |-> {0, 20, 100, 360}, rdap |-> {FALSE},
   spamd |-> {"spam", "close", "unreadable", "unreachable"},
   rspamd |-> {"reject", "soft reject", "greylist", "over", "under", "error"},
   mailHeader |-> {"plain", "auto"}, listUnsub |-> {"mailto", "none"},
   listPost |-> {FALSE}, thread |-> {TRUE}, bulkPhrase |-> {TRUE},
   contentType |-> {"bad", "noboundary"}, parts |-> {"html", "text", "none"},
   images |-> {"none", "only", "many", "heavy"}, alt |-> {"some", "none"},
   attachments |-> {TRUE}, charset |-> {"other"}, links |-> {0, 2, 31},
   shortener |-> {TRUE}, tracking |-> {TRUE}, template |-> {TRUE},
   linkTarget |-> {"foreign", "tracking", "unparsable"},
   linkProbe |-> {"broken", "unreachable"},
   html |-> {"hidden", "invalid", "script", "refresh"},
   subject |-> {"missing", "exclaim", "caps"},
   date |-> {"missing", "unparsable", "skewed"},
   messageId |-> {"missing", "malformed"}, fakeReply |-> {TRUE},
   noReply |-> {TRUE}, unicode |-> {"none", "zerowidth", "nonlatin"},
   preheader |-> {FALSE}, enabled |-> {{}}]

Facts == DOMAIN Usual
ASSUME FactsAssumption == DOMAIN Unusual = Facts

=============================================================================
