---------------------------- MODULE ContentChecks ----------------------------
(***************************************************************************)
(* The checks of a report that read the message itself: envelope and       *)
(* transport headers, MIME structure, links, HTML, subject, header hygiene *)
(* and newsletter duties (internal/analyzer/analyzer.go).                  *)
(***************************************************************************)
EXTENDS AuthChecks

-----------------------------------------------------------------------------
\* Classification by headers: list headers make it bulk, an Auto-Submitted
\* header transactional, anything else is personal.
detectMailType(w) ==
  CASE w.mailHeader = "list" -> "bulk"
    [] w.mailHeader = "auto" -> "transactional"
    [] OTHER -> "personal"
Excused(mailType) == mailType \in {"personal", "transactional"}
ListUnsubscribe(w) == IF w.mailHeader = "list" THEN w.listUnsub ELSE "none"

HasHTML(w) == w.contentType = "ok" /\ w.parts \in {"both", "html"}
HasText(w) == w.contentType = "ok" /\ w.parts \in {"both", "text"}

\* Content that says newsletter although the headers do not.
looksLikeBulkContent(w) == w.bulkPhrase /\ HasHTML(w) /\ w.links >= 5 /\ ~w.thread

\* The classification the report ends with.
FinalMailType(w) ==
  IF detectMailType(w) = "personal" /\ looksLikeBulkContent(w)
  THEN "bulk" ELSE detectMailType(w)

-----------------------------------------------------------------------------
HeloCheck(w) ==
  CASE w.helo = "missing" -> fail("helo", -80)
    [] w.helo = "literal" -> warn("helo", -40)
    [] w.helo = "nodot" -> warn("helo", -30)
    [] OTHER -> pass("helo", 10)

FromAlignmentCheck(w) ==
  IF w.from = "none" \/ w.envelope = "none" THEN warn("from_alignment", -40)
  ELSE IF w.envelope \in {"same", "sub"} THEN pass("from_alignment", 20)
  ELSE warn("from_alignment", -70)

\* A Return-Path without a domain leaves no result at all.
ReturnPathChecks(w) ==
  IF Excused(detectMailType(w)) THEN <<na("return_path")>>
  ELSE CASE w.returnPath = "missing" -> <<warn("return_path", -50)>>
         [] w.returnPath = "unusable" -> <<>>
         [] OTHER -> <<pass("return_path", 10)>>

ReceivedCheck(w) ==
  IF w.received = "none" THEN fail("received_chain", -120) ELSE info("received_chain")

\* Only the newest Received line speaks of the delivery to this server.
tlsTransportCheck(w) ==
  CASE w.received = "tls" -> pass("tls_transport", 10)
    [] w.received = "earlier" -> info("tls_transport")
    [] OTHER -> warn("tls_transport", -20)

ArcCheck(w) == IF w.arc = "fail" THEN warn("arc", -20) ELSE info("arc")
XGoogleCheck(w) ==
  IF w.xGoogle = "fail" THEN warn("x_google_dkim", -20) ELSE info("x_google_dkim")

EnvelopeSection(w) ==
  <<HeloCheck(w), FromAlignmentCheck(w)>> \o ReturnPathChecks(w)
    \o <<IF w.replyTo THEN pass("reply_to", 0) ELSE info("reply_to"),
         ReceivedCheck(w), tlsTransportCheck(w), ArcCheck(w), XGoogleCheck(w)>>

-----------------------------------------------------------------------------
ImageRatioCheck(w) ==
  IF ~HasHTML(w) THEN info("image_text_ratio")
  ELSE CASE w.images = "only" -> fail("image_text_ratio", -70)
         [] w.images = "many" -> warn("image_text_ratio", -40)
         [] w.images = "heavy" -> warn("image_text_ratio", -30)
         [] OTHER -> info("image_text_ratio")

ImageAltCheck(w) ==
  CASE w.images = "none" -> info("image_alt")
    [] w.images # "none" /\ w.alt = "all" -> pass("image_alt", 0)
    [] w.images # "none" /\ w.alt = "none" -> warn("image_alt", -40)
    [] OTHER -> warn("image_alt", -20)

\* A broken Content-Type or boundary ends the inspection with one result.
inspectBody(w) ==
  CASE w.contentType = "bad" -> <<warn("mime_ct", -40)>>
    [] w.contentType = "noboundary" -> <<fail("mime_boundary", -100)>>
    [] OTHER ->
         When(HasText(w), <<pass("plain_text", 10)>>)
           \o When(HasHTML(w) /\ ~HasText(w), <<warn("plain_text", -50)>>)
           \o When(HasHTML(w) /\ HasText(w), <<pass("multipart_alt", 20)>>)
           \o When(HasHTML(w) # HasText(w), <<info("multipart_alt")>>)
           \o When(w.attachments, <<info("attachments")>>)
           \o <<ImageRatioCheck(w)>>
           \o When(HasHTML(w), <<ImageAltCheck(w)>>)
           \o <<IF w.charset = "other" THEN warn("charset", -30)
                ELSE pass("charset", 10)>>

evaluateURLs(w) ==
  <<info("links")>>
    \o When(w.links > 0 /\ w.shortener, <<warn("shortener", -60)>>)
    \o When(w.links > 0 /\ w.tracking, <<info("tracking_links")>>)
    \o When(w.links > 30, <<warn("too_many_links", -30)>>)
    \o When(w.links \in 5..30, <<info("too_many_links")>>)

\* Asked with the classification by headers, before the content is looked at.
templateURLCheck(w) ==
  IF Excused(detectMailType(w)) THEN na("template_urls")
  ELSE IF w.links = 0 THEN info("template_urls")
  ELSE IF w.template THEN fail("template_urls", -60)
  ELSE pass("template_urls", 0)

linkDomainMismatchCheck(w) ==
  IF ~HasHTML(w) \/ w.linkTarget \in {"unparsable", "tracking"}
  THEN info("link_domain_mismatch")
  ELSE IF w.linkTarget = "foreign" THEN fail("link_domain_mismatch", 0)
  ELSE pass("link_domain_mismatch", 0)

\* brokenLinksCheck: a link that only refuses to be probed is not broken.
brokenLinksCheck(w) ==
  IF w.links = 0 \/ w.linkProbe = "unreachable" THEN info("broken_links")
  ELSE IF w.linkProbe = "broken" THEN warn("broken_links", -40)
  ELSE pass("broken_links", 0)
BrokenLinks(w) ==
  IF "broken_links" \in w.enabled THEN brokenLinksCheck(w) ELSE info("broken_links")

htmlHeuristics(w) ==
  IF ~HasHTML(w) THEN <<info("html")>>
  ELSE <<IF w.html = "hidden" THEN warn("hidden_html", -40) ELSE pass("hidden_html", 10),
         IF w.html = "invalid" THEN warn("html_validity", -40) ELSE pass("html_validity", 10),
         CASE w.html = "script" -> fail("harmful_html", -70)
           [] w.html = "refresh" -> warn("harmful_html", -40)
           [] OTHER -> pass("harmful_html", 10)>>

subjectHeuristics(w) ==
  IF w.subject = "missing" THEN <<warn("subject", -70)>>
  ELSE <<pass("subject", 10)>>
         \o When(w.subject = "exclaim", <<warn("subject_exclaim", -40)>>)
         \o When(w.subject = "caps", <<warn("subject_caps", -50)>>)

headerHeuristics(w) ==
  <<CASE w.date = "missing" -> warn("date", -60)
      [] w.date = "unparsable" -> warn("date", -50)
      [] w.date = "skewed" -> warn("date_skew", -40)
      [] OTHER -> pass("date", 10)>>
    \o (IF w.messageId = "missing" THEN <<fail("message_id", -80)>>
        ELSE <<pass("message_id", 10),
               IF w.messageId = "ok" THEN pass("message_id_format", 0)
               ELSE warn("message_id_format", -30)>>)
    \o When(w.fakeReply /\ w.subject # "missing" /\ ~w.thread, <<warn("fake_reply", -40)>>)
    \o When(w.noReply /\ ~w.replyTo, <<warn("no_reply_reply_to", -20)>>)

unicodeObfuscationCheck(w) ==
  CASE w.unicode = "zerowidth" -> warn("unicode", -60)
    [] w.unicode \in {"none", "nonlatin"} -> info("unicode")
    [] OTHER -> pass("unicode", 10)

ContentSection(w) ==
  inspectBody(w) \o evaluateURLs(w)
    \o <<templateURLCheck(w), linkDomainMismatchCheck(w), BrokenLinks(w)>>
    \o htmlHeuristics(w) \o subjectHeuristics(w) \o headerHeuristics(w)
    \o <<unicodeObfuscationCheck(w)>>

-----------------------------------------------------------------------------
OneClickCheck(w) ==
  CASE ListUnsubscribe(w) = "none" -> na("one_click_unsub")
    [] ListUnsubscribe(w) = "https" /\ w.listPost -> pass("one_click_unsub", 10)
    [] OTHER -> warn("one_click_unsub", -30)

\* Fault variant: newsletter duties follow the classification by headers.
newsletterHeuristics_EarlyType(w) ==
  IF Excused(detectMailType(w)) THEN <<na("list_unsub"), na("one_click_unsub")>>
  ELSE <<pass("list_unsub", 20), OneClickCheck(w)>>

\* What bulk mail owes its readers, asked with the final classification.
newsletterHeuristics(w) ==
  IF Excused(FinalMailType(w)) THEN <<na("list_unsub"), na("one_click_unsub")>>
  ELSE <<IF ListUnsubscribe(w) = "none" THEN warn("list_unsub", -70)
         ELSE pass("list_unsub", 20),
         OneClickCheck(w)>>
       \o When(HasHTML(w), <<IF w.preheader THEN info("preheader")
                             ELSE warn("preheader", -20)>>)
=============================================================================
