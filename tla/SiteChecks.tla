----------------------------- MODULE SiteChecks ------------------------------
(***************************************************************************)
(* The http checks that ask more than one question of a site: security.txt *)
(* and the favicon and 404 page beside it, robots.txt and the sitemap,     *)
(* internal links, and the five compliance signals.  A question that gets  *)
(* no answer is answered as if the thing were not there, and only the      *)
(* question a check starts with makes it give up.                          *)
(***************************************************************************)
EXTENDS CheckKit, SequencesExt

(* security-txt.ts: three fetches; a failed one counts as an absent file. *)
SecurityTxtFlags == {"no security.txt", "no contact", "no expires", "expired",
                     "no favicon", "soft 404", "plain 404"}
ParseSecurityTxt(F) == IF "no security.txt" \in F THEN {"no security.txt"}
                       ELSE F \intersect {"no contact", "no expires", "expired"}
SecurityTxtFacts == {F \in Few(SecurityTxtFlags, 3) :
                        /\ F \intersect {"no security.txt", "no contact", "no expires", "expired"} = ParseSecurityTxt(F)
                        /\ ~({"no expires", "expired"} \subseteq F)
                        /\ ~({"soft 404", "plain 404"} \subseteq F)}
EvaluateSecurityTxt(F) ==
    Verdict(ParseSecurityTxt(F) # {}, Meets(F, {"no favicon", "soft 404", "plain 404"}))
SecurityTxtCheck(sees, F) ==
    LET G == IF sees = "unreachable" THEN {"no security.txt", "no favicon", "soft 404"} ELSE F
    IN  {Result("security-txt", EvaluateSecurityTxt(G))}

(* robots-sitemap.ts: the text of both files, whatever their HTTP status. *)
RobotsFlags  == {"no robots", "no wildcard agent", "parse errors", "no sitemap directive"}
SitemapFlags == {"no sitemap", "not xml", "no loc", "invalid urls"}
InspectRobots(text)  == IF "no robots" \in text THEN {"no robots", "no sitemap directive"} ELSE text \intersect RobotsFlags
InspectSitemap(text) == IF "no sitemap" \in text THEN {"no sitemap"}
                        ELSE IF "not xml" \in text THEN {"not xml"} ELSE text \intersect SitemapFlags
RobotsSitemapFacts   == {InspectRobots(r) \union InspectSitemap(s) : r \in Few(RobotsFlags, 2), s \in Few(SitemapFlags, 2)}

RobotsStatus(F)  == Verdict("no robots" \in F, Meets(F, {"no wildcard agent", "parse errors"}))
SitemapStatus(F) ==
    Verdict(\/ "no sitemap" \in F /\ "no sitemap directive" \notin F
            \/ Meets(F, {"not xml", "no loc"}),
            Meets(F, {"no sitemap", "invalid urls"}))
EvaluateRobotsSitemap_Sitemap(F) ==          \* wrong: what is wrong with the sitemap hides robots.txt
    IF SitemapStatus(F) # "pass" THEN SitemapStatus(F) ELSE RobotsStatus(F)
EvaluateRobotsSitemap(F) ==
    LET both == {RobotsStatus(F), SitemapStatus(F)} IN Verdict("fail" \in both, "warn" \in both)
RobotsSitemapCheck(sees, F) ==
    {Result("robots-sitemap", CASE sees = "limited"     -> "warn"
                                [] sees = "unreachable" -> EvaluateRobotsSitemap(InspectRobots({"no robots"}) \union {"no sitemap"})
                                [] OTHER                -> EvaluateRobotsSitemap(F))}

(* mini-crawl.ts: images without alt, and routes of the sitemap the home page does not link to. *)
MiniCrawlFlags == {"no alt", "orphans"}
DetectOrphanPages(sitemapSeen, F) == IF sitemapSeen THEN F \intersect {"orphans"} ELSE {}
AuditImageAlts(F)  == F \intersect {"no alt"}
MiniCrawlFacts     == {AuditImageAlts(F) \union DetectOrphanPages(seen, F) : F \in SUBSET MiniCrawlFlags, seen \in BOOLEAN}
MiniCrawlCheck(sees, F) ==
    {Result("mini-crawl", IF sees = "limited" THEN "warn"
                          ELSE OnHtml(sees, "fail", "warn", Verdict(FALSE, F # {})))}

(* compliance.ts: the signals of the page, the links of its footer and the privacy page. *)
ComplianceIds == {"cookie-banner", "consent-api", "privacy-policy", "legal-pages", "gdpr-signals"}
LegalKinds    == {"terms", "imprint", "contact"}
LegalOrder    == <<"terms", "imprint", "contact">>

\* findLegalLinks: each link counts for the first kind it speaks of that has none yet.
FindLegalLinks(links) ==
    LET Take(found, words) ==
            LET free == SelectSeq(LegalOrder, LAMBDA k : k \in words \ found)
            IN  IF free = <<>> THEN found ELSE found \union {Head(free)}
    IN  FoldSeq(LAMBDA words, found : Take(found, words), {}, links)

FooterLinks == {<<>>} \union {<<a>> : a \in SUBSET LegalKinds} \union {<<a, b>> : a, b \in SUBSET LegalKinds}

\* privacyPolicyCheck: the link is followed when the limit allows it.
PrivacyPages == {"no link", "limited", "unreachable", "http error"} \union {"no date", "no email", "good"}
PrivacyPolicyCheck(page) == CASE page = "http error" -> "fail" [] page = "good" -> "pass" [] OTHER -> "warn"

\* The pages as facts: what is missing of signals, legal links and the privacy page.
LegalFacts(links)  == IF Cardinality(FindLegalLinks(links)) >= 2 THEN {} ELSE {"few legal links"}
PrivacyFacts(page) == IF page = "good" THEN {} ELSE {page}
Detected(marks)    == marks \intersect {"cmp", "consent api", "gdpr"}
ComplianceFacts    == {({"no cmp", "no consent api", "no gdpr"} \ {"no " \o d : d \in Detected(marks)})
                          \union LegalFacts(links) \union PrivacyFacts(page)
                        : marks \in SUBSET {"cmp", "consent api", "gdpr"}, links \in FooterLinks, page \in PrivacyPages}

ComplianceCheck(sees, F) ==
    LET Lacks(id, fact) == Result(id, Verdict(FALSE, fact \in F))
    IN  IF sees # "ok" THEN {Result(id, "warn") : id \in ComplianceIds}
        ELSE {Lacks("cookie-banner", "no cmp"), Lacks("consent-api", "no consent api"),
              Lacks("gdpr-signals", "no gdpr"), Lacks("legal-pages", "few legal links"),
              Result("privacy-policy",
                     PrivacyPolicyCheck(IF F \intersect PrivacyPages = {} THEN "good"
                                        ELSE CHOOSE page \in PrivacyPages : page \in F))}
=============================================================================
