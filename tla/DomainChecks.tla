---------------------------- MODULE DomainChecks ----------------------------
(***************************************************************************)
(* What ScanPal measures of a domain from the outside: the registry (RDAP, *)
(* whois), DNS, the certificate, the mail records, the subdomains and the  *)
(* reputation lists (packages/scan-core/src/domain-net.ts, the pure half   *)
(* in packages/shared/src/domain.ts and reputation.ts, the lists in        *)
(* apps/worker/src/lib/threat-intelligence.ts), and what the checks make   *)
(* of it.                                                                  *)
(*                                                                         *)
(* z is the zone as it is; up is the set of sources that answer.  A source *)
(* that does not answer looks like one that has nothing to say.            *)
(***************************************************************************)
EXTENDS CheckKit

CONSTANTS ExpiryDays,   \* DOMAIN_EXPIRY_ALERT_DAYS = 30, EXPIRY_WARN_DAYS
          TlsDays       \* DOMAIN_TLS_ALERT_DAYS = 14, TLS_RUNWAY_WARN_DAYS

Null        == -1       \* a column that is null
Bit(b)      == IF b THEN 1 ELSE 0
NetSources  == {"rdap", "whois", "ns", "ds", "caa", "tls"}
Fields      == {"domain_expiry", "dnssec_enabled", "caa_present", "tls_expiry", "nameservers", "caa_records"}

(* One measurement. *)
ParseRdap(z)             == IF z.rdapExpiry THEN z.expiry ELSE Null
FetchRdapDomain(z, up)   == IF "rdap" \in up THEN ParseRdap(z) ELSE Null
WhoisExpiry(z, up)       == IF "whois" \in up THEN z.expiry ELSE Null
QueryDnsRecords(z, up)   ==
    [nameservers    |-> IF "ns" \in up THEN z.ns ELSE {},
     dnssec_enabled |-> Bit("ds" \in up /\ z.dnssec),
     caa_records    |-> IF "caa" \in up THEN z.caa ELSE {}]

\* The handshake verifies the certificate: one that has expired is a handshake that fails.
MeasureTlsExpiry(z, up, today) == IF "tls" \in up /\ z.tls >= today THEN z.tls ELSE Null

MeasureDomain(z, up, today) ==
    LET rdap == FetchRdapDomain(z, up)
        dns  == QueryDnsRecords(z, up)
    IN  [domain_expiry  |-> IF rdap = Null THEN WhoisExpiry(z, up) ELSE rdap,
         dnssec_enabled |-> dns.dnssec_enabled,
         caa_present    |-> Bit(dns.caa_records # {}),
         tls_expiry     |-> MeasureTlsExpiry(z, up, today),
         nameservers    |-> dns.nameservers,
         caa_records    |-> dns.caa_records]

(* The daily watch: what changed, and which changes are told. *)
DiffDomainMeasurement_Number(prev, next) ==      \* wrong: counts the nameservers
    {f \in Fields \ {"nameservers"} : prev[f] # next[f]}
    \union {f \in {"nameservers"} : Cardinality(prev[f]) # Cardinality(next[f])}

DiffDomainMeasurement(prev, next) == {f \in Fields : prev[f] # next[f]}

Within(date, today, days) == date # Null /\ date - today < days

DomainAlerts_Unchanged(diffs, next, today) ==    \* wrong: tells of a near date every day
    {f \in {"domain_expiry"} : Within(next[f], today, ExpiryDays)} \union (diffs \intersect {"nameservers"})

DomainAlerts(diffs, next, today) ==
    {f \in diffs : CASE f = "domain_expiry"  -> Within(next[f], today, ExpiryDays)
                     [] f = "tls_expiry"     -> Within(next[f], today, TlsDays)
                     [] f = "dnssec_enabled" -> next[f] = 0
                     [] f = "nameservers"    -> TRUE
                     [] f = "caa_present"    -> next[f] = 1
                     [] OTHER                -> FALSE}

(* domain-watchtower.ts: the same measurement as a check; it never says "pass". *)
EvaluateDomainMeasurement(m, today) ==
    IF Within(m.domain_expiry, today, 0) THEN "fail"
    ELSE IF \/ Within(m.domain_expiry, today, ExpiryDays)
            \/ Within(m.tls_expiry, today, TlsDays)
            \/ m.dnssec_enabled = 0 THEN "warn"
    ELSE "info"

DomainWatchtowerCheck(sees, F) ==
    {Result("domain-watchtower", OnMeasured(sees, EvaluateDomainMeasurement(F, 0)))}

\* A date that has passed is -2 here: today is 0, and -1 is no date.
Zones == [expiry: {-2, 0, ExpiryDays, ExpiryDays + 1}, rdapExpiry: BOOLEAN,
          tls: {-2, 0, TlsDays, TlsDays + 1}, dnssec: BOOLEAN, ns: {{"ns1"}}, caa: {{}, {"issue"}}]
DomainFacts == {MeasureDomain(z, NetSources \ down, 0) : z \in Zones, down \in SUBSET {"rdap", "whois", "tls", "ds"}}

(* dns-email.ts: the TXT and MX records of the domain; no answer looks like no record. *)
SpfRecords   == {"-all", "~all", "all", "+all", "?all", "many lookups"}
DmarcRecords == {"none", "quarantine", "reject", "missing"}

ParseSpf(txt)   == IF txt = {} THEN {"no spf"} ELSE txt \intersect {"+all", "?all", "many lookups"}
ParseDmarc(txt, rua) == IF txt = {} THEN {"no dmarc"} ELSE txt \union (IF rua THEN {"rua"} ELSE {})

ResolveEmailDns(r, up) ==
    (IF "mx" \in up /\ r.mx THEN {} ELSE {"no mx"})
    \union ParseSpf(IF "txt" \in up THEN r.spf ELSE {})
    \union ParseDmarc(IF "dmarc" \in up THEN r.dmarc ELSE {}, r.rua)

EmailFacts ==
    {ResolveEmailDns(r, up) : r \in [mx: BOOLEAN, spf: Few(SpfRecords, 1), dmarc: Few(DmarcRecords, 1), rua: BOOLEAN],
                              up \in SUBSET {"mx", "txt", "dmarc"}}

EvaluateEmailDns(F) ==
    IF "no mx" \in F THEN "info"
    ELSE IF Meets(F, {"no dmarc", "none"}) THEN "fail"
    ELSE IF \/ "quarantine" \in F /\ "rua" \notin F
            \/ Meets(F, {"no spf", "+all", "?all"}) THEN "warn"
    ELSE "info"

DnsEmailCheck(sees, F) == {Result("dns-email", OnMeasured(sees, EvaluateEmailDns(F)))}

(* subdomain-takeover.ts: F is the set of the probes of the subdomains found. *)
VulnerableServices == {"github.io", "s3"}        \* VULNERABLE_SERVICE_SUFFIXES
MatchVulnerableService(target) == target \in VulnerableServices

\* probeCnameTakeover: A or AAAA of the target; a lookup that fails finds none.
ProbeCnameTakeover(sub, up) ==
    [cname_target    |-> IF "cname" \in up THEN sub.target ELSE "none",
     target_resolves |-> sub.target # "none" /\ sub.claimed /\ "a" \in up]

ClassifyTakeover(probe) ==
    IF probe.cname_target = "none" \/ probe.target_resolves THEN "info"
    ELSE IF MatchVulnerableService(probe.cname_target) THEN "high" ELSE "medium"

\* enumerateSubdomains: the sitemap, and crt.sh when it answers; at most MAX_CANDIDATES.
EnumerateSubdomains(sitemap, crtsh, up) == sitemap \union (IF "crt.sh" \in up THEN crtsh ELSE {})

Subdomains    == [target: {"none", "s3", "elsewhere"}, claimed: BOOLEAN]
TakeoverFacts ==
    {{ClassifyTakeover(ProbeCnameTakeover(s, up)) : s \in EnumerateSubdomains(sitemap, crtsh, up)}
       : sitemap \in Few(Subdomains, 1), crtsh \in Few(Subdomains, 2), up \in SUBSET {"cname", "a", "crt.sh"}}

EvaluateSubdomainTakeover(F) == IF "high" \in F THEN "fail" ELSE IF "medium" \in F THEN "warn" ELSE "info"
SubdomainTakeoverCheck(sees, F) ==
    {Result("subdomain-takeover", OnMeasured(sees, EvaluateSubdomainTakeover(F)))}

(* threat-intel.ts: what the lists say, as <<source, category>>. *)
\* A DQS answer: an error code or a foreign address means that nothing was asked at all.
ParseSpamhausDqsAnswers(zone, answers) ==
    IF Meets(answers, {"127.255.255", "127.0.1.255", "elsewhere"}) THEN {}
    ELSE {<<"spamhaus", zone>> : a \in answers \intersect {"127.0"}}

Edge == <<"edge", "edge">>     \* a CDN answers for the site

SpamhausLookup(a)      == ParseSpamhausDqsAnswers("DBL", a.dbl) \union ParseSpamhausDqsAnswers("ZEN", a.zen)
UrlhausLookup(a)       == IF a.urlhaus = "records" THEN {<<"urlhaus", "listed">>} ELSE {}
SafeBrowsingLookup(a)  == {<<"safe-browsing", m>> : m \in a.matches}
VirusTotalLookup(a)    == {<<"virustotal", v>> : v \in a.virustotal}

\* The worst confidence of the addresses that could be asked, from 25 on.
AbuseIpdbLookup(a)     == {<<"abuseipdb", c>> : c \in a.confidence \intersect {25, 75}}

ThreatIntelLookup(a) ==
    UNION {SpamhausLookup(a), UrlhausLookup(a), SafeBrowsingLookup(a), VirusTotalLookup(a), AbuseIpdbLookup(a)}
    \union (IF a.edge THEN {Edge} ELSE {})

ThreatAnswers ==
    [dbl: {{}, {"127.0"}, {"127.0", "127.0.1.255"}}, zen: {{}, {"127.0"}, {"127.255.255"}},
     urlhaus: {"no key", "unreachable", "no results", "records"},
     matches: {{}, {"MALWARE"}, {"other"}},
     virustotal: {{}, {"1 suspicious"}, {"2 suspicious"}, {"1 malicious"}, {"2 malicious"}},
     confidence: {{}, {0}, {25}, {75}}, edge: BOOLEAN]
ThreatFacts == {ThreatIntelLookup(a) : a \in ThreatAnswers}

ClassifyReputation(F) ==
    LET listed    == {p[1] : p \in F \ {Edge}}
        ipBased   == {"abuseipdb"} \union (IF <<"spamhaus", "DBL">> \in F THEN {} ELSE {"spamhaus"})
        origin    == IF Edge \in F THEN listed \ ipBased ELSE listed
        Says(s)   == \E p \in s : p[1] \in origin /\ p \in F
    IN  IF listed = {} THEN "info"
        ELSE IF \/ Cardinality(origin) > 1
                \/ Says({<<"urlhaus", "listed">>, <<"spamhaus", "DBL">>, <<"safe-browsing", "MALWARE">>,
                         <<"virustotal", "2 malicious">>}) THEN "high"
        ELSE IF Says({<<"spamhaus", "ZEN">>, <<"virustotal", "1 malicious">>, <<"virustotal", "2 suspicious">>,
                      <<"abuseipdb", 75>>}) THEN "medium"
        ELSE "low"

InlineStatus(severity) ==
    CASE severity = "high" -> Rated("threat-intel", "fail", "high")
      [] severity \in {"medium", "low"} -> Rated("threat-intel", "warn", severity)
      [] OTHER -> Result("threat-intel", "info")

ThreatIntelCheck(sees, F) ==
    {IF sees = "ok" THEN InlineStatus(ClassifyReputation(F)) ELSE Result("threat-intel", "info")}
=============================================================================
