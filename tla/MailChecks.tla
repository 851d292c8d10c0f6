----------------------------- MODULE MailChecks ----------------------------
(***************************************************************************)
(* The email checks: MX, reverse DNS and blocklists (mx.go, dnsbl.go), SPF *)
(* (spf.go), DMARC (dmarc.go), DKIM (dkim.go), MTA-STS and TLS-RPT         *)
(* (mtasts.go, tlsrpt.go) and STARTTLS (starttls.go), each a function of   *)
(* the network.  Every check loads the MX records first.                   *)
(***************************************************************************)
EXTENDS Spf, MailRecords

(* The fields of a network n that these checks read beyond those of Spf:   *)
(*   exists, mx      the target's name and its MX hosts, "." for null MX   *)
(*   literals        the MX hosts that are IP addresses                    *)
(*   ptr             the names of each address, in their order             *)
(*   expected        the MX hosts the config lists                         *)
(*   zones, lists, refuses   the blocklists, what each lists, and those    *)
(*                   that answer with an error code                        *)
(*   isOrg, dmarc, authorized   whether the target is its organizational   *)
(*                   domain, the _dmarc records, and who accepts reports   *)
(*   selectors, guessed, dkim   the selectors and their TXT records        *)
(*   sts, policy, rpt   the MTA-STS and TLS-RPT records, and the policy    *)
(*   smtp            what each MX host offers                              *)

loadMX(n, verdict) == Ask(n, <<"MX">>, IF ~n.exists THEN Error ELSE verdict)
NullMX(n) == n.mx = {"."}
MXHosts(n) == n.mx \ {"."}
ReceivesMail(n) == ~NullMX(n) /\ MXHosts(n) # {}

\* The checks of inbound mail have nothing to say of a domain without any.
Inbound(n, verdict) == loadMX(n, IF ReceivesMail(n) THEN verdict ELSE {})

MXMissing(n) == loadMX(n, If(~NullMX(n) /\ MXHosts(n) = {}, OnTarget))

\* mxAddrs: what fails for one host fails the check.
NamedMX(n) == MXHosts(n) \ n.literals
AfterMXAddrs(n, verdict) ==
    Inbound(n, IF \E h \in NamedMX(n) : LookupAddrs(n, h) = Error THEN Error ELSE verdict)

MXUnresolvable(n) ==
    AfterMXAddrs(n, {About(h) : h \in {x \in MXHosts(n) : x \in n.literals \/ LookupAddrs(n, x) = {}}})

MXUnexpected(n) ==
    IF n.expected = {} THEN {}
    ELSE loadMX(n, {About(h) : h \in (MXHosts(n) \ n.expected) \cup (n.expected \ MXHosts(n))})

\* The names are looked up in turn until one confirms the address or fails.
confirmed(n, a) ==
    LET ends == {i \in DOMAIN n.ptr[a] : LET back == LookupAddrs(n, n.ptr[a][i])
                                         IN  IF back = Error THEN TRUE ELSE a \in back}
    IN  Ask(n, <<"PTR", a>>,
            IF ends = {} THEN FALSE
            ELSE With(LookupAddrs(n, n.ptr[a][Min(ends)]), TRUE))

FCrDNS(n) ==
    LET judged(h) == Each([a \in LookupAddrs(n, h) |-> With(confirmed(n, a), If(~confirmed(n, a), About(h)))])
    IN  AfterMXAddrs(n, Each([h \in NamedMX(n) |-> judged(h)]))

-----------------------------------------------------------------------------
(* Blocklists *)

dnsblQuery(n, zone, a) ==
    Ask(n, <<"list", zone>>, IF zone \in n.refuses THEN Error ELSE <<zone, a>> \in n.lists)

Address(a) == [family |-> "A", id |-> a]

\* The test points of RFC 5782: a list that fails them says nothing.
checkList(n, zone) ==
    dnsblQuery(n, zone, Address("127.0.0.2")) = TRUE /\ dnsblQuery(n, zone, Address("127.0.0.1")) = FALSE

DNSBLListed(n) ==
    LET ips == UNION {{a \in LookupAddrs(n, h) : a.family = "A"} : h \in NamedMX(n)}
        listed(p) == dnsblQuery(n, p[1], p[2])
    IN  AfterMXAddrs(n, IF \E zone \in n.zones : ~checkList(n, zone) THEN Error
                        ELSE Each([p \in n.zones \X ips |-> With(listed(p), If(listed(p), About(p)))]))

-----------------------------------------------------------------------------
(* SPF *)

TheRecord(n) == CHOOSE r \in n.spf["self"] : TRUE
Evaluated(n) == Cardinality(n.spf["self"]) = 1 /\ Parses(TheRecord(n))
Evaluation(n) == Evaluate(n, "self", TheRecord(n))

loadSPF(n, verdict) ==
    loadMX(n, Ask(n, <<"TXT", "self">>,
                  IF Evaluated(n) /\ Evaluation(n).failed THEN Error ELSE verdict))

SPFMissing(n) == loadSPF(n, If(n.spf["self"] = {}, OnTarget))
SPFMultiple(n) == loadSPF(n, If(Cardinality(n.spf["self"]) > 1, OnTarget))
SPFSyntax(n) ==
    loadSPF(n, IF Evaluated(n) THEN {About(where) : where \in Evaluation(n).problems}
               ELSE If(Cardinality(n.spf["self"]) = 1, OnTarget))
SPFLookupLimit(n) == loadSPF(n, If(Evaluated(n) /\ Evaluation(n).lookups > MaxLookups, OnTarget))
SPFVoidLookups(n) == loadSPF(n, If(Evaluated(n) /\ Evaluation(n).voids > MaxVoidLookups, OnTarget))

(***************************************************************************)
(* The "all" that applies, and every include that authorizes anyone: one   *)
(* that is met twice would be two findings on one subject, which the       *)
(* engine rejects, so the check has failed.                                *)
(***************************************************************************)
SPFPermissiveAll(n) ==
    LET ev == Evaluation(n)
        severity == CASE ev.effective = "+" -> "default" [] OTHER -> "low"
        open == \/ ev.effective \in {"+", "?"}
                \/ ev.effective = "none" /\ Redirects(TheRecord(n)) = {}
    IN  loadSPF(n, IF ~Evaluated(n) THEN {}
                   ELSE IF ~IsInjective(ev.permissive) THEN Error
                   ELSE If(open, Finding(<<>>, severity))
                          \cup {About(via) : via \in ToSet(ev.permissive)})

sendsNoMail(n) ==
    Evaluated(n) /\ LET r == TheRecord(n)
                    IN  /\ Redirects(r) = {}
                        /\ LET m == SelectSeq(r, LAMBDA t : ~IsModifier(t))
                           IN  Len(m) = 1 /\ m[1].name = "all" /\ m[1].qualifier = "-"

-----------------------------------------------------------------------------
(* DMARC *)

\* A name without records inherits those of its organizational domain.
dmarcInfo(n) ==
    LET own == SelectSeq(n.dmarc["self"], IsDMARC)
        org == SelectSeq(n.dmarc["org"], IsDMARC)
    IN  IF own # <<>> \/ n.isOrg
          THEN [records |-> own, at |-> "self", inherited |-> FALSE]
          ELSE [records |-> org, at |-> "org", inherited |-> org # <<>>]

loadDMARC(n, verdict) ==
    loadMX(n, Ask(n, <<"_dmarc">>,
        IF dmarcInfo(n).at = "self" THEN verdict ELSE Ask(n, <<"_dmarc.org">>, verdict)))

\* With one record that parses, the verdict on it; otherwise nothing.
OfDMARC(info, verdict) ==
    IF Len(info.records) = 1 /\ dmarcParses(info.records[1]) THEN verdict ELSE {}

DMARCMissing(n) == loadDMARC(n, If(dmarcInfo(n).records = <<>>, OnTarget))

DMARCSyntax(n) ==
    LET records == dmarcInfo(n).records
    IN  loadDMARC(n, If(\/ Len(records) > 1
                        \/ \E r \in ToSet(records) : ~dmarcParses(r), OnTarget))

\* Without p= the policy is none; an inherited record may say more in sp=.
Policy(info, r) ==
    LET p == Value(r, "p", "none") IN IF info.inherited THEN Value(r, "sp", p) ELSE p

DMARCPolicyNone(n) ==
    LET info == dmarcInfo(n)
        r == info.records[1]
    IN  loadDMARC(n, OfDMARC(info,
            IF Policy(info, r) = "none" THEN {OnTarget}
            ELSE If(~info.inherited /\ Value(r, "sp", "") = "none", About(<<"subdomains">>))))

DMARCNoReporting(n) ==
    LET info == dmarcInfo(n)
    IN  loadDMARC(n, OfDMARC(info, If(~Has(info.records[1], "rua"), OnTarget)))

DMARCExternalAuth(n) ==
    LET info == dmarcInfo(n)
        r == info.records[1]
        outside == (ReportsTo(r, "rua") \cup ReportsTo(r, "ruf")) \ {"self", "org"}
    IN  loadDMARC(n, OfDMARC(info, Each([dest \in outside |->
            Ask(n, <<"_report", dest>>, If(<<info.at, dest>> \notin n.authorized, About(dest)))])))

-----------------------------------------------------------------------------
(* DKIM: the first key record of each selector is judged *)

CommonSelectors == {"default", "mail"}
Selectors(n) == IF n.selectors = {} THEN CommonSelectors ELSE n.selectors
Guessed(n) == n.selectors = {} \/ n.guessed

loadDKIM(n, verdict) ==
    loadMX(n, IF \E s \in Selectors(n) : <<"DKIM", s>> \in n.fails THEN Error ELSE verdict)

keyOf(n, s) ==
    LET records == SelectSeq(n.dkim[s], IsKey)
    IN  IF records = <<>> THEN NoKey("none") ELSE DkimKey(records[1])

DKIMMissing(n) ==
    loadDKIM(n, IF ~Guessed(n)
                  THEN {About(s) : s \in {x \in Selectors(n) : keyOf(n, x).state # "key"}}
                  ELSE loadSPF(n, If(/\ ~sendsNoMail(n)
                                     /\ \A s \in Selectors(n) : keyOf(n, s).state # "key",
                                     Finding("common-selectors", "info"))))

DKIMWeakKey(n) ==
    LET weak == {s \in Selectors(n) : LET k == keyOf(n, s)
                                      IN  k.state = "key" /\ k.type = "rsa" /\ k.bits < 2048}
    IN  loadDKIM(n, {Finding(s, IF keyOf(n, s).bits < 1024 THEN "critical" ELSE "default") : s \in weak})

-----------------------------------------------------------------------------
(* MTA-STS and TLS-RPT *)

STSRecords(n) == SelectSeq(n.sts, IsSTS)
PolicyAsked(n) == Len(STSRecords(n)) = 1 /\ stsParses(STSRecords(n)[1])

(***************************************************************************)
(* A policy that cannot be fetched is broken, but for what is transient:   *)
(* timeouts and DNS failures.  A refused or reset connection is not.       *)
(***************************************************************************)
loadMTASTS(n, verdict) ==
    Inbound(n, Ask(n, <<"_mta-sts">>,
        IF PolicyAsked(n) THEN Ask(n, <<"policy", "timeout">>, verdict) ELSE verdict))

\* fetchPolicy: no redirects, no other status than 200, plain text.
PolicyBroken(n) ==
    \/ <<"policy", "refused">> \in n.fails
    \/ n.policy.status # 200 \/ ~n.policy.plain
    \/ ~PolicyParses(n.policy.body)

MTASTSMissing(n) == loadMTASTS(n, If(STSRecords(n) = <<>>, OnTarget))

MTASTSInvalid(n) ==
    LET mode == PolicyMode(n.policy.body)
        uncovered == {h \in MXHosts(n) : \A p \in PolicyMX(n.policy.body) : ~Covers(p, h)}
    IN  loadMTASTS(n, IF STSRecords(n) = <<>> THEN {}
                      ELSE IF ~PolicyAsked(n) THEN {About(<<"record">>)}
                      ELSE IF PolicyBroken(n) THEN {About(<<"policy">>)}
                      ELSE IF mode = "none" THEN {}
                      ELSE {Finding(<<"mx", h>>, IF mode = "enforce" THEN "high" ELSE "default") :
                              h \in uncovered})

MTASTSTesting(n) ==
    loadMTASTS(n, If(PolicyAsked(n) /\ ~PolicyBroken(n) /\ PolicyMode(n.policy.body) = "testing",
                     OnTarget))

TLSRPTMissing(n) ==
    LET records == SelectSeq(n.rpt, IsTLSRPT)
        fine == Len(records) = 1 /\ rptParses(records[1])
    IN  Inbound(n, Ask(n, <<"_smtp._tls">>, If(~fine, OnTarget)))

-----------------------------------------------------------------------------
(* STARTTLS *)

\* probeAll: if any host cannot be reached the whole check errors.
probeAll(n, judged) ==
    Inbound(n, Each([h \in MXHosts(n) |-> Ask(n, <<"connect", h>>, Ask(n, <<"EHLO", h>>, judged[h]))]))

\* Whatever breaks the STARTTLS command or the handshake is the host's.
TLSBroken(n, h) == n.smtp[h].tls = "broken" \/ <<"STARTTLS", h>> \in n.fails
Secured(n, h) == n.smtp[h].tls # "none" /\ ~TLSBroken(n, h)

StarttlsUnsupported(n) ==
    probeAll(n, [h \in MXHosts(n) |-> If(n.smtp[h].tls = "none" \/ TLSBroken(n, h), About(h))])
StarttlsCertInvalid(n) ==
    probeAll(n, [h \in MXHosts(n) |-> If(Secured(n, h) /\ ~n.smtp[h].verifies, About(h))])
StarttlsCertExpiring(n) ==
    probeAll(n, [h \in MXHosts(n) |->
        If(Secured(n, h) /\ n.smtp[h].verifies /\ n.smtp[h].left <= 21,
           Finding(h, IF n.smtp[h].left <= 7 THEN "high" ELSE "default"))])
=============================================================================
