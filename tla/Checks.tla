------------------------------- MODULE Checks -------------------------------
(***************************************************************************)
(* A run of the built-in checks of one family against one network.  The    *)
(* checks share the answers of the run, so which of them meets which       *)
(* failure is settled by the network, but for one thing: the home page of  *)
(* the apex is fetched once, for whichever check asks first, and hsts.*    *)
(* and hsts.preload_not_ready do not ask for the same host.                *)
(***************************************************************************)
EXTENDS DnsChecks, HttpChecks, MailChecks

CONSTANT Scenes  \* pairs of a set of networks and the sets of questions that may fail there

-----------------------------------------------------------------------------
(* What the networks of each family look like                              *)

WebFields == {"declared", "urls", "addrs", "reach", "tls"}
MailFields == {"exists", "mx"}
SpfFields == {"spf", "otherTxt", "answers", "mxCount"}
Fields ==
    [nameserver |-> {"apex", "ns", "axfr", "recurses"}, caa |-> {"caa"},
     dnssec |-> {"apex", "keys", "ds", "keySigs", "soaSigs"}, cname |-> {"cname"},
     tls |-> WebFields, http |-> WebFields \cup {"page"},
     mx |-> MailFields \cup {"literals", "ptr", "addrs", "expected", "zones", "refuses", "lists"},
     spf |-> MailFields \cup SpfFields,
     dmarc |-> MailFields \cup {"isOrg", "dmarc", "authorized"},
     dkim |-> MailFields \cup SpfFields \cup {"selectors", "guessed", "dkim"},
     mtasts |-> MailFields \cup {"sts", "policy", "rpt"}, starttls |-> MailFields \cup {"smtp"}]

AddressesTyped(n) == \A name \in DOMAIN n.addrs : \A a \in n.addrs[name] : a.family \in Families

\* A signature names the tag and the algorithm of the key it was made by.
SignaturesTyped(n) ==
    \A s \in n.keySigs \cup n.soaSigs, k \in n.keys : s.by = k.id => SameKey(s, k)

CNamesTyped(n) == \A x \in DOMAIN n.cname : n.cname[x].dangling \in BOOLEAN

WebTyped(n) ==
    /\ AddressesTyped(n)
    /\ {"apex", "www", "probe"} \cup {h.name : h \in TLSHosts(n)} \subseteq DOMAIN n.addrs
    /\ \A h \in TLSHosts(n) : Leaf(n, h).left \in Int

PagesTyped(n) ==
    /\ \A u \in DOMAIN n.page : u.host \in DOMAIN n.addrs
    /\ n.urls \subseteq DOMAIN n.page
    /\ \A name \in {"apex"} \cup {h.name : h \in TLSHosts(n)} :
          /\ Home("https", name) \in DOMAIN n.page /\ Home("http", name) \in DOMAIN n.page
          /\ \A path \in sensitivePaths : URL("https", name, path) \in DOMAIN n.page

MXTyped(n) ==
    /\ AddressesTyped(n)
    /\ NamedMX(n) \subseteq DOMAIN n.addrs
    /\ \A name \in NamedMX(n) : \A a \in n.addrs[name] :
          /\ DOMAIN n.ptr[a] \subseteq Nat
          /\ \A i \in DOMAIN n.ptr[a] : n.ptr[a][i] \in DOMAIN n.addrs

Terms(n) == [name : STRING, to : Domains(n) \cup NotDomains \cup {Macro},
             qualifier : Qualifiers, length : STRING]
SpfTyped(n) ==
    /\ "self" \in Domains(n)
    /\ \A d \in Domains(n) : n.spf[d] \subseteq Seq(Terms(n))
    /\ n.mxCount \in [Domains(n) -> Nat]

IsNetwork(n) ==
    /\ n.family \in DOMAIN Fields
    /\ {"family", "fails"} \cup Fields[n.family] \subseteq DOMAIN n
    /\ n.family = "caa" => DOMAIN n.caa \subseteq Nat
    /\ n.family = "dnssec" => SignaturesTyped(n)
    /\ n.family = "cname" => CNamesTyped(n)
    /\ n.family \in {"tls", "http"} => WebTyped(n)
    /\ n.family = "http" => PagesTyped(n)
    /\ n.family = "mx" => MXTyped(n)
    /\ n.family \in {"spf", "dkim"} => SpfTyped(n)

WithFailing(n, failing) == n @@ [fails |-> failing]

ASSUME ScenesAssumption ==
    \A i \in DOMAIN Scenes : \A n \in Scenes[i].networks, failing \in Scenes[i].failing :
      IsNetwork(WithFailing(n, failing))

-----------------------------------------------------------------------------

VARIABLES
    net,      \* the network of this run
    memo,     \* for each fetched URL the host it was first fetched for
    verdicts  \* what each check returned; empty before the run

vars == <<net, memo, verdicts>>

DnsVerdicts(n) ==
    CASE n.family = "nameserver" ->
            [axfr_allowed |-> AxfrAllowed(n), open_resolver |-> OpenResolver(n)]
      [] n.family = "caa" -> [caa_missing |-> CAAMissing(n), caa_invalid |-> CAAInvalid(n)]
      [] n.family = "dnssec" ->
            [dnssec_missing |-> DNSSECMissing(n), dnssec_invalid |-> DNSSECInvalid(n),
             dnssec_weak |-> DNSSECWeak(n)]
      [] n.family = "cname" ->
            [takeover_possible |-> TakeoverPossible(n), cname_dangling |-> CNAMEDangling(n)]

MailVerdicts(n) ==
    CASE n.family = "mx" ->
            [mx_missing |-> MXMissing(n), mx_unresolvable |-> MXUnresolvable(n),
             mx_unexpected |-> MXUnexpected(n), fcrdns |-> FCrDNS(n), dnsbl_listed |-> DNSBLListed(n)]
      [] n.family = "spf" ->
            [spf_missing |-> SPFMissing(n), spf_multiple |-> SPFMultiple(n), spf_syntax |-> SPFSyntax(n),
             spf_lookup_limit |-> SPFLookupLimit(n), spf_void_lookups |-> SPFVoidLookups(n),
             spf_permissive_all |-> SPFPermissiveAll(n)]
      [] n.family = "dmarc" ->
            [dmarc_missing |-> DMARCMissing(n), dmarc_syntax |-> DMARCSyntax(n),
             dmarc_policy_none |-> DMARCPolicyNone(n), dmarc_no_reporting |-> DMARCNoReporting(n),
             dmarc_external_auth |-> DMARCExternalAuth(n)]
      [] n.family = "dkim" -> [dkim_missing |-> DKIMMissing(n), dkim_weak_key |-> DKIMWeakKey(n)]
      [] n.family = "mtasts" ->
            [mtasts_missing |-> MTASTSMissing(n), mtasts_invalid |-> MTASTSInvalid(n),
             mtasts_testing |-> MTASTSTesting(n), tlsrpt_missing |-> TLSRPTMissing(n)]
      [] n.family = "starttls" ->
            [starttls_unsupported |-> StarttlsUnsupported(n),
             starttls_cert_invalid |-> StarttlsCertInvalid(n),
             starttls_cert_expiring |-> StarttlsCertExpiring(n)]

TlsVerdicts(n) ==
    [cert_invalid |-> CertInvalid(n), hostname_mismatch |-> HostnameMismatch(n),
     cert_expiring |-> CertExpiring(n), no_modern_tls |-> NoModernTLS(n),
     deprecated_tls |-> DeprecatedTLS(n), weak_ciphers |-> WeakCiphers(n)]

HttpVerdicts(n, asked) ==
    [hsts_missing |-> HSTSMissing(n, asked), hsts_weak |-> HSTSWeak(n, asked),
     preload_not_ready |-> PreloadNotReady(n, asked), redirect_missing |-> RedirectMissing(n, asked),
     csp_missing |-> CSPMissing(n, asked), frame_missing |-> FrameProtectionMissing(n, asked),
     nosniff_missing |-> NosniffMissing(n, asked), referrer_missing |-> ReferrerPolicyMissing(n, asked),
     sensitive_path |-> SensitivePath(n, asked)]

Verdicts(n, asked) ==
    CASE n.family = "tls" -> TlsVerdicts(n)
      [] n.family = "http" -> HttpVerdicts(n, asked)
      [] n.family \in {"nameserver", "caa", "dnssec", "cname"} -> DnsVerdicts(n)
      [] OTHER -> MailVerdicts(n)

-----------------------------------------------------------------------------
ApexHome == Key(Home("https", "apex"), "")
FetchedFor(h) == [key \in {ApexHome} |-> h]

Init ==
    /\ \E i \in DOMAIN Scenes : \E n \in Scenes[i].networks, failing \in Scenes[i].failing :
         net = WithFailing(n, failing)
    /\ memo = <<>>
    /\ verdicts = <<>>

\* The first check to ask for the home page of the apex asks for this host.
FetchApexFor(hosts) ==
    /\ net.family = "http" /\ memo = <<>>
    /\ \E h \in hosts : h.name = "apex" /\ memo' = FetchedFor(h)
    /\ UNCHANGED <<net, verdicts>>

AskedAsTarget == FetchApexFor({Host("apex", FALSE)})
AskedAsWebHost == FetchApexFor(TLSHosts(net))

Judge ==
    /\ verdicts = <<>>
    /\ net.family = "http" => memo # <<>>
    /\ verdicts' = Verdicts(net, memo)
    /\ UNCHANGED <<net, memo>>

Next == AskedAsTarget \/ AskedAsWebHost \/ Judge

Spec == Init /\ [][Next]_vars

-----------------------------------------------------------------------------
\* Whom the home page of the apex may have been fetched for first.
FirstAskers == {Host("apex", FALSE)} \cup {h \in TLSHosts(net) : h.name = "apex"}

\* The verdicts are those of this network and its memo: nothing else counts.
RunInv ==
    /\ IsNetwork(net)
    /\ memo # <<>> => \E h \in FirstAskers : memo = FetchedFor(h)
    /\ verdicts # <<>> => verdicts = Verdicts(net, memo)
    /\ verdicts # <<>> /\ net.family = "http" => memo # <<>>

-----------------------------------------------------------------------------
(***************************************************************************)
(* What the checks owe: "a check that could not reach a verdict returns an *)
(* error", so that a failure is never a finding and never its absence.     *)
(***************************************************************************)
Ran == verdicts # <<>>
Truth(n) == [n EXCEPT !.fails = {}]

\* The hosts whose answer the first asker, an undeclared apex, made absent.
UndeclaredFirst == memo # <<>> /\ ~memo[ApexHome].explicit

Refuses(n, name) == <<"refused", <<name, 443>>>> \in n.fails

(***************************************************************************)
(* The failures that the code does take for an answer: one address family, *)
(* whatever follows the request for a zone transfer, the handshake of an   *)
(* active probe or STARTTLS, a policy host that refuses, the page of a     *)
(* takeover, a host nobody declared that refuses, a port 80 that cannot be *)
(* reached, and a body that breaks off while it is read, where the body    *)
(* matters: in the page of a takeover and in a sensitive file.             *)
(***************************************************************************)
TakenForAnswer(n) ==
    \/ \E q \in n.fails : q[1] \in {"axfr", "resetProbe", "STARTTLS", "connect"} /\ n.family # "starttls"
    \/ \E q \in n.fails : n.family = "starttls" /\ q[1] = "STARTTLS"
    \/ n.family = "mtasts" /\ <<"policy", "refused">> \in n.fails
    \/ n.family = "cname" /\ \E x \in DOMAIN n.cname : <<"cut", x>> \in n.fails
    \/ n.family = "http" /\ \E u \in DOMAIN n.page : u.path \in sensitivePaths /\ <<"cut", u>> \in n.fails
    \/ n.family \in {"mx", "tls", "http"} /\ HalfAnswered(n) # {}
    \/ n.family \in {"tls", "http"} /\ \E h \in TLSHosts(n) : ~h.explicit /\ Refuses(n, h.name)
    \/ n.family = "http" /\ \/ Refuses(n, "apex") /\ UndeclaredFirst
                            \/ \E q \in n.fails : q[1] \in {"refused", "silent"} /\ q[2][2] = 80

HonestBeside(truth) == \A c \in DOMAIN verdicts : verdicts[c] \in {Error, truth[c]}

\* A check whose questions failed says so, or says what it would have said.
FailureIsNoVerdict ==
    Ran /\ ~TakenForAnswer(net) => \A n \in {Truth(net)} : HonestBeside(Verdicts(n, memo))

(***************************************************************************)
(* An unreachable host never looks like a fixed one (the comment on        *)
(* web.Each): a check that judges every web host has reached the declared  *)
(* ones.  The hsts checks are spared when the page was first fetched for   *)
(* the undeclared apex.                                                    *)
(***************************************************************************)
PerHost ==
    IF net.family = "tls" THEN DOMAIN verdicts
    ELSE {"sensitive_path"} \cup (IF UndeclaredFirst THEN {} ELSE {"hsts_missing", "hsts_weak"})

DeclaredHostsAnswered ==
    Ran /\ net.family \in {"tls", "http"} =>
        \A c \in PerHost, h \in TLSHosts(net) :
          verdicts[c] # Error /\ h.explicit => Reached(net, <<h.name, 443>>) = "open"

(***************************************************************************)
(* Whoever fetches the shared page first, the checks reach the same        *)
(* verdicts, unless a declared apex refuses the connection or has no       *)
(* address: then web.Get remembers the absence that the undeclared apex    *)
(* met, or the error of the declared one.                                  *)
(***************************************************************************)
FirstAskerIsImmaterial ==
    Ran /\ net.family = "http" =>
        \/ Host("apex", TRUE) \in TLSHosts(net)
             /\ (Reached(net, <<"apex", 443>>) = "refused" \/ LookupAddrs(net, "apex") = {})
        \/ \A h \in FirstAskers : verdicts = HttpVerdicts(net, FetchedFor(h))

(***************************************************************************)
(* A record that receivers give up on after MaxLookups lookups never looks *)
(* healthy: it is over the limit or it cannot be evaluated.                *)
(***************************************************************************)
LimitIsNoticed ==
    Ran /\ net.family = "spf" =>
        (Cardinality(net.spf["self"]) = 1 /\ ReceiverLookups(net) > MaxLookups =>
           \/ verdicts["spf_lookup_limit"] # {}
           \/ verdicts["spf_syntax"] # {})

(***************************************************************************)
(* The "work caps" of eval.go: whatever the records include, the walk ends *)
(* within a few lookups and queries of its caps, and what it asks ahead of *)
(* itself, which the caps leave out, is at most MaxQueries for the first   *)
(* record and for each lookup.  With 100 queries that is still hundreds.   *)
(***************************************************************************)
WorkIsBounded ==
    Ran /\ net.family = "spf" /\ Evaluated(net) =>
        LET ev == Evaluation(net)
        IN  /\ ev.lookups <= 5 * MaxLookups + 1 + MaxDepth
            /\ ev.queries <= MaxQueries + 1 + MaxDepth
            /\ ev.prefetched <= MaxQueries * (ev.lookups + 1)

(***************************************************************************)
(* Where checks share out a fault, one of them reports it: a dangling      *)
(* name, the expiry of a certificate, an HSTS header that enforces         *)
(* nothing, the STARTTLS of a mail server.  A host that nobody declared    *)
(* may be absent, and a home page that sends visitors elsewhere without    *)
(* the header is not judged by its own.                                    *)
(***************************************************************************)
Reports(c, subject) ==
    verdicts[c] # Error /\ \E f \in verdicts[c] : f.subject = subject
Judged(checks) == Ran /\ checks \subseteq DOMAIN verdicts /\ \A c \in checks : verdicts[c] # Error

Unenforced(n, u) ==
    \/ Weak(n.page[u].hsts)
    \/ n.page[u].hsts = <<>> /\ Location(n, u) = NoURL

NamesAreShared ==
    Judged({"takeover_possible", "cname_dangling"}) =>
        \A x \in DOMAIN net.cname :
          net.cname[x].dangling /\ net.cname[x].targets # <<>> =>
            (Reports("takeover_possible", x) # Reports("cname_dangling", x))

CertificatesAreShared ==
    Judged({"cert_invalid", "cert_expiring"}) =>
        \A h \in TLSHosts(net) :
          /\ Expired(Leaf(net, h)) => ~Reports("cert_expiring", h.name)
          /\ h.explicit /\ Leaf(net, h).sent /\ Leaf(net, h).left <= expiringDays =>
               Reports("cert_invalid", h.name) \/ Reports("cert_expiring", h.name)

HeadersAreShared ==
    Judged({"hsts_missing", "hsts_weak"}) =>
        \A h \in TLSHosts(net) :
          /\ ~(Reports("hsts_missing", h.name) /\ Reports("hsts_weak", h.name))
          /\ h.explicit /\ ~UndeclaredFirst /\ Unenforced(net, Home("https", h.name)) =>
               Reports("hsts_missing", h.name) \/ Reports("hsts_weak", h.name)

ServersAreShared ==
    Judged({"starttls_unsupported", "starttls_cert_invalid", "starttls_cert_expiring"}) =>
        \A h \in MXHosts(net) :
          /\ \A c, d \in DOMAIN verdicts : c # d => ~(Reports(c, h) /\ Reports(d, h))
          /\ ~Secured(net, h) \/ ~net.smtp[h].verifies \/ net.smtp[h].left <= 21 =>
               \E c \in DOMAIN verdicts : Reports(c, h)

OneReportPerFault ==
    NamesAreShared /\ CertificatesAreShared /\ HeadersAreShared /\ ServersAreShared

(***************************************************************************)
(* What a validating resolver does: some DS vouches for a key that signed  *)
(* the key set, and some key signed the zone's data.  A zone it accepts is *)
(* never reported, and one it rejects is, unless an algorithm or a digest  *)
(* is unknown here, or a signature has the tag of a key with another       *)
(* algorithm, which is taken for one that cannot be verified.  Keys that   *)
(* share tag and algorithm make no difference.                             *)
(***************************************************************************)
SignedBy(sigs, k) == \E s \in sigs : s.by = k.id /\ s.current
Accepted(n) ==
    /\ \E k \in n.keys, d \in n.ds :
         /\ SameKey(d, k) /\ d.digest = k.id /\ d.type \notin UnknownDigests
         /\ k.algorithm \notin Unverifiable
         /\ SignedBy(n.keySigs, k)
    /\ \E k \in n.keys : k.algorithm \notin Unverifiable /\ SignedBy(n.soaSigs, k)
AllKnown(n) ==
    /\ \A k \in n.keys : k.algorithm \notin Unverifiable
    /\ \A d \in n.ds : d.type \notin UnknownDigests
    /\ \A s \in n.keySigs \cup n.soaSigs, k \in n.keys : s.tag = k.tag => s.algorithm = k.algorithm

ValidChainsPass ==
    Judged({"dnssec_invalid"}) /\ net.apex /\ net.ds # {} =>
        /\ Accepted(net) => verdicts["dnssec_invalid"] = {}
        /\ ~Accepted(net) /\ AllKnown(net) => verdicts["dnssec_invalid"] # {}
=============================================================================
