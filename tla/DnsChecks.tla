----------------------------- MODULE DnsChecks -----------------------------
(***************************************************************************)
(* The dns checks: zone transfers and open resolvers (nameserver.go), CAA  *)
(* (caa.go), DNSSEC (dnssec.go), dangling CNAMEs and takeovers             *)
(* (takeover.go), each a function of the network.                          *)
(***************************************************************************)
EXTENDS Network

(* The fields of a network n that these checks read:                       *)
(*   apex, ns        the name has its own SOA; its nameservers             *)
(*   axfr, recurses  the nameservers that hand out the zone, or recurse    *)
(*   caa             the CAA records of the name and each of its ancestors *)
(*   ds, keys, keySigs, soaSigs   the chain of trust                       *)
(*   cname           for every name the CNAMEs of its answer, whether the  *)
(*                   answer was NXDOMAIN, and where its page carries the   *)
(*                   service's mark of an unclaimed name: at its "start",  *)
(*                   at its "end", after a point where reading may break   *)
(*                   off, or nowhere                                       *)

EachNameserver(n, probed) ==
    Ask(n, <<"SOA">>, IF ~n.apex THEN {} ELSE Ask(n, <<"NS">>, Each(probed)))

(***************************************************************************)
(* Once the server has the request, whatever goes wrong with the answer is *)
(* "a refusal: an error rcode, or the server closing the connection".      *)
(***************************************************************************)
AxfrAllowed(n) ==
    LET granted == {s \in n.axfr : <<"axfr", s>> \notin n.fails}
    IN  EachNameserver(n, [s \in n.ns |-> Ask(n, <<"tcp", s>>, If(s \in granted, About(s)))])

OpenResolver(n) ==
    EachNameserver(n, [s \in n.ns |-> Ask(n, <<"udp", s>>, If(s \in n.recurses, About(s)))])

-----------------------------------------------------------------------------
(* CAA *)

\* The records of the closest level that has any; the climb ends at a failure.
RelevantCAA(n) ==
    LET levels == {i \in DOMAIN n.caa : n.caa[i] # {} \/ <<"CAA", i>> \in n.fails}
        closest == CHOOSE i \in levels : \A j \in levels : i <= j
    IN  IF levels = {} THEN {} ELSE Ask(n, <<"CAA", closest>>, n.caa[closest])

\* A critical record with a tag nobody knows, or an issuer that is no domain.
caaProblem(r) ==
    \/ ~r.known /\ r.critical
    \/ r.known /\ r.tag \in {"issue", "issuewild"} /\ r.issuer = "malformed"

CAAMissing(n) == With(RelevantCAA(n), If(RelevantCAA(n) = {}, OnTarget))

CAAInvalid(n) ==
    LET records == RelevantCAA(n)
    IN  With(records, {About(r) : r \in {s \in records : caaProblem(s)}})

-----------------------------------------------------------------------------
(* DNSSEC: a key has a tag and an algorithm; a DS names a key by tag and   *)
(* algorithm and carries the digest of one; a signature names its maker so *)
(* and was made by one.                                                    *)

Unverifiable == {"ED448"}           \* dns.ErrAlg
weakAlgorithms == {"RSASHA1"}
weakDigests == {"SHA1"}
UnknownDigests == {"digest9"}       \* ToDS returns nil

loadDNSSEC(n, verdict) ==
    Ask(n, <<"signedSOA">>, IF ~n.apex THEN {} ELSE Ask(n, <<"DS">>, Ask(n, <<"DNSKEY">>, verdict)))

SameKey(r, k) == r.tag = k.tag /\ r.algorithm = k.algorithm

\* Wrong: one signature that does not verify spoils the set.
verifySetOfAll(sigs, keys) ==
    IF sigs # {} /\ \A s \in sigs : \E k \in keys : SameKey(s, k) /\ s.by = k.id /\ s.current
      THEN "valid" ELSE "bad"

\* "valid", "unsupported" (nothing to say) or "bad".
verifySet(sigs, keys) ==
    LET tried == {p \in sigs \X keys : SameKey(p[1], p[2]) /\ p[2].algorithm \notin Unverifiable}
        named == \E s \in sigs, k \in keys : s.tag = k.tag
    IN  CASE \E p \in tried : p[1].by = p[2].id /\ p[1].current -> "valid"
          [] tried = {} /\ named -> "unsupported"
          [] OTHER -> "bad"

\* validate: "fine", "broken", or Error when the resolver strips signatures.
validate(n) ==
    LET matched == {p \in n.ds \X n.keys : SameKey(p[1], p[2])}
        anchors == {p[2] : p \in {q \in matched : /\ q[1].type \notin UnknownDigests
                                                  /\ q[1].digest = q[2].id}}
        keySet == verifySet(n.keySigs, anchors)
        zone == verifySet(n.soaSigs, n.keys)
    IN  IF n.keys # {} /\ n.keySigs = {} /\ n.soaSigs = {} THEN Error
        ELSE IF \/ n.keys = {}
                \/ anchors = {} /\ \A p \in matched : p[1].type \notin UnknownDigests
                \/ anchors # {} /\ keySet = "bad"
                \/ anchors # {} /\ keySet = "valid" /\ zone = "bad"
             THEN "broken" ELSE "fine"

DNSSECMissing(n) == loadDNSSEC(n, If(n.ds = {}, OnTarget))

DNSSECInvalid(n) ==
    loadDNSSEC(n, IF n.ds = {} THEN {}
                  ELSE With(validate(n), If(validate(n) = "broken", OnTarget)))

DNSSECWeak(n) ==
    loadDNSSEC(n, If(/\ n.ds # {}
                     /\ \/ \E k \in n.keys : k.algorithm \in weakAlgorithms
                        \/ \E d \in n.ds : d.type \in weakDigests, OnTarget))

-----------------------------------------------------------------------------
(* CNAMEs: a target is a name of no service, of one where a missing name   *)
(* can be claimed ("nxdomain"), or of one with a page that says so.        *)

\* chains: every name is asked, and one failure fails the check.
chains(n, judged) ==
    Each([x \in DOMAIN n.cname |->
            Ask(n, <<"A", x>>, IF n.cname[x].targets = <<>> THEN {} ELSE judged[x])])

\* The service is the first along the chain that is one.
matchService(c) ==
    LET onService == {i \in DOMAIN c.targets : c.targets[i] # "elsewhere"}
    IN  IF onService = {} THEN "none"
        ELSE c.targets[CHOOSE i \in onService : \A j \in onService : i <= j]

\* A page that cannot be fetched because nothing answers shows no mark, nor
\* does one that breaks off before it: the error of reading a body is dropped.
Shows(n, x) ==
    n.cname[x].mark = "start" \/ (n.cname[x].mark = "end" /\ <<"cut", x>> \notin n.fails)
claimable(n, x) ==
    LET c == n.cname[x]
    IN  CASE matchService(c) = "none" -> FALSE
          [] matchService(c) = "nxdomain" -> c.dangling
          [] OTHER -> IF c.dangling \/ <<"connect", x>> \in n.fails THEN FALSE
                      ELSE Ask(n, <<"answer", x>>, Shows(n, x))

\* Wrong: a dangling name on any service is left to the other check.
DanglingOffServices(n) ==
    chains(n, [x \in DOMAIN n.cname |->
        If(n.cname[x].dangling /\ matchService(n.cname[x]) = "none", About(x))])

TakeoverPossible(n) ==
    chains(n, [x \in DOMAIN n.cname |-> With(claimable(n, x), If(claimable(n, x), About(x)))])

\* What a known service lets be claimed is the other check's finding.
CNAMEDangling(n) ==
    chains(n, [x \in DOMAIN n.cname |->
        If(n.cname[x].dangling /\ claimable(n, x) # TRUE, About(x))])
=============================================================================
