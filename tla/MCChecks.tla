------------------------------ MODULE MCChecks ------------------------------
(***************************************************************************)
(* Small networks for each family of checks, every one of them with no     *)
(* failing question, one, or (where two matter together) a pair.           *)
(***************************************************************************)
EXTENDS Checks

Failing(questions, most) == UNION {kSubset(k, questions) : k \in 0..most}
Fail(networks, questions, most) == [networks |-> networks, failing |-> Failing(questions, most)]

-----------------------------------------------------------------------------
Nameservers ==
    Fail([family : {"nameserver"}, apex : BOOLEAN, ns : {{"s1", "s2"}},
          axfr : SUBSET {"s1", "s2"}, recurses : {{}, {"s2"}}],
         {<<"SOA">>, <<"NS">>, <<"tcp", "s1">>, <<"udp", "s2">>, <<"axfr", "s1">>}, 2)

Record(known, critical, tag, issuer) ==
    [known |-> known, critical |-> critical, tag |-> tag, issuer |-> issuer]
CAASets == {{}, {Record(TRUE, FALSE, "issue", "ca")}, {Record(TRUE, FALSE, "issue", "malformed")},
            {Record(FALSE, TRUE, "new", ""), Record(TRUE, TRUE, "iodef", "")}}
CAAs == Fail([family : {"caa"}, caa : [1..3 -> CAASets]], {<<"CAA", i>> : i \in 1..3}, 1)

\* Keys with one tag, and even one algorithm, may meet; k9 is of an unknown kind.
SomeKeys == {[id |-> "k1", tag |-> 1, algorithm |-> "ECDSA"], [id |-> "k2", tag |-> 1, algorithm |-> "ECDSA"],
             [id |-> "k3", tag |-> 1, algorithm |-> "RSASHA256"],
             [id |-> "k8", tag |-> 8, algorithm |-> "RSASHA1"], [id |-> "k9", tag |-> 9, algorithm |-> "ED448"]}
DSFor(k, type) == [tag |-> k.tag, algorithm |-> k.algorithm, type |-> type, digest |-> k.id]
SigBy(k, current) == [tag |-> k.tag, algorithm |-> k.algorithm, by |-> k.id, current |-> current]
SomeSigs == {SigBy(k, c) : k \in {j \in SomeKeys : j.id # "k8"}, c \in BOOLEAN}
SomeDS == {DSFor(k, "SHA256") : k \in SomeKeys} \cup {DSFor(k, "digest9") : k \in {j \in SomeKeys : j.id = "k1"}}
DNSSECs ==
    Fail([family : {"dnssec"}, apex : {TRUE}, keys : Failing(SomeKeys, 2), ds : Failing(SomeDS, 2),
          keySigs : Failing(SomeSigs, 2), soaSigs : Failing({SigBy(k, TRUE) : k \in SomeKeys}, 1)],
         {}, 0)
BrokenDNSSECs ==
    Fail([family : {"dnssec"}, apex : BOOLEAN, keys : {SomeKeys}, ds : {{}, SomeDS},
          keySigs : {SomeSigs}, soaSigs : {SomeSigs}],
         {<<"signedSOA">>, <<"DS">>, <<"DNSKEY">>}, 2)

Targets == {<<>>, <<"elsewhere">>, <<"nxdomain">>, <<"page">>, <<"elsewhere", "page">>, <<"page", "nxdomain">>}
CNames ==
    Fail([family : {"cname"}, cname : [{"x", "y"} -> [targets : Targets, dangling : BOOLEAN, mark : {"none", "start", "end"}]]],
         {<<"A", "x">>, <<"connect", "x">>, <<"answer", "x">>, <<"cut", "x">>}, 1)

-----------------------------------------------------------------------------
V4(id) == [family |-> "A", id |-> id]
V6(id) == [family |-> "AAAA", id |-> id]

Cert(sent, trusted, covers, left) == [sent |-> sent, trusted |-> trusted, covers |-> covers, left |-> left]
Good == [versions |-> {12, 13}, suites |-> {"aead"}, cert |-> Cert(TRUE, TRUE, TRUE, 90)]
TLSServers ==
    {Good, [Good EXCEPT !.versions = {10, 11}, !.suites = {"cbc", "rc4"}],
     [Good EXCEPT !.cert = Cert(TRUE, FALSE, FALSE, 0)], [Good EXCEPT !.cert = Cert(TRUE, TRUE, TRUE, 7)],
     [Good EXCEPT !.versions = {9}]}
Places == {"apex", "www"} \X {80, 443}
AddrsOf(www, probe) == [name \in {"apex", "www", "probe"} |->
    CASE name = "apex" -> {V4("a"), V6("a")} [] name = "www" -> www [] name = "probe" -> probe]
Reaches == [Places -> {"open", "refused", "silent"}]
WebFailures ==
    {<<how, <<h, 443>>>> : how \in {"refused", "silent"}, h \in {"apex", "www"}}
      \cup {<<"A", name>> : name \in {"apex", "www", "probe"}} \cup {<<"AAAA", "www">>}

TLSs ==
    Fail([family : {"tls"}, declared : SUBSET {"apex", "www"}, urls : {{}, {Home("https", "www")}},
          addrs : {AddrsOf({V4("w")}, {}), AddrsOf({V4("w"), V6("w")}, {V4("w")}), AddrsOf({}, {})},
          reach : {r \in Reaches : \A h \in {"apex", "www"} : r[<<h, 80>>] = "open"},
          tls : {("apex" :> Good) @@ ("www" :> s) : s \in TLSServers}],
         WebFailures \cup {<<"reset", "apex">>, <<"resetProbe", "www">>, <<"dialProbe", "www">>}, 1)

-----------------------------------------------------------------------------
URLs == {URL(s, h, "/") : s \in {"http", "https"}, h \in {"apex", "www"}}
          \cup {URL("https", h, p) : h \in {"apex", "www"}, p \in sensitivePaths}
Served == [status |-> 200, location |-> NoURL, hsts |-> <<>>, headers |-> {}, html |-> TRUE,
           file |-> "", start |-> ""]
To(u) == [Served EXCEPT !.status = 301, !.location = u]
HSTSs == {<<>>, <<<<"max-age", 365>>, <<"includesubdomains", 0>>, <<"preload", 0>>>>,
          <<<<"max-age", NotANumber>>>>, <<<<"max-age", 90>>, <<"preload", 0>>>>}
Homes == {[Served EXCEPT !.hsts = v, !.headers = h] : v \in HSTSs, h \in {{}, {"csp", "xfo", "nosniff", "referrer"}}}
           \cup {To(Home("https", "www")), To(Home("https", "apex")), [Served EXCEPT !.status = 404]}
Files == {Served} \cup {[Served EXCEPT !.html = FALSE, !.file = f, !.start = s] :
                        f \in {"", "/.env"}, s \in {"", "/.env"}}
Site(home, plain, file) == [u \in URLs |->
    CASE u = Home("https", "apex") -> home
      [] u = Home("http", "apex") -> plain
      [] u.path = "/.env" -> file
      [] OTHER -> Served]
Sites == {Site(h, p, f) : h \in Homes, p \in {Served, To(Home("https", "apex"))}, f \in Files}

HTTPs ==
    Fail([family : {"http"}, declared : {{}, {"apex"}, {"apex", "www"}},
          urls : {{}, {Home("https", "www"), URL("https", "apex", "/.env")}},
          addrs : {AddrsOf({V4("w"), V6("w")}, {V4("w")})},
          reach : {[p \in Places |-> "open"],
                   [p \in Places |-> IF p = <<"apex", 443>> THEN "refused" ELSE "open"],
                   [p \in Places |-> IF p[2] = 80 THEN "refused" ELSE "open"]},
          tls : {[h \in {"apex", "www"} |-> Good]}, page : Sites],
         {<<"refused", <<"apex", 443>>>>, <<"silent", <<"apex", 443>>>>, <<"silent", <<"apex", 80>>>>,
          <<"refused", <<"www", 443>>>>, <<"refused", <<"www", 80>>>>,
          <<"answer", Home("https", "apex")>>, <<"cut", Home("https", "apex")>>,
          <<"cut", URL("https", "apex", "/.env")>>, <<"A", "apex">>, <<"A", "probe">>}, 1)

-----------------------------------------------------------------------------
Back == [a \in {V4("a"), V6("a"), V4("b")} |-> IF a.id = "a" THEN <<"other", "m1">> ELSE <<"m2">>]
MailAddrs == [name \in {"m1", "m2", "other"} |->
    CASE name = "m1" -> {V4("a"), V6("a")} [] name = "m2" -> {V4("b")} [] name = "other" -> {}]
TestPoints == {<<"bl", Address("127.0.0.2")>>}
MXs ==
    Fail([family : {"mx"}, exists : BOOLEAN, mx : {{}, {"."}, {"m1"}, {"m1", "m2"}, {"m2", "lit"}},
          literals : {{"lit"}}, ptr : {Back, [Back EXCEPT ![V4("b")] = <<>>]},
          addrs : {MailAddrs, [MailAddrs EXCEPT !["m2"] = {}]}, expected : {{}, {"m1"}},
          zones : {{"bl"}}, refuses : {{}, {"bl"}},
          lists : {TestPoints, {}, TestPoints \cup {<<"bl", V4("b")>>},
                   TestPoints \cup {<<"bl", V4("b")>>, <<"bl", Address("127.0.0.1")>>}}],
         {<<"MX">>, <<"A", "m1">>, <<"AAAA", "m1">>, <<"A", "m2">>, <<"AAAA", "m2">>, <<"A", "other">>,
          <<"PTR", V4("b")>>, <<"list", "bl">>}, 2)

(***************************************************************************)
(* SPF records of the target and of the domains d1 and d2 it may include:  *)
(* loops, void includes, long records, redirects and macros.               *)
(***************************************************************************)
Fallback(q) == Term("all", "", q)
Include(d) == Term("include", d, "+")
\* An include and more to ask ahead, nearly MaxQueries together.
Wide(d) == <<Include(d)>> \o [i \in 1..9 |-> Term("exists", "d2", "+")]
Plain == {<<Fallback("-")>>, <<Fallback("+")>>, <<Term("a", "d1", "+"), Fallback("?")>>, <<>>,
          <<Include("d1"), Fallback("~")>>, <<Include("d1"), Include("d2"), Fallback("-")>>,
          <<Term("mx", "", "+"), Include("d2")>>, <<Term("redirect", "d2", "+")>>,
          <<Include(Macro), Term("exists", Macro, "+"), Term("ptr", "", "+"), Fallback("-")>>,
          <<Term("ip4", "192.0.2.1", "+"), Term("redirect", Macro, "+")>>,
          <<Include("bare")>>, <<Term("redirect", "d1", "+"), Term("redirect", "d2", "+")>>,
          <<Include("d1"), Term("redirect", "d1", "+")>>,
          Wide("d1"), [i \in 1..16 |-> Term("exists", Macro, "+")],
          [i \in 1..16 |-> Term("a", "d1", "+")],
          [i \in 1..16 |-> Include(IF i % 2 = 0 THEN "d1" ELSE "d2")]}
Few == {{<<Fallback("-")>>}, {<<Fallback("+")>>}, {}, {<<Fallback("-")>>, <<Fallback("+")>>},
        {<<Include("d2"), Term("a", "", "+")>>}, {<<Term("redirect", "d2", "+")>>},
        {<<Include("self"), Fallback("-")>>}, {Wide("d2")}}
SPFNetwork(self, d1, d2) ==
    [family |-> "spf", exists |-> TRUE, mx |-> {"m1"}, otherTxt |-> {"d2"},
     spf |-> [d \in {"self", "d1", "d2"} |-> CASE d = "self" -> self [] d = "d1" -> d1 [] d = "d2" -> d2],
     answers |-> {<<"d1", "AAAA">>}, mxCount |-> [d \in {"self", "d1", "d2"} |-> IF d = "d2" THEN 0 ELSE 3]]
SPFs ==
    Fail({SPFNetwork(self, d1, d2) : self \in {{r} : r \in Plain} \cup {{}, {<<Fallback("-")>>, <<>>}},
                                     d1 \in Few, d2 \in Few},
         {<<"MX">>, <<"TXT", "self">>, <<"TXT", "d1">>, <<"TXT", "d2">>, <<"A", "d1">>, <<"MX", "self">>}, 1)

-----------------------------------------------------------------------------
Dmarc(more) == <<<<"v", "DMARC1">>>> \o more
DmarcRecords ==
    {<<>>, <<<<<<"v", "spf1">>>>>>, <<Dmarc(<<<<"p", "none">>>>), Dmarc(<<<<"p", "reject">>>>)>>}
      \cup {<<Dmarc(more)>> : more \in
               {<<>>, <<<<"p", "reject">>>>, <<<<"sp", "none">>, <<"p", "reject">>, <<"rua", "both">>>>,
                <<<<"p", "quarantine">>, <<"sp", "reject">>, <<"ruf", "web">>>>, <<<<"rua", "own">>>>,
                <<<<"p", "malformed">>>>, <<<<"p", "none">>, <<"p", "none">>>>,
                <<<<"p", "none">>, <<"rua", "malformed">>>>, <<<<"p", "reject">>, <<"pct", "malformed">>>>}}
DMARCs ==
    Fail([family : {"dmarc"}, exists : {TRUE}, mx : {{"m1"}}, isOrg : BOOLEAN,
          dmarc : [{"self", "org"} -> DmarcRecords], authorized : {{}, {<<"self", "r1">>}}],
         {<<"MX">>, <<"_dmarc">>, <<"_dmarc.org">>, <<"_report", "r1">>}, 1)

DkimRecords ==
    {<<>>, <<<<<<"v", "spf1">>>>>>, <<<<<<"p", "">>>>>>, <<<<<<"p", "rsa512">>>>>>,
     <<<<<<"v", "DKIM1">>, <<"k", "rsa">>, <<"p", "rsa2048">>>>, <<<<"p", "">>>>>>,
     <<<<<<"k", "ed25519">>, <<"p", "ed25519">>>>>>, <<<<<<"k", "ed25519">>, <<"p", "rsa2048">>>>>>,
     <<<<<<"v", "DKIM1">>, <<"v", "DKIM1">>>>>>, <<<<<<"p", "rsa2048">>, <<"v", "DKIM1">>>>>>}
NoSPFNetwork == SPFNetwork({<<Fallback("-")>>}, {}, {})
DKIMs ==
    Fail({[family |-> "dkim"] @@ k @@ s : s \in {NoSPFNetwork, SPFNetwork({}, {}, {})},
           k \in [selectors : {{}, {"default"}}, guessed : BOOLEAN, dkim : [CommonSelectors -> DkimRecords]]},
         {<<"MX">>, <<"TXT", "self">>, <<"DKIM", "default">>, <<"DKIM", "mail">>}, 1)

Sts(id) == <<<<"v", "STSv1">>, <<"id", id>>>>
Rpt(rua) == <<<<"v", "TLSRPTv1">>, <<"rua", rua>>>>
Body(mode, mx) == <<<<"version", "STSv1">>, <<"mode", mode>>, <<"max_age", "60">>>> \o mx
Bodies == {Body(m, mx) : m \in Modes, mx \in {<<<<"mx", "m1">>>>, <<<<"mx", "m1">>, <<"mx", "*.m">>>>, <<>>}}
            \cup {Tail(Body("enforce", <<<<"mx", "m1">>>>)), Body("enforce", <<<<"mode", "none">>>>)}
MTASTSs ==
    Fail([family : {"mtasts"}, exists : {TRUE}, mx : {{}, {"."}, {"m1", "m2"}},
          sts : {<<>>, <<Sts("id1")>>, <<Sts("malformed")>>, <<Sts("id1"), Sts("id1")>>},
          policy : [status : {200, 301}, plain : BOOLEAN, body : Bodies],
          rpt : {<<>>, <<Rpt("own")>>, <<Rpt("malformed")>>}],
         {<<"MX">>, <<"_mta-sts">>, <<"policy", "timeout">>, <<"policy", "refused">>, <<"_smtp._tls">>}, 1)

SMTPHosts == [tls : {"none", "broken"}, verifies : {FALSE}, left : {0}]
               \cup [tls : {"ok"}, verifies : BOOLEAN, left : {5, 90}]
STARTTLSs ==
    Fail([family : {"starttls"}, exists : BOOLEAN, mx : {{}, {"m1", "m2"}}, smtp : [{"m1", "m2"} -> SMTPHosts]],
         {<<"MX">>, <<"connect", "m1">>, <<"EHLO", "m2">>, <<"STARTTLS", "m1">>}, 2)

MCScenes == <<Nameservers, CAAs, DNSSECs, BrokenDNSSECs, CNames, TLSs, HTTPs,
              MXs, SPFs, DMARCs, DKIMs, MTASTSs, STARTTLSs>>
=============================================================================
