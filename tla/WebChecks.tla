----------------------------- MODULE WebChecks -----------------------------
(***************************************************************************)
(* A target's web hosts, the connections to them and the tls checks        *)
(* (checks/internal/web/web.go, checks/tls/tls.go).  Hosts listen on 443   *)
(* for TLS and on 80 for plain HTTP; other ports are left out.             *)
(***************************************************************************)
EXTENDS Network

(* The fields of a network n that these checks read:                       *)
(*   declared, urls  the configured hosts and pages of the target          *)
(*   addrs           the addresses of each name                            *)
(*   reach           for every name and port: "open", "refused", "silent"  *)
(*   tls             for every name the versions and suites it accepts and *)
(*                   its certificate                                       *)

Host(name, explicit) == [name |-> name, explicit |-> explicit]
URL(scheme, host, path) == [scheme |-> scheme, host |-> host, path |-> path]
Home(scheme, host) == URL(scheme, host, "/")

WebHosts(n) ==
    IF n.declared = {} THEN {Host("apex", FALSE), Host("www", FALSE)}
    ELSE {Host(h, TRUE) : h \in n.declared}

\* A host of both kinds stays what WebHosts made it.
TLSHosts(n) ==
    LET linked == {u.host : u \in {v \in n.urls : v.scheme = "https"}}
    IN  WebHosts(n) \cup {Host(h, TRUE) : h \in linked \ {w.name : w \in WebHosts(n)}}

Pages(n) ==
    IF n.urls = {} THEN {[url |-> Home("https", h.name), host |-> h] : h \in WebHosts(n)}
    ELSE {[url |-> u, host |-> Host(u.host, TRUE)] : u \in n.urls}

-----------------------------------------------------------------------------
(* Connections *)

\* A www host with the addresses any name gets is no website anyone set up.
wildcardArtifact(n, name) ==
    IF name # "www" THEN FALSE
    ELSE LET probe == LookupAddrs(n, "probe")
         IN  With(probe, probe # {} /\ LookupAddrs(n, name) = probe)

\* When no address connects, what the last one tried did decides.
Reached(n, there) ==
    LET failing == {how \in {"refused", "silent"} : <<how, there>> \in n.fails}
    IN  IF failing = {} THEN n.reach[there] ELSE CHOOSE how \in failing : TRUE

\* Wrong: a host that was declared may be absent as well.
DialOfAny(n, h, port) ==
    LET addrs == LookupAddrs(n, h.name)
    IN  IF addrs = Error THEN "error"
        ELSE IF addrs = {} \/ Reached(n, <<h.name, port>>) = "refused" THEN "absent"
        ELSE IF Reached(n, <<h.name, port>>) = "open" THEN "ok" ELSE "unreachable"

\* Wrong: a host that nobody declared and that does not answer is absent too.
DialNoSilence(n, h, port) ==
    LET addrs == LookupAddrs(n, h.name)
        reached == Reached(n, <<h.name, port>>)
    IN  IF addrs = Error THEN "error"
        ELSE IF ~h.explicit /\ (addrs = {} \/ reached # "open") THEN "absent"
        ELSE IF addrs = {} THEN "error"
        ELSE IF reached = "open" THEN "ok" ELSE "unreachable"

(***************************************************************************)
(* web.Dial: "ok", "absent" (ErrAbsent), "unreachable" (a ConnectError) or *)
(* "error".  Only hosts nobody declared may be absent.                     *)
(***************************************************************************)
Dial(n, h, port) ==
    LET artifact == IF h.explicit THEN FALSE ELSE wildcardArtifact(n, h.name)
        addrs == LookupAddrs(n, h.name)
        reached == Reached(n, <<h.name, port>>)
    IN  IF artifact = Error \/ addrs = Error THEN "error"
        ELSE IF artifact = TRUE \/ (~h.explicit /\ (addrs = {} \/ reached = "refused")) THEN "absent"
        ELSE IF addrs = {} THEN "error"
        ELSE IF reached = "open" THEN "ok" ELSE "unreachable"

\* Connect with the TLS client's versions: a rejection is a HandshakeError.
Connect(n, h, versions, suites) ==
    LET dialed == Dial(n, h, 443)
    IN  IF dialed # "ok" THEN dialed
        ELSE IF n.tls[h.name].versions \cap versions # {} /\ n.tls[h.name].suites \cap suites # {}
             THEN "ok" ELSE "rejected"

AllVersions == 10..13
AllSuites == {"aead", "cbc", "rsa", "rc4"}
InsecureSuites == {"cbc", "rsa", "rc4"}

\* Judge a host after web.TLS, the handshake a browser would make.
Handshaken(n, h, verdict) ==
    LET out == IF <<"reset", h.name>> \in n.fails THEN "rejected"
               ELSE Connect(n, h, AllVersions, AllSuites)
    IN  CASE out = "ok" -> verdict
          [] out = "absent" -> Absent
          [] OTHER -> Error

OfHandshake(n, judged) == Each([h \in TLSHosts(n) |-> Handshaken(n, h, judged[h])])

-----------------------------------------------------------------------------
(* The tls checks *)

Expired(c) == c.sent /\ c.left <= 0
expiringDays == 21
urgentDays == 7

Leaf(n, h) == n.tls[h.name].cert

CertInvalid(n) ==
    OfHandshake(n, [h \in TLSHosts(n) |->
        If(~Leaf(n, h).sent \/ ~Leaf(n, h).trusted \/ Expired(Leaf(n, h)),
           Finding(h.name, IF Expired(Leaf(n, h)) THEN "critical" ELSE "default"))])

HostnameMismatch(n) ==
    OfHandshake(n, [h \in TLSHosts(n) |-> If(Leaf(n, h).sent /\ ~Leaf(n, h).covers, About(h.name))])

CertExpiring(n) ==
    OfHandshake(n, [h \in TLSHosts(n) |->
        If(Leaf(n, h).sent /\ 0 < Leaf(n, h).left /\ Leaf(n, h).left <= expiringDays,
           Finding(h.name, IF Leaf(n, h).left <= urgentDays THEN "high" ELSE "default"))])

NoModernTLS(n) ==
    OfHandshake(n, [h \in TLSHosts(n) |->
        If(n.tls[h.name].versions \cap {12, 13} = {}, About(h.name))])

(***************************************************************************)
(* The active probes dial and handshake again.  Whatever breaks the        *)
(* handshake, a reset as well, is taken for the server's refusal.          *)
(***************************************************************************)
accepts(n, h, versions, suites) ==
    /\ <<"resetProbe", h.name>> \notin n.fails
    /\ Connect(n, h, versions, suites) = "ok"

DeprecatedTLS(n) ==
    OfHandshake(n, [h \in TLSHosts(n) |->
        Ask(n, <<"dialProbe", h.name>>,
            If(\E v \in {10, 11} : accepts(n, h, {v}, AllSuites), About(h.name)))])

\* The suites it settles for are offered no more, until it refuses the rest.
WeakCiphers(n) ==
    LET taken(h) == {s \in InsecureSuites : accepts(n, h, {10, 11, 12}, {s})}
    IN  OfHandshake(n, [h \in TLSHosts(n) |->
            Ask(n, <<"dialProbe", h.name>>,
                If(taken(h) # {}, Finding(h.name, IF "rc4" \in taken(h) THEN "default" ELSE "low")))])
=============================================================================
