---------------------------- MODULE Checks_proofs ----------------------------
(***************************************************************************)
(* The built-in checks, on any networks: what fails is never a verdict,    *)
(* a declared host was reached, the first asker does not matter, a record  *)
(* over the lookup limit is noticed, the SPF walk stays within its caps,   *)
(* a fault is reported once, and a chain of trust is judged as a validating *)
(* resolver would.                                                         *)
(***************************************************************************)
EXTENDS Checks, WellFoundedInduction, FiniteSetTheorems, TLAPS

-----------------------------------------------------------------------------
(* Recursion over the natural numbers *)

\* Every set of natural numbers that is not empty has a least element.
LEMMA Least ==
    ASSUME NEW S \in SUBSET Nat, S # {}
    PROVE  \E x \in S : \A y \in S : x <= y
<1>1. IsWellFoundedOn(OpToRel(<, Nat), Nat)
  BY NatLessThanWellFounded
<1>2. PICK x \in S : \A y \in S : ~(<<y, x>> \in OpToRel(<, Nat))
  BY <1>1, WFMin
<1>3. OpToRel(<, Nat) = {ss \in Nat \X Nat : ss[1] < ss[2]}
  BY DEF OpToRel
<1>4. ASSUME NEW y \in S PROVE x <= y
  <2>1. <<y, x>> \in Nat \X Nat /\ ~(y < x)
    BY <1>2, <1>3
  <2> QED BY <2>1
<1> QED BY <1>4

\* Induction over the natural numbers, for a set of them.
LEMMA Induction ==
    ASSUME NEW S \in SUBSET Nat, 0 \in S, \A n \in S : n + 1 \in S
    PROVE  S = Nat
<1> SUFFICES ASSUME S # Nat PROVE FALSE
  OBVIOUS
<1>1. PICK n \in Nat \ S : \A m \in Nat \ S : n <= m
  <2>1. Nat \ S \in SUBSET Nat /\ Nat \ S # {}
    OBVIOUS
  <2> QED BY <2>1, Least
<1>2. n # 0 /\ n - 1 \in Nat
  BY <1>1
<1>3. n - 1 \in S
  BY <1>1, <1>2
<1> QED BY <1>1, <1>2, <1>3

\* A value and how each of those that follow comes of the one before define a
\* sequence of values.
Iterates(F, V, base, step) ==
    F \in [Nat -> V] /\ F[0] = base /\ \A i \in Nat : F[i + 1] = step[i][F[i]]

LEMMA Iteration ==
    ASSUME NEW V, NEW base, NEW step, base \in V, step \in [Nat -> [V -> V]]
    PROVE  \E F : Iterates(F, V, base, step)
<1> DEFINE Solves(g, n) ==
              /\ g \in [0..n -> V] /\ g[0] = base
              /\ \A i \in 0..n - 1 : g[i + 1] = step[i][g[i]]
           Solved == {n \in Nat : \E g : Solves(g, n)}
           Agreed == {i \in Nat : \A m, n \in Nat : \A g, h :
                        Solves(g, m) /\ Solves(h, n) /\ i <= m /\ i <= n => g[i] = h[i]}
<1>1. Solved = Nat
  <2>1. Solves([i \in 0..0 |-> base], 0)
    OBVIOUS
  <2>2. ASSUME NEW n \in Solved PROVE n + 1 \in Solved
    <3>1. n \in Nat /\ n + 1 \in Nat
      OBVIOUS
    <3>2. PICK g : Solves(g, n)
      BY <2>2
    <3> DEFINE h == [i \in 0..n + 1 |-> IF i <= n THEN g[i] ELSE step[n][g[n]]]
    <3>3. g[n] \in V /\ step[n][g[n]] \in V
      BY <3>1, <3>2
    <3>4. h \in [0..n + 1 -> V]
      BY <3>1, <3>2, <3>3
    <3>5. h[0] = base
      BY <3>1, <3>2
    <3>6. ASSUME NEW i \in 0..(n + 1) - 1 PROVE h[i + 1] = step[i][h[i]]
      <4>1. i \in 0..n + 1 /\ i + 1 \in 0..n + 1 /\ i <= n /\ i \in Nat
        BY <3>1
      <4>2. h[i] = g[i]
        BY <4>1
      <4>3. CASE i = n
        BY <4>1, <4>2, <4>3, <3>1
      <4>4. CASE i # n
        <5>1. i + 1 <= n /\ i \in 0..n - 1
          BY <4>1, <4>4, <3>1
        <5>2. h[i + 1] = g[i + 1]
          BY <5>1, <4>1
        <5> QED BY <5>1, <5>2, <4>2, <3>2
      <4> QED BY <4>3, <4>4
    <3>7. Solves(h, n + 1)
      <4> HIDE DEF h
      <4> QED BY <3>4, <3>5, <3>6
    <3> HIDE DEF Solves
    <3> QED BY <3>1, <3>7
  <2>3. 0 \in Solved
    <3> HIDE DEF Solves
    <3> QED BY <2>1
  <2>4. Solved \in SUBSET Nat
    OBVIOUS
  <2> HIDE DEF Solved
  <2> QED BY <2>2, <2>3, <2>4, Induction
<1>2. Agreed = Nat
  <2>1. 0 \in Agreed
    OBVIOUS
  <2>2. ASSUME NEW i \in Agreed PROVE i + 1 \in Agreed
    <3>1. i \in Nat /\ i + 1 \in Nat
      OBVIOUS
    <3>2. ASSUME NEW m \in Nat, NEW n \in Nat, NEW g, NEW h,
                 Solves(g, m), Solves(h, n), i + 1 <= m, i + 1 <= n
          PROVE  g[i + 1] = h[i + 1]
      <4>1. i <= m /\ i <= n /\ i \in 0..m - 1 /\ i \in 0..n - 1
        BY <3>1, <3>2
      <4>2. g[i] = h[i]
        <5> HIDE DEF Solves
        <5> QED BY <3>2, <4>1
      <4> QED BY <3>2, <4>1, <4>2
    <3> HIDE DEF Solves
    <3> QED BY <3>1, <3>2
  <2>3. Agreed \in SUBSET Nat
    OBVIOUS
  <2> HIDE DEF Agreed
  <2> QED BY <2>1, <2>2, <2>3, Induction
<1> DEFINE G == [n \in Nat |-> CHOOSE g : Solves(g, n)]
           F == [n \in Nat |-> G[n][n]]
<1>3. ASSUME NEW n \in Nat PROVE Solves(G[n], n)
  <2>1. \E g : Solves(g, n)
    BY <1>1
  <2>2. G[n] = CHOOSE g : Solves(g, n)
    OBVIOUS
  <2> HIDE DEF Solves, G
  <2> QED BY <2>1, <2>2
<1> HIDE DEF G
<1>4. F \in [Nat -> V]
  <2>1. ASSUME NEW n \in Nat PROVE G[n][n] \in V
    BY <1>3
  <2> QED BY <2>1
<1>5. F[0] = base
  BY <1>3
<1>6. ASSUME NEW i \in Nat PROVE F[i + 1] = step[i][F[i]]
  <2>1. i + 1 \in Nat /\ i \in 0..(i + 1) - 1 /\ i <= i /\ i <= i + 1
    OBVIOUS
  <2>2. F[i + 1] = G[i + 1][i + 1] /\ F[i] = G[i][i]
    BY <2>1
  <2>3. G[i + 1][i + 1] = step[i][G[i + 1][i]]
    BY <1>3, <2>1
  <2>4. G[i + 1][i] = G[i][i]
    <3>1. Solves(G[i + 1], i + 1) /\ Solves(G[i], i)
      BY <1>3, <2>1
    <3>2. i \in Agreed
      BY <1>2
    <3> HIDE DEF Solves, G
    <3> QED BY <2>1, <3>1, <3>2
  <2> QED BY <2>2, <2>3, <2>4
<1> HIDE DEF F
<1> QED BY <1>4, <1>5, <1>6 DEF Iterates

\* Induction up to some number.
LEMMA InductionTo ==
    ASSUME NEW N \in Nat, NEW S, 0 \in S, \A i \in 1..N : i - 1 \in S => i \in S
    PROVE  \A i \in 0..N : i \in S
<1> DEFINE T == {i \in Nat : i <= N => i \in S}
<1>1. 0 \in T
  OBVIOUS
<1>2. ASSUME NEW i \in T PROVE i + 1 \in T
  <2>1. i \in Nat /\ i + 1 \in Nat
    OBVIOUS
  <2>2. ASSUME i + 1 <= N PROVE i + 1 \in S
    <3>1. i <= N /\ i + 1 \in 1..N /\ (i + 1) - 1 = i
      BY <2>1, <2>2
    <3>2. i \in S
      BY <3>1
    <3> QED BY <3>1, <3>2
  <2> QED BY <2>1, <2>2
<1>3. T \in SUBSET Nat
  OBVIOUS
<1>4. T = Nat
  <2> HIDE DEF T
  <2> QED BY <1>1, <1>2, <1>3, Induction
<1>5. ASSUME NEW i \in 0..N PROVE i \in S
  <2>1. i \in T /\ i <= N
    BY <1>4
  <2> QED BY <2>1
<1> QED BY <1>5

\* As Iteration, for the values from 0 up to N.
Steps(F, N, V, base, step) ==
    F \in [0..N -> V] /\ F[0] = base /\ \A i \in 1..N : F[i] = step[i][F[i - 1]]

LEMMA BoundedIteration ==
    ASSUME NEW N \in Nat, NEW V, NEW base, NEW step, base \in V, step \in [1..N -> [V -> V]]
    PROVE  \E F : Steps(F, N, V, base, step)
<1> DEFINE longer == [i \in Nat |-> [x \in V |-> IF i < N THEN step[i + 1][x] ELSE x]]
<1>1. longer \in [Nat -> [V -> V]]
  <2>1. ASSUME NEW i \in Nat, NEW x \in V, i < N PROVE step[i + 1][x] \in V
    <3>1. i + 1 \in 1..N
      BY <2>1
    <3>2. step[i + 1] \in [V -> V]
      BY <3>1
    <3> QED BY <3>2
  <2> QED BY <2>1
<1>2. PICK G : Iterates(G, V, base, longer)
  <2> HIDE DEF longer
  <2> QED BY <1>1, Iteration
<1> DEFINE F == [i \in 0..N |-> G[i]]
<1>3. F \in [0..N -> V] /\ F[0] = base
  BY <1>2 DEF Iterates
<1>4. ASSUME NEW i \in 1..N PROVE F[i] = step[i][F[i - 1]]
  <2>1. i - 1 \in Nat /\ (i - 1) + 1 = i /\ i - 1 < N /\ i \in 0..N /\ i - 1 \in 0..N
    OBVIOUS
  <2>2. G[i - 1] \in V
    BY <1>2, <2>1 DEF Iterates
  <2>3. G[(i - 1) + 1] = longer[i - 1][G[i - 1]]
    <3> HIDE DEF longer
    <3> QED BY <1>2, <2>1 DEF Iterates
  <2>4. longer[i - 1][G[i - 1]] = step[i][G[i - 1]]
    BY <2>1, <2>2
  <2>5. F[i] = G[i] /\ F[i - 1] = G[i - 1]
    BY <2>1
  <2> HIDE DEF longer, F
  <2> QED BY <2>1, <2>3, <2>4, <2>5
<1> HIDE DEF F
<1> QED BY <1>3, <1>4 DEF Steps

-----------------------------------------------------------------------------
(* The runs *)

\* A run of the checks keeps its network, fetches the apex's page for one of
\* those who ask for it, and judges once, from that network and that fetch.
THEOREM RunInductive == Spec => []RunInv
<1>1. Init => RunInv
  <2> SUFFICES ASSUME Init PROVE RunInv
    OBVIOUS
  <2>1. IsNetwork(net)
    BY ScenesAssumption DEF Init
  <2> QED BY <2>1 DEF Init, RunInv
<1>2. RunInv /\ [Next]_vars => RunInv'
  <2> SUFFICES ASSUME RunInv, [Next]_vars PROVE RunInv'
    OBVIOUS
  <2>1. CASE AskedAsTarget
    <3>1. net' = net /\ verdicts' = verdicts /\ memo = <<>>
      BY <2>1 DEF AskedAsTarget, FetchApexFor
    <3>2. PICK h \in {Host("apex", FALSE)} : memo' = FetchedFor(h)
      BY <2>1 DEF AskedAsTarget, FetchApexFor
    <3>3. verdicts = <<>>
      BY <2>1, <3>1 DEF RunInv, AskedAsTarget, FetchApexFor
    <3> QED BY <3>1, <3>2, <3>3 DEF RunInv, FirstAskers
  <2>2. CASE AskedAsWebHost
    <3>1. net' = net /\ verdicts' = verdicts /\ memo = <<>>
      BY <2>2 DEF AskedAsWebHost, FetchApexFor
    <3>2. PICK h \in TLSHosts(net) : h.name = "apex" /\ memo' = FetchedFor(h)
      BY <2>2 DEF AskedAsWebHost, FetchApexFor
    <3>3. verdicts = <<>>
      BY <2>2, <3>1 DEF RunInv, AskedAsWebHost, FetchApexFor
    <3> QED BY <3>1, <3>2, <3>3 DEF RunInv, FirstAskers
  <2>3. CASE Judge
    BY <2>3 DEF RunInv, Judge, FirstAskers
  <2>4. CASE UNCHANGED vars
    BY <2>4 DEF RunInv, vars, FirstAskers
  <2> QED BY <2>1, <2>2, <2>3, <2>4 DEF Next
<1> QED BY <1>1, <1>2, PTL DEF Spec

-----------------------------------------------------------------------------
(* The verdicts of a run *)

\* What every reachable state has: a network, and the verdicts on it.
LEMMA RunFacts ==
    ASSUME RunInv
    PROVE  /\ IsNetwork(net)
           /\ Ran => verdicts = Verdicts(net, memo)
           /\ Ran /\ net.family = "http" =>
                \E h \in FirstAskers : memo = FetchedFor(h)
BY DEF RunInv, Ran

\* The checks of every family.
FamilyChecks ==
    [nameserver |-> {"axfr_allowed", "open_resolver"}, caa |-> {"caa_missing", "caa_invalid"},
     dnssec |-> {"dnssec_missing", "dnssec_invalid", "dnssec_weak"},
     cname |-> {"takeover_possible", "cname_dangling"},
     tls |-> {"cert_invalid", "hostname_mismatch", "cert_expiring", "no_modern_tls",
              "deprecated_tls", "weak_ciphers"},
     http |-> {"hsts_missing", "hsts_weak", "preload_not_ready", "redirect_missing", "csp_missing",
               "frame_missing", "nosniff_missing", "referrer_missing", "sensitive_path"},
     mx |-> {"mx_missing", "mx_unresolvable", "mx_unexpected", "fcrdns", "dnsbl_listed"},
     spf |-> {"spf_missing", "spf_multiple", "spf_syntax", "spf_lookup_limit", "spf_void_lookups",
              "spf_permissive_all"},
     dmarc |-> {"dmarc_missing", "dmarc_syntax", "dmarc_policy_none", "dmarc_no_reporting",
                "dmarc_external_auth"},
     dkim |-> {"dkim_missing", "dkim_weak_key"},
     mtasts |-> {"mtasts_missing", "mtasts_invalid", "mtasts_testing", "tlsrpt_missing"},
     starttls |-> {"starttls_unsupported", "starttls_cert_invalid", "starttls_cert_expiring"}]

LEMMA FamiliesOf == DOMAIN Fields = DOMAIN FamilyChecks
BY DEF Fields, FamilyChecks

\* Each family's checks have verdicts, and no others do.
LEMMA ChecksOf ==
    ASSUME NEW n, NEW asked, n.family \in DOMAIN Fields
    PROVE  DOMAIN Verdicts(n, asked) = FamilyChecks[n.family]
<1>1. CASE n.family = "tls"
  BY <1>1 DEF Verdicts, TlsVerdicts, FamilyChecks
<1>2. CASE n.family = "http"
  BY <1>2 DEF Verdicts, HttpVerdicts, FamilyChecks
<1>3. CASE n.family = "nameserver"
  <2>1. Verdicts(n, asked) = DnsVerdicts(n)
    BY <1>3 DEF Verdicts
  <2> QED BY <1>3, <2>1 DEF DnsVerdicts, FamilyChecks
<1>4. CASE n.family = "caa"
  <2>1. Verdicts(n, asked) = DnsVerdicts(n)
    BY <1>4 DEF Verdicts
  <2> QED BY <1>4, <2>1 DEF DnsVerdicts, FamilyChecks
<1>5. CASE n.family = "dnssec"
  <2>1. Verdicts(n, asked) = DnsVerdicts(n)
    BY <1>5 DEF Verdicts
  <2> QED BY <1>5, <2>1 DEF DnsVerdicts, FamilyChecks
<1>6. CASE n.family = "cname"
  <2>1. Verdicts(n, asked) = DnsVerdicts(n)
    BY <1>6 DEF Verdicts
  <2> QED BY <1>6, <2>1 DEF DnsVerdicts, FamilyChecks
<1>7. CASE n.family = "mx"
  <2>1. Verdicts(n, asked) = MailVerdicts(n)
    BY <1>7 DEF Verdicts
  <2> QED BY <1>7, <2>1 DEF MailVerdicts, FamilyChecks
<1>8. CASE n.family = "spf"
  <2>1. Verdicts(n, asked) = MailVerdicts(n)
    BY <1>8 DEF Verdicts
  <2> QED BY <1>8, <2>1 DEF MailVerdicts, FamilyChecks
<1>9. CASE n.family = "dmarc"
  <2>1. Verdicts(n, asked) = MailVerdicts(n)
    BY <1>9 DEF Verdicts
  <2> QED BY <1>9, <2>1 DEF MailVerdicts, FamilyChecks
<1>10. CASE n.family = "dkim"
  <2>1. Verdicts(n, asked) = MailVerdicts(n)
    BY <1>10 DEF Verdicts
  <2> QED BY <1>10, <2>1 DEF MailVerdicts, FamilyChecks
<1>11. CASE n.family = "mtasts"
  <2>1. Verdicts(n, asked) = MailVerdicts(n)
    BY <1>11 DEF Verdicts
  <2> QED BY <1>11, <2>1 DEF MailVerdicts, FamilyChecks
<1>12. CASE n.family = "starttls"
  <2>1. Verdicts(n, asked) = MailVerdicts(n)
    BY <1>12 DEF Verdicts
  <2> QED BY <1>12, <2>1 DEF MailVerdicts, FamilyChecks
<1> QED BY <1>1, <1>2, <1>3, <1>4, <1>5, <1>6, <1>7, <1>8, <1>9, <1>10, <1>11, <1>12 DEF Fields

\* A check tells the family of its network.
LEMMA FamilyOf ==
    ASSUME NEW n, NEW asked, n.family \in DOMAIN Fields,
           NEW f \in DOMAIN Fields, NEW c \in FamilyChecks[f], c \in DOMAIN Verdicts(n, asked)
    PROVE  n.family = f
<1>1. c \in FamilyChecks[n.family]
  BY ChecksOf
<1>2. \A f1, f2 \in DOMAIN Fields : f1 # f2 => FamilyChecks[f1] \cap FamilyChecks[f2] = {}
  BY DEF Fields, FamilyChecks
<1> QED BY <1>1, <1>2

-----------------------------------------------------------------------------
(* The chain of trust *)

\* Every signature says which key it was made by, so among keys whose algorithms
\* are all known, and all the tags of one algorithm, a set is valid or bad.
LEMMA VerifySets ==
    ASSUME NEW sigs, NEW keys,
           \A s \in sigs, k \in keys : s.by = k.id => SameKey(s, k)
    PROVE  /\ (\E k \in keys : k.algorithm \notin Unverifiable /\ SignedBy(sigs, k))
                <=> verifySet(sigs, keys) = "valid"
           /\ /\ \A k \in keys : k.algorithm \notin Unverifiable
              /\ \A s \in sigs, k \in keys : s.tag = k.tag => s.algorithm = k.algorithm
              => verifySet(sigs, keys) \in {"valid", "bad"}
           /\ verifySet(sigs, keys) \in {"valid", "bad", "unsupported"}
<1> DEFINE tried == {p \in sigs \X keys : SameKey(p[1], p[2]) /\ p[2].algorithm \notin Unverifiable}
           named == \E s \in sigs, k \in keys : s.tag = k.tag
           made == \E p \in tried : p[1].by = p[2].id /\ p[1].current
<1>1. verifySet(sigs, keys) = CASE made -> "valid"
                                [] tried = {} /\ named -> "unsupported"
                                [] OTHER -> "bad"
  BY DEF verifySet
<1>2. made => tried # {}
  OBVIOUS
<1>3. made <=> \E k \in keys : k.algorithm \notin Unverifiable /\ SignedBy(sigs, k)
  <2>1. ASSUME NEW k \in keys, k.algorithm \notin Unverifiable, SignedBy(sigs, k) PROVE made
    <3>1. PICK s \in sigs : s.by = k.id /\ s.current
      BY <2>1 DEF SignedBy
    <3>2. SameKey(s, k)
      BY <3>1
    <3>3. <<s, k>> \in tried
      BY <3>2, <2>1
    <3> QED BY <3>1, <3>3
  <2>2. ASSUME made PROVE \E k \in keys : k.algorithm \notin Unverifiable /\ SignedBy(sigs, k)
    <3>1. PICK p \in tried : p[1].by = p[2].id /\ p[1].current
      BY <2>2
    <3>2. p[1] \in sigs /\ p[2] \in keys /\ p[2].algorithm \notin Unverifiable
      BY <3>1
    <3> QED BY <3>1, <3>2 DEF SignedBy
  <2> QED BY <2>1, <2>2
<1>4. ASSUME \A k \in keys : k.algorithm \notin Unverifiable,
             \A s \in sigs, k \in keys : s.tag = k.tag => s.algorithm = k.algorithm,
             named
      PROVE  tried # {}
  <2>1. PICK s \in sigs, k \in keys : s.tag = k.tag
    BY <1>4
  <2>2. <<s, k>> \in tried
    BY <2>1, <1>4 DEF SameKey
  <2> QED BY <2>2
<1> HIDE DEF tried, named, made
<1> QED BY <1>1, <1>2, <1>3, <1>4

\* validate calls a zone that has keys and a DS broken unless some DS vouches for
\* a key that signed the key set and some key signed the zone's data.
LEMMA Validated ==
    ASSUME NEW n, SignaturesTyped(n), n.ds # {}, validate(n) # Error
    PROVE  /\ Accepted(n) => validate(n) # "broken"
           /\ ~Accepted(n) /\ AllKnown(n) => validate(n) = "broken"
<1> DEFINE matched == {p \in n.ds \X n.keys : SameKey(p[1], p[2])}
           anchors == {p[2] : p \in {q \in matched : /\ q[1].type \notin UnknownDigests
                                                     /\ q[1].digest = q[2].id}}
           keySet == verifySet(n.keySigs, anchors)
           zone == verifySet(n.soaSigs, n.keys)
           broken == \/ n.keys = {}
                     \/ anchors = {} /\ \A p \in matched : p[1].type \notin UnknownDigests
                     \/ anchors # {} /\ keySet = "bad"
                     \/ anchors # {} /\ keySet = "valid" /\ zone = "bad"
<1>1. validate(n) = IF broken THEN "broken" ELSE "fine"
  BY DEF validate
<1>2. anchors \subseteq n.keys
  OBVIOUS
<1>3. \A k : k \in anchors <=> /\ k \in n.keys
                               /\ \E d \in n.ds : /\ SameKey(d, k) /\ d.digest = k.id
                                                  /\ d.type \notin UnknownDigests
  <2>1. ASSUME NEW k \in n.keys, NEW d \in n.ds,
               SameKey(d, k), d.digest = k.id, d.type \notin UnknownDigests
        PROVE  k \in anchors
    <3>1. <<d, k>> \in matched
      BY <2>1
    <3> QED BY <2>1, <3>1
  <2> QED BY <2>1
<1>4. /\ \A s \in n.keySigs, k \in anchors : s.by = k.id => SameKey(s, k)
      /\ \A s \in n.soaSigs, k \in n.keys : s.by = k.id => SameKey(s, k)
  BY <1>2 DEF SignaturesTyped
<1> HIDE DEF matched, anchors
<1>5. Accepted(n) <=> keySet = "valid" /\ zone = "valid"
  BY <1>3, <1>4, VerifySets DEF Accepted
<1>6. Accepted(n) => ~broken
  <2> SUFFICES ASSUME Accepted(n) PROVE ~broken
    OBVIOUS
  <2>1. anchors # {} /\ n.keys # {}
    BY <1>3 DEF Accepted
  <2> QED BY <2>1, <1>5
<1>7. AllKnown(n) => keySet \in {"valid", "bad"} /\ zone \in {"valid", "bad"}
  BY <1>2, <1>4, VerifySets DEF AllKnown
<1>8. AllKnown(n) => \A p \in matched : p[1].type \notin UnknownDigests
  BY DEF AllKnown, matched
<1> HIDE DEF keySet, zone
<1> QED BY <1>1, <1>5, <1>6, <1>7, <1>8

\* A zone with a DS whose chain a validating resolver accepts is never reported
\* by dnssec_invalid, and one whose chain it rejects always is, if every algorithm
\* and digest is known and no signature's tag is that of a key of another kind.
THEOREM ValidChainsAreJudged == Spec => []ValidChainsPass
<1>1. RunInv => ValidChainsPass
  <2> SUFFICES ASSUME RunInv, Judged({"dnssec_invalid"}), net.apex, net.ds # {}
               PROVE  /\ Accepted(net) => verdicts["dnssec_invalid"] = {}
                      /\ ~Accepted(net) /\ AllKnown(net) => verdicts["dnssec_invalid"] # {}
    BY DEF ValidChainsPass
  <2>1. IsNetwork(net) /\ verdicts = Verdicts(net, memo)
        /\ "dnssec_invalid" \in DOMAIN verdicts /\ verdicts["dnssec_invalid"] # Error
    BY RunFacts DEF Judged
  <2>2. net.family = "dnssec"
    <3>1. "dnssec" \in DOMAIN Fields /\ "dnssec_invalid" \in FamilyChecks["dnssec"]
      BY DEF Fields, FamilyChecks
    <3> QED BY <2>1, <3>1, FamilyOf DEF IsNetwork
  <2>3. verdicts["dnssec_invalid"] = DNSSECInvalid(net)
    BY <2>1, <2>2 DEF Verdicts, DnsVerdicts
  <2>4. validate(net) # Error
        /\ DNSSECInvalid(net) = If(validate(net) = "broken", OnTarget)
    BY <2>1, <2>3 DEF DNSSECInvalid, loadDNSSEC, Ask, With
  <2>5. SignaturesTyped(net)
    BY <2>1, <2>2 DEF IsNetwork
  <2> QED BY <2>3, <2>4, <2>5, Validated DEF If
<1> QED BY <1>1, RunInductive, PTL

-----------------------------------------------------------------------------
(* Findings *)

\* A check that judged each item has judged every one of them.
LEMMA EachJudged ==
    ASSUME NEW judged, Each(judged) # Error
    PROVE  /\ \A i \in DOMAIN judged : judged[i] # Error
           /\ \A f : f \in Each(judged) <=> \E i \in DOMAIN judged : f \in judged[i]
BY DEF Each

\* No two web hosts of a target have one name.
LEMMA HostNames ==
    ASSUME NEW n, NEW g \in TLSHosts(n), NEW h \in TLSHosts(n), g.name = h.name
    PROVE  g = h
<1> DEFINE linked == {u.host : u \in {v \in n.urls : v.scheme = "https"}}
           others == {Host(x, TRUE) : x \in linked \ {w.name : w \in WebHosts(n)}}
<1>1. TLSHosts(n) = WebHosts(n) \cup others
  BY DEF TLSHosts
<1>2. \A x, e : Host(x, e).name = x
  BY DEF Host
<1>3. \A v \in others : v = Host(v.name, TRUE) /\ \A w \in WebHosts(n) : v.name # w.name
  BY <1>2
<1>4. ASSUME NEW v \in WebHosts(n), NEW w \in WebHosts(n), v.name = w.name PROVE v = w
  <2>1. CASE n.declared = {}
    <3> DEFINE apex == Host("apex", FALSE)
               www == Host("www", FALSE)
    <3>1. WebHosts(n) = {apex, www}
      BY <2>1 DEF WebHosts
    <3>2. apex.name = "apex" /\ www.name = "www"
      BY <1>2
    <3> HIDE DEF apex, www
    <3> QED BY <3>1, <3>2, <1>4
  <2>2. CASE n.declared # {}
    <3>1. (\E x \in n.declared : v = Host(x, TRUE)) /\ (\E x \in n.declared : w = Host(x, TRUE))
      BY <2>2 DEF WebHosts
    <3>2. PICK x \in n.declared, y \in n.declared : v = Host(x, TRUE) /\ w = Host(y, TRUE)
      BY <3>1
    <3>3. v.name = x /\ w.name = y
      BY <3>2, <1>2
    <3> QED BY <3>2, <3>3, <1>4
  <2> QED BY <2>1, <2>2
<1> HIDE DEF others
<1> QED BY <1>1, <1>2, <1>3, <1>4

LEMMA OneReportPerName ==
    ASSUME NEW n, CNamesTyped(n), TakeoverPossible(n) # Error, CNAMEDangling(n) # Error,
           NEW x \in DOMAIN n.cname, n.cname[x].dangling, n.cname[x].targets # <<>>
    PROVE  (\E f \in TakeoverPossible(n) : f.subject = x)
              <=> ~(\E f \in CNAMEDangling(n) : f.subject = x)
<1> DEFINE taken == [y \in DOMAIN n.cname |->
                       Ask(n, <<"A", y>>, IF n.cname[y].targets = <<>> THEN {}
                                          ELSE With(claimable(n, y), If(claimable(n, y), About(y))))]
           left == [y \in DOMAIN n.cname |->
                       Ask(n, <<"A", y>>, IF n.cname[y].targets = <<>> THEN {}
                                          ELSE If(n.cname[y].dangling /\ claimable(n, y) # TRUE, About(y)))]
<1>1. TakeoverPossible(n) = Each(taken) /\ CNAMEDangling(n) = Each(left)
  BY DEF TakeoverPossible, CNAMEDangling, chains
<1>2. ASSUME NEW y \in DOMAIN n.cname
      PROVE  /\ taken[y] # Error /\ left[y] # Error
             /\ \A f \in taken[y] \cup left[y] : f.subject = y
             /\ \A f : f \in taken[y] => f \in TakeoverPossible(n)
             /\ \A f : f \in left[y] => f \in CNAMEDangling(n)
  <2>1. taken[y] # Error /\ left[y] # Error
    BY <1>1, EachJudged
  <2>2. ASSUME NEW f \in taken[y] \cup left[y] PROVE f.subject = y
    <3>1. f = About(y)
      BY <2>1 DEF Ask, With, If
    <3> QED BY <3>1 DEF About, Finding
  <2> HIDE DEF taken, left
  <2>3. y \in DOMAIN taken /\ y \in DOMAIN left
    BY DEF taken, left
  <2> QED BY <1>1, <2>1, <2>2, <2>3, EachJudged
<1>3. (\E f \in TakeoverPossible(n) : f.subject = x) <=> taken[x] # {}
  <2>1. \A f \in TakeoverPossible(n) : \E y \in DOMAIN n.cname : f \in taken[y]
    BY <1>1, EachJudged
  <2> HIDE DEF taken, left
  <2> QED BY <1>2, <2>1
<1>4. (\E f \in CNAMEDangling(n) : f.subject = x) <=> left[x] # {}
  <2>1. \A f \in CNAMEDangling(n) : \E y \in DOMAIN n.cname : f \in left[y]
    BY <1>1, EachJudged
  <2> HIDE DEF taken, left
  <2> QED BY <1>2, <2>1
<1>5. <<"A", x>> \notin n.fails
  BY <1>2 DEF Ask
<1>6. taken[x] = With(claimable(n, x), If(claimable(n, x), About(x)))
      /\ left[x] = If(claimable(n, x) # TRUE, About(x))
  BY <1>5 DEF Ask, If
<1>7. claimable(n, x) \in BOOLEAN
  BY DEF claimable
<1>8. taken[x] = If(claimable(n, x), About(x))
  BY <1>2, <1>6 DEF With
<1> HIDE DEF taken, left
<1> QED BY <1>3, <1>4, <1>6, <1>7, <1>8 DEF If

LEMMA ExpiredIsNotExpiring ==
    ASSUME NEW n, \A h \in TLSHosts(n) : Leaf(n, h).left \in Int, CertExpiring(n) # Error,
           NEW h \in TLSHosts(n), Expired(n.tls[h.name].cert),
           NEW f \in CertExpiring(n), f.subject = h.name
    PROVE  FALSE
<1> DEFINE soon(g) == If(Leaf(n, g).sent /\ 0 < Leaf(n, g).left /\ Leaf(n, g).left <= expiringDays,
                         Finding(g.name, IF Leaf(n, g).left <= urgentDays THEN "high" ELSE "default"))
           judged == [g \in TLSHosts(n) |-> Handshaken(n, g, soon(g))]
<1>1. CertExpiring(n) = Each(judged)
  BY DEF CertExpiring, OfHandshake
<1>2. PICK g \in TLSHosts(n) : f \in judged[g] /\ judged[g] # Error
  BY <1>1, EachJudged
<1>3. f \in soon(g)
  BY <1>2 DEF Handshaken, Absent
<1>4. 0 < Leaf(n, g).left /\ f.subject = g.name
  BY <1>3 DEF If, Finding
<1> QED BY <1>4 DEF Leaf, Expired

LEMMA WeakIsNotMissing ==
    ASSUME NEW n, NEW memo0, HSTSMissing(n, memo0) # Error, HSTSWeak(n, memo0) # Error,
           NEW f \in HSTSMissing(n, memo0), NEW e \in HSTSWeak(n, memo0), f.subject = e.subject
    PROVE  FALSE
<1> DEFINE responses == httpsResponses(n, memo0)
           weak == {v \in {n.page[u].hsts : u \in DOMAIN n.page} : Weak(v)}
<1>1. ASSUME NEW bad, OfHSTS(n, responses, bad) # Error, NEW d \in OfHSTS(n, responses, bad)
      PROVE  \E h \in TLSHosts(n) : d.subject = h.name /\ n.page[responses[h].url].hsts \in bad
  <2> DEFINE found(h) == If(n.page[responses[h].url].hsts \in bad, About(h.name))
             judged == [h \in DOMAIN responses |-> Fetched(responses[h], found(h))]
  <2>1. OfHSTS(n, responses, bad) = Each(judged)
    BY DEF OfHSTS
  <2>2. DOMAIN judged = DOMAIN responses /\ \A x \in DOMAIN responses : judged[x] = Fetched(responses[x], found(x))
    <3> HIDE DEF responses, found
    <3> QED BY Zenon
  <2> HIDE DEF judged, found
  <2>3. PICK h \in DOMAIN responses : d \in Fetched(responses[h], found(h)) /\ Fetched(responses[h], found(h)) # Error
    BY <1>1, <2>1, <2>2, EachJudged
  <2>4. d \in found(h)
    BY <2>3 DEF Fetched, Absent
  <2>5. h \in TLSHosts(n)
    BY <2>3 DEF httpsResponses
  <2> QED BY <2>4, <2>5 DEF found, If, About, Finding
<1>2. PICK g \in TLSHosts(n) : f.subject = g.name /\ n.page[responses[g].url].hsts \in {<<>>}
  BY <1>1 DEF HSTSMissing
<1>3. PICK h \in TLSHosts(n) : e.subject = h.name /\ n.page[responses[h].url].hsts \in weak
  BY <1>1 DEF HSTSWeak
<1>4. g = h
  BY <1>2, <1>3, HostNames
<1> QED BY <1>2, <1>3, <1>4 DEF Weak

\* A host that STARTTLS was found wanting of is reported by one of three checks.
LEMMA OneReportPerServer ==
    ASSUME NEW n,
           StarttlsUnsupported(n) # Error, StarttlsCertInvalid(n) # Error, StarttlsCertExpiring(n) # Error,
           NEW h
    PROVE  /\ (\E f \in StarttlsUnsupported(n) : f.subject = h) => ~Secured(n, h)
           /\ (\E f \in StarttlsCertInvalid(n) : f.subject = h) => Secured(n, h) /\ ~n.smtp[h].verifies
           /\ (\E f \in StarttlsCertExpiring(n) : f.subject = h) => Secured(n, h) /\ n.smtp[h].verifies
<1> DEFINE probed(judged) == [g \in MXHosts(n) |-> Ask(n, <<"connect", g>>, Ask(n, <<"EHLO", g>>, judged[g]))]
           plain == [g \in MXHosts(n) |-> If(n.smtp[g].tls = "none" \/ TLSBroken(n, g), About(g))]
           invalid == [g \in MXHosts(n) |-> If(Secured(n, g) /\ ~n.smtp[g].verifies, About(g))]
           soon == [g \in MXHosts(n) |->
                      If(Secured(n, g) /\ n.smtp[g].verifies /\ n.smtp[g].left <= 21,
                         Finding(g, IF n.smtp[g].left <= 7 THEN "high" ELSE "default"))]
<1>1. ASSUME NEW judged, probeAll(n, judged) # Error, NEW f \in probeAll(n, judged)
      PROVE  \E g \in MXHosts(n) : f \in judged[g]
  <2>1. f \in Each(probed(judged)) /\ Each(probed(judged)) # Error
    BY <1>1 DEF probeAll, Inbound, loadMX, Ask
  <2>2. PICK g \in DOMAIN probed(judged) : f \in probed(judged)[g] /\ probed(judged)[g] # Error
    BY <2>1, EachJudged
  <2> QED BY <2>2 DEF Ask
<1>2. \A g, s : Finding(g, s).subject = g
  BY DEF Finding
<1>3. ASSUME NEW f \in StarttlsUnsupported(n), f.subject = h PROVE ~Secured(n, h)
  <2>1. PICK g \in MXHosts(n) : f \in plain[g]
    BY <1>1 DEF StarttlsUnsupported
  <2>2. f = About(g) /\ (n.smtp[g].tls = "none" \/ TLSBroken(n, g))
    BY <2>1 DEF If
  <2> QED BY <1>2, <1>3, <2>2 DEF About, Secured
<1>4. ASSUME NEW f \in StarttlsCertInvalid(n), f.subject = h
      PROVE  Secured(n, h) /\ ~n.smtp[h].verifies
  <2>1. PICK g \in MXHosts(n) : f \in invalid[g]
    BY <1>1 DEF StarttlsCertInvalid
  <2>2. f = About(g) /\ Secured(n, g) /\ ~n.smtp[g].verifies
    BY <2>1 DEF If
  <2> QED BY <1>2, <1>4, <2>2 DEF About
<1>5. ASSUME NEW f \in StarttlsCertExpiring(n), f.subject = h
      PROVE  Secured(n, h) /\ n.smtp[h].verifies
  <2>1. PICK g \in MXHosts(n) : f \in soon[g]
    BY <1>1 DEF StarttlsCertExpiring
  <2>2. /\ f = Finding(g, IF n.smtp[g].left <= 7 THEN "high" ELSE "default")
        /\ Secured(n, g) /\ n.smtp[g].verifies
    BY <2>1 DEF If
  <2> QED BY <1>2, <1>5, <2>2
<1> QED BY <1>3, <1>4, <1>5

LEMMA ServerIsReported ==
    ASSUME NEW n,
           StarttlsUnsupported(n) # Error, StarttlsCertInvalid(n) # Error, StarttlsCertExpiring(n) # Error,
           NEW h \in MXHosts(n), ~Secured(n, h) \/ ~n.smtp[h].verifies \/ n.smtp[h].left <= 21
    PROVE  \E f \in StarttlsUnsupported(n) \cup StarttlsCertInvalid(n) \cup StarttlsCertExpiring(n) :
              f.subject = h
<1> DEFINE probed(judged) == [g \in MXHosts(n) |-> Ask(n, <<"connect", g>>, Ask(n, <<"EHLO", g>>, judged[g]))]
           plain == [g \in MXHosts(n) |-> If(n.smtp[g].tls = "none" \/ TLSBroken(n, g), About(g))]
           invalid == [g \in MXHosts(n) |-> If(Secured(n, g) /\ ~n.smtp[g].verifies, About(g))]
           soon == [g \in MXHosts(n) |->
                      If(Secured(n, g) /\ n.smtp[g].verifies /\ n.smtp[g].left <= 21,
                         Finding(g, IF n.smtp[g].left <= 7 THEN "high" ELSE "default"))]
<1>1. ASSUME NEW judged, probeAll(n, judged) # Error PROVE judged[h] \subseteq probeAll(n, judged)
  <2>1. ReceivesMail(n)
    BY DEF ReceivesMail, NullMX, MXHosts
  <2>2. probeAll(n, judged) = Each(probed(judged))
    BY <1>1, <2>1 DEF probeAll, Inbound, loadMX, Ask
  <2>3. h \in DOMAIN probed(judged) /\ probed(judged)[h] # Error
    BY <1>1, <2>2, EachJudged
  <2>4. probed(judged)[h] = judged[h]
    BY <2>3 DEF Ask
  <2> HIDE DEF probed
  <2> QED BY <1>1, <2>2, <2>3, <2>4, EachJudged
<1>2. /\ StarttlsUnsupported(n) = probeAll(n, plain) /\ StarttlsCertInvalid(n) = probeAll(n, invalid)
      /\ StarttlsCertExpiring(n) = probeAll(n, soon)
  BY Zenon DEF StarttlsUnsupported, StarttlsCertInvalid, StarttlsCertExpiring
<1>3. \A g, s : Finding(g, s).subject = g
  BY DEF Finding
<1>4. \E f \in plain[h] \cup invalid[h] \cup soon[h] : f.subject = h
  <2>1. CASE ~Secured(n, h)
    <3>1. About(h) \in plain[h]
      BY <2>1 DEF Secured, If
    <3> QED BY <1>3, <3>1 DEF About
  <2>2. CASE Secured(n, h) /\ ~n.smtp[h].verifies
    <3>1. About(h) \in invalid[h]
      BY <2>2 DEF If
    <3> QED BY <1>3, <3>1 DEF About
  <2>3. CASE Secured(n, h) /\ n.smtp[h].verifies /\ n.smtp[h].left <= 21
    <3>1. \E s : Finding(h, s) \in soon[h]
      BY <2>3 DEF If
    <3> QED BY <1>3, <3>1
  <2> QED BY <2>1, <2>2, <2>3
<1> HIDE DEF probed, plain, invalid, soon
<1>5. /\ plain[h] \subseteq StarttlsUnsupported(n) /\ invalid[h] \subseteq StarttlsCertInvalid(n)
      /\ soon[h] \subseteq StarttlsCertExpiring(n)
  BY <1>1, <1>2
<1> QED BY <1>4, <1>5

-----------------------------------------------------------------------------
(* Fetches *)

\* How a request can end, whatever becomes of it.
LEMMA DialEnds ==
    ASSUME NEW n, NEW h, NEW port
    PROVE  Dial(n, h, port) \in {"ok", "absent", "unreachable", "error"}
BY DEF Dial

LEMMA RequestEnds ==
    ASSUME NEW n, NEW h, NEW u \in DOMAIN n.page
    PROVE  get(n, h, u) \in Responses(n) /\ get(n, h, u).url = u
<1>1. Connect(n, h, AllVersions, AllSuites) \in {"ok", "absent", "unreachable", "error", "rejected"}
  BY DialEnds DEF Connect
<1>2. ASSUME NEW dialed \in {"ok", "absent", "unreachable", "error", "rejected"}
      PROVE  Request(n, u, dialed) \in Responses(n) /\ Request(n, u, dialed).url = u
  BY DEF Request, Responses
<1> QED BY <1>1, <1>2, DialEnds DEF get

\* The response that Get comes to from response r with so many redirects left.
Redirected(n, follow, F, left, r) ==
    LET next == Location(n, r.url)
    IN  IF r.out # "ok" \/ next \notin follow THEN r
        ELSE IF left = 0 THEN [r EXCEPT !.out = "error"]
        ELSE F[left - 1][get(n, Host(next.host, TRUE), next)]

LEMMA RedirectedTyped ==
    ASSUME NEW n, NEW follow \in SUBSET (DOMAIN n.page), NEW F, NEW left \in Nat,
           left # 0 => F[left - 1] \in [Responses(n) -> Responses(n)],
           NEW r \in Responses(n)
    PROVE  Redirected(n, follow, F, left, r) \in Responses(n)
<1> DEFINE next == Location(n, r.url)
<1>1. CASE r.out # "ok" \/ next \notin follow
  BY <1>1 DEF Redirected
<1>2. CASE ~(r.out # "ok" \/ next \notin follow) /\ left = 0
  <2>1. [r EXCEPT !.out = "error"] \in Responses(n)
    BY DEF Responses
  <2> QED BY <1>2, <2>1 DEF Redirected
<1>3. CASE ~(r.out # "ok" \/ next \notin follow) /\ left # 0
  <2>1. get(n, Host(next.host, TRUE), next) \in Responses(n)
    BY <1>3, RequestEnds
  <2>2. Redirected(n, follow, F, left, r) = F[left - 1][get(n, Host(next.host, TRUE), next)]
    BY <1>3 DEF Redirected
  <2> QED BY <1>3, <2>1, <2>2
<1> QED BY <1>1, <1>2, <1>3

\* The redirects are followed as web.Get says: the recursion is well defined.
LEMMA FollowingDefined ==
    ASSUME NEW n, NEW follow \in SUBSET (DOMAIN n.page)
    PROVE  \A left \in Nat :
             /\ Following(n, follow)[left] \in [Responses(n) -> Responses(n)]
             /\ \A r \in Responses(n) :
                  Following(n, follow)[left][r] = Redirected(n, follow, Following(n, follow), left, r)
<1> DEFINE V == [Responses(n) -> Responses(n)]
           Level(F, left) == [r \in Responses(n) |-> Redirected(n, follow, F, left, r)]
           R == CHOOSE F : F = [left \in Nat |-> Level(F, left)]
<1>1. Following(n, follow) = R
  BY Zenon DEF Following, Redirected
<1>2. ASSUME NEW F, NEW left \in Nat, left # 0 => F[left - 1] \in V PROVE Level(F, left) \in V
  BY <1>2, RedirectedTyped
<1>3. \E F : F = [left \in Nat |-> Level(F, left)]
  <2> DEFINE step == [i \in Nat |-> [G \in V |-> Level([j \in Nat |-> G], i + 1)]]
             base == Level(<<>>, 0)
  <2>1. base \in V
    BY <1>2
  <2>2. step \in [Nat -> [V -> V]]
    <3>1. ASSUME NEW i \in Nat, NEW G \in V PROVE Level([j \in Nat |-> G], i + 1) \in V
      BY <1>2
    <3> HIDE DEF Level, V
    <3> QED BY <3>1
  <2>3. PICK F : Iterates(F, V, base, step)
    <3> HIDE DEF base, step, V, Level, R
    <3> QED BY <2>1, <2>2, Iteration
  <2>4. ASSUME NEW left \in Nat PROVE F[left] = Level(F, left)
    <3>1. CASE left = 0
      <4>1. Level(F, 0) = Level(<<>>, 0)
        BY DEF Redirected
      <4> QED BY <3>1, <4>1, <2>3 DEF Iterates
    <3>2. CASE left # 0
      <4>1. left - 1 \in Nat /\ (left - 1) + 1 = left
        BY <3>2
      <4>2. F[left - 1] \in V
        BY <2>3, <4>1 DEF Iterates
      <4>3. F[left] = step[left - 1][F[left - 1]]
        <5> HIDE DEF step
        <5> QED BY <2>3, <4>1 DEF Iterates
      <4>4. F[left] = Level([j \in Nat |-> F[left - 1]], left)
        <5> HIDE DEF Level, V
        <5> QED BY <4>1, <4>2, <4>3
      <4>5. Level([j \in Nat |-> F[left - 1]], left) = Level(F, left)
        BY <4>1 DEF Redirected
      <4> QED BY <4>4, <4>5
    <3> QED BY <3>1, <3>2
  <2>5. F = [left \in Nat |-> Level(F, left)]
    <3> HIDE DEF Level, V
    <3> QED BY <2>3, <2>4 DEF Iterates
  <2> QED BY <2>5
<1>4. R = [left \in Nat |-> Level(R, left)]
  <2> HIDE DEF Level
  <2> QED BY <1>3
<1> HIDE DEF R
<1>5. \A left \in Nat : R[left] = Level(R, left)
  <2> HIDE DEF Level
  <2> QED BY <1>4
<1>6. \A left \in Nat : R[left] \in V
  <2> DEFINE S == {left \in Nat : R[left] \in V}
  <2> HIDE DEF Level, V
  <2>1. 0 \in S
    BY <1>2, <1>5
  <2>2. ASSUME NEW left \in S PROVE left + 1 \in S
    <3>1. left + 1 \in Nat /\ (left + 1) - 1 = left /\ R[left] \in V
      BY <2>2
    <3> QED BY <3>1, <1>2, <1>5
  <2>3. S \in SUBSET Nat
    OBVIOUS
  <2>4. S = Nat
    <3> HIDE DEF S
    <3> QED BY <2>1, <2>2, <2>3, Induction
  <2> QED BY <2>4
<1>7. ASSUME NEW left \in Nat, NEW r \in Responses(n)
      PROVE  R[left][r] = Redirected(n, follow, R, left, r)
  BY <1>5
<1> QED BY <1>1, <1>6, <1>7

\* Without redirects to follow the response is that of the first request, which
\* is made for the host of the memo or for that of the caller.
LEMMA GetOnce ==
    ASSUME NEW n, NEW u, u \in DOMAIN n.page, NEW g
    PROVE  Following(n, {})[MaxRedirects][get(n, g, u)] = get(n, g, u)
<1>1. {} \in SUBSET (DOMAIN n.page) /\ MaxRedirects \in Nat /\ get(n, g, u) \in Responses(n)
  BY RequestEnds, RedirectsAssumption
<1>2. Following(n, {})[MaxRedirects][get(n, g, u)]
         = Redirected(n, {}, Following(n, {}), MaxRedirects, get(n, g, u))
  BY <1>1, FollowingDefined
<1> QED BY <1>2 DEF Redirected

LEMMA GetAnew ==
    ASSUME NEW n, NEW asked, NEW h, NEW u, u \in DOMAIN n.page, NEW name, Key(u, name) \notin DOMAIN asked
    PROVE  Get(n, asked, h, u, name, {}) = get(n, h, u)
BY GetOnce DEF Get

\* A declared host that a check has something to say of was reached.
LEMMA DeclaredDial ==
    ASSUME NEW n, NEW h, h.explicit, NEW port
    PROVE  /\ Dial(n, h, port) # "absent"
           /\ Dial(n, h, port) = "ok" => Reached(n, <<h.name, port>>) = "open"
BY DEF Dial

LEMMA DeclaredGet ==
    ASSUME NEW n, NEW h, h.explicit, NEW u, u.scheme = "https", get(n, h, u).out \in {"ok", "absent"}
    PROVE  get(n, h, u).out = "ok" /\ Reached(n, <<h.name, 443>>) = "open"
<1>1. Connect(n, h, AllVersions, AllSuites) # "absent"
      /\ (Connect(n, h, AllVersions, AllSuites) = "ok" => Reached(n, <<h.name, 443>>) = "open")
  BY DeclaredDial DEF Connect
<1> QED BY <1>1 DEF get, Request

LEMMA DeclaredHandshake ==
    ASSUME NEW n, NEW judged, OfHandshake(n, judged) # Error, NEW h \in TLSHosts(n), h.explicit
    PROVE  Reached(n, <<h.name, 443>>) = "open"
<1>1. Handshaken(n, h, judged[h]) # Error
  BY EachJudged DEF OfHandshake
<1>2. Connect(n, h, AllVersions, AllSuites) \in {"ok", "absent"}
  BY <1>1 DEF Handshaken
<1> QED BY <1>2, DeclaredDial DEF Connect

\* What is found of a declared host that the check has judged is reported.
LEMMA HandshakeJudged ==
    ASSUME NEW n, NEW judged, OfHandshake(n, judged) # Error, NEW h \in TLSHosts(n), h.explicit
    PROVE  judged[h] \subseteq OfHandshake(n, judged)
<1> DEFINE held == [x \in TLSHosts(n) |-> Handshaken(n, x, judged[x])]
<1>1. OfHandshake(n, judged) = Each(held) /\ h \in DOMAIN held
  BY DEF OfHandshake
<1>2. held[h] = Handshaken(n, h, judged[h])
  OBVIOUS
<1> HIDE DEF held
<1>3. Handshaken(n, h, judged[h]) # Error
  BY <1>1, <1>2, EachJudged
<1>4. Connect(n, h, AllVersions, AllSuites) # "absent"
  BY ZenonT(60), DeclaredDial DEF Connect
<1>5. Handshaken(n, h, judged[h]) = judged[h]
  BY <1>3, <1>4 DEF Handshaken
<1> QED BY <1>1, <1>2, <1>5, EachJudged

\* A declared host whose certificate expires is reported by one of two checks.
LEMMA ExpiryIsReported ==
    ASSUME NEW n, CertInvalid(n) # Error, CertExpiring(n) # Error,
           NEW h \in TLSHosts(n), h.explicit,
           Leaf(n, h).left \in Int, Leaf(n, h).sent, Leaf(n, h).left <= expiringDays
    PROVE  \E f \in CertInvalid(n) \cup CertExpiring(n) : f.subject = h.name
<1> DEFINE invalid(x) == If(~Leaf(n, x).sent \/ ~Leaf(n, x).trusted \/ Expired(Leaf(n, x)),
                            Finding(x.name, IF Expired(Leaf(n, x)) THEN "critical" ELSE "default"))
           soon(x) == If(Leaf(n, x).sent /\ 0 < Leaf(n, x).left /\ Leaf(n, x).left <= expiringDays,
                         Finding(x.name, IF Leaf(n, x).left <= urgentDays THEN "high" ELSE "default"))
           ofInvalid == [x \in TLSHosts(n) |-> invalid(x)]
           ofSoon == [x \in TLSHosts(n) |-> soon(x)]
<1>1. CertInvalid(n) = OfHandshake(n, ofInvalid) /\ CertExpiring(n) = OfHandshake(n, ofSoon)
  BY Zenon DEF CertInvalid, CertExpiring
<1>2. ofInvalid[h] = invalid(h) /\ ofSoon[h] = soon(h)
  BY Zenon
<1>3. \A x, y : Finding(x, y).subject = x
  BY DEF Finding
<1>4. \E f \in invalid(h) \cup soon(h) : f.subject = h.name
  <2>1. CASE Expired(Leaf(n, h))
    <3>1. Finding(h.name, "critical") \in invalid(h)
      BY <2>1 DEF If
    <3> QED BY <1>3, <3>1
  <2>2. CASE ~Expired(Leaf(n, h))
    <3>1. 0 < Leaf(n, h).left
      BY <2>2 DEF Expired
    <3>2. \E y : Finding(h.name, y) \in soon(h)
      BY <3>1 DEF If
    <3> QED BY <1>3, <3>2
  <2> QED BY <2>1, <2>2
<1> HIDE DEF invalid, soon, ofInvalid, ofSoon
<1>5. invalid(h) \subseteq CertInvalid(n) /\ soon(h) \subseteq CertExpiring(n)
  BY <1>1, <1>2, HandshakeJudged
<1> QED BY <1>4, <1>5

\* What the run's fetches are shared by: the home page of the apex, alone.
LEMMA MemoOf ==
    ASSUME NEW g
    PROVE  DOMAIN FetchedFor(g) = {ApexHome} /\ FetchedFor(g)[ApexHome] = g
BY DEF FetchedFor

\* Who is asked on behalf of a web host when its home page is fetched.
LEMMA HomeAsked ==
    ASSUME NEW n, NEW g, g.name = "apex", NEW h, Home("https", h.name) \in DOMAIN n.page,
           FetchedFor(g)[ApexHome].explicit
    PROVE  \E x \in {g, h} :
             /\ x.name = h.name /\ (h.explicit => x.explicit)
             /\ Get(n, FetchedFor(g), h, Home("https", h.name), "", {}) = get(n, x, Home("https", h.name))
<1> DEFINE u == Home("https", h.name)
<1>1. CASE Key(u, "") = ApexHome
  <2>1. u = Home("https", "apex")
    BY <1>1 DEF Key, ApexHome
  <2>2. h.name = "apex"
    BY <2>1 DEF Home, URL
  <2>3. Get(n, FetchedFor(g), h, u, "", {}) = get(n, g, u)
    <3>1. Key(u, "") \in DOMAIN FetchedFor(g) /\ FetchedFor(g)[Key(u, "")] = g /\ u \in DOMAIN n.page
      BY <1>1, MemoOf
    <3>2. Get(n, FetchedFor(g), h, u, "", {}) = Following(n, {})[MaxRedirects][get(n, g, u)]
      BY <3>1 DEF Get
    <3>3. Following(n, {})[MaxRedirects][get(n, g, u)] = get(n, g, u)
      <4> HIDE DEF u
      <4> QED BY <3>1, GetOnce
    <3> QED BY <3>2, <3>3
  <2> QED BY <2>2, <2>3, MemoOf
<1>2. CASE Key(u, "") # ApexHome
  <2>1. Get(n, FetchedFor(g), h, u, "", {}) = get(n, h, u)
    <3>1. Key(u, "") \notin DOMAIN FetchedFor(g) /\ u \in DOMAIN n.page
      BY <1>2, MemoOf
    <3> HIDE DEF u
    <3> QED BY <3>1, GetAnew
  <2> QED BY <2>1
<1> QED BY <1>1, <1>2

\* The home page of a host was fetched, without following a redirect.
HomeFetched(n, asked, h) ==
    LET first == Get(n, asked, h, Home("https", h.name), "", {})
    IN  first.out = "ok" /\ first.url = Home("https", h.name)

LEMMA DeclaredHomeFetched ==
    ASSUME NEW n, PagesTyped(n), NEW g, g.name = "apex", g.explicit, NEW bad,
           OfHSTS(n, httpsResponses(n, FetchedFor(g)), bad) # Error,
           NEW h \in TLSHosts(n), h.explicit
    PROVE  Reached(n, <<h.name, 443>>) = "open" /\ HomeFetched(n, FetchedFor(g), h)
<1> DEFINE u == Home("https", h.name)
           sameHost == {v \in DOMAIN n.page : v.scheme = "https" /\ v.host = h.name}
           first == Get(n, FetchedFor(g), h, u, "", {})
           landed == Get(n, FetchedFor(g), h, u, "same-host", sameHost)
           response == Judgeable(n, first, landed, sameHost)
<1>1. httpsResponses(n, FetchedFor(g))[h] = response /\ h \in DOMAIN httpsResponses(n, FetchedFor(g))
  BY DEF httpsResponses
<1>2. response.out \in {"ok", "absent"}
  <2> DEFINE responses == httpsResponses(n, FetchedFor(g))
             judged == [x \in DOMAIN responses |->
                Fetched(responses[x], If(n.page[responses[x].url].hsts \in bad, About(x.name)))]
  <2>1. Each(judged) # Error
    BY DEF OfHSTS
  <2>2. h \in DOMAIN judged /\ responses[h] = response
    BY <1>1
  <2>3. judged[h] # Error
    <3> HIDE DEF judged
    <3> QED BY <2>1, <2>2, EachJudged
  <2>4. \E verdict : Fetched(response, verdict) # Error
    BY <2>2, <2>3
  <2> HIDE DEF response
  <2> QED BY <2>4 DEF Fetched
<1>3. u \in DOMAIN n.page
  BY DEF PagesTyped
<1>4. PICK x \in {g, h} : x.name = h.name /\ x.explicit /\ first = get(n, x, u)
  <2>1. FetchedFor(g)[ApexHome].explicit
    BY MemoOf
  <2>2. \E x \in {g, h} : /\ x.name = h.name /\ (h.explicit => x.explicit)
                          /\ first = get(n, x, u)
    BY <1>3, <2>1, HomeAsked
  <2> HIDE DEF first, u
  <2> QED BY <2>2
<1>5. first.out \in {"ok", "absent"}
  BY <1>2 DEF Judgeable
<1>6. u.scheme = "https"
  BY DEF Home, URL
<1>7. Reached(n, <<h.name, 443>>) = "open" /\ first.out = "ok" /\ first.url = u
  <2> HIDE DEF first, u
  <2> QED BY <1>3, <1>4, <1>5, <1>6, DeclaredGet, RequestEnds
<1> QED BY <1>7 DEF HomeFetched

LEMMA DeclaredHome ==
    ASSUME NEW n, PagesTyped(n), NEW g, g.name = "apex", g.explicit, NEW bad,
           OfHSTS(n, httpsResponses(n, FetchedFor(g)), bad) # Error,
           NEW h \in TLSHosts(n), h.explicit
    PROVE  Reached(n, <<h.name, 443>>) = "open"
BY DeclaredHomeFetched

\* A home page that was fetched is judged by its own header, if that has one
\* or sends visitors nowhere.
LEMMA HomeJudged ==
    ASSUME NEW n, NEW asked, NEW bad, OfHSTS(n, httpsResponses(n, asked), bad) # Error,
           NEW h \in TLSHosts(n), Unenforced(n, Home("https", h.name)),
           HomeFetched(n, asked, h),
           n.page[Home("https", h.name)].hsts \in bad
    PROVE  About(h.name) \in OfHSTS(n, httpsResponses(n, asked), bad)
<1> DEFINE u == Home("https", h.name)
           sameHost == {v \in DOMAIN n.page : v.scheme = "https" /\ v.host = h.name}
           first == Get(n, asked, h, u, "", {})
           landed == Get(n, asked, h, u, "same-host", sameHost)
           responses == httpsResponses(n, asked)
           found(x) == If(n.page[responses[x].url].hsts \in bad, About(x.name))
           judged == [x \in DOMAIN responses |-> Fetched(responses[x], found(x))]
<1>1. responses[h] = Judgeable(n, first, landed, sameHost) /\ h \in DOMAIN responses
  BY DEF httpsResponses
<1>2. first.out = "ok" /\ first.url = u
  BY DEF HomeFetched
<1>3. n.page[u].hsts # <<>> \/ Location(n, u) = NoURL
  BY DEF Unenforced, Weak
<1> HIDE DEF u, sameHost, first, landed
<1>4. Judgeable(n, first, landed, sameHost) = first
  BY <1>2, <1>3 DEF Judgeable
<1>5. OfHSTS(n, responses, bad) = Each(judged)
  BY DEF OfHSTS
<1>6. h \in DOMAIN judged /\ judged[h] = Fetched(responses[h], found(h))
  BY <1>1
<1>7. found(h) = {About(h.name)}
  BY <1>1, <1>2, <1>4 DEF If, u
<1> HIDE DEF judged, found, responses
<1>8. judged[h] = {About(h.name)}
  BY <1>1, <1>2, <1>4, <1>6, <1>7 DEF Fetched
<1> QED BY <1>5, <1>6, <1>8, EachJudged DEF responses

LEMMA DeclaredFiles ==
    ASSUME NEW n, PagesTyped(n), NEW g, SensitivePath(n, FetchedFor(g)) # Error,
           NEW h \in TLSHosts(n), h.explicit
    PROVE  Reached(n, <<h.name, 443>>) = "open"
<1> DEFINE path == "/.env"
           u == URL("https", h.name, path)
           r == Get(n, FetchedFor(g), h, u, "", {})
<1>1. \E verdict : Fetched(r, verdict) # Error
  <2> DEFINE verdict(p) ==
                LET v == URL("https", p[1].name, p[2])
                    page == n.page[v]
                IN  If(page.status = 200 /\ ~page.html /\ ReadBody(n, v) = p[2],
                       Finding(v, IF p[2] = "/.env" THEN "critical" ELSE "high"))
             got(p) == Get(n, FetchedFor(g), p[1], URL("https", p[1].name, p[2]), "", {})
             judged == [p \in TLSHosts(n) \X sensitivePaths |-> Fetched(got(p), verdict(p))]
  <2>1. Each(judged) # Error
    BY DEF SensitivePath
  <2>2. <<h, path>> \in DOMAIN judged
    BY DEF sensitivePaths
  <2>3. judged[<<h, path>>] # Error
    <3> HIDE DEF judged
    <3> QED BY <2>1, <2>2, EachJudged
  <2>4. judged[<<h, path>>] = Fetched(got(<<h, path>>), verdict(<<h, path>>)) /\ got(<<h, path>>) = r
    <3> HIDE DEF verdict
    <3> QED BY <2>2
  <2> HIDE DEF judged, got, verdict, r
  <2> QED BY <2>3, <2>4
<1>2. r.out \in {"ok", "absent"}
  BY <1>1 DEF Fetched
<1>3. u \in DOMAIN n.page /\ u.scheme = "https"
  BY DEF PagesTyped, sensitivePaths, URL
<1>4. Key(u, "") # ApexHome
  BY DEF Key, ApexHome, Home, URL
<1>5. r = get(n, h, u)
  <2>1. Key(u, "") \notin DOMAIN FetchedFor(g)
    BY <1>4, MemoOf
  <2> HIDE DEF u
  <2> QED BY <1>3, <2>1, GetAnew
<1> HIDE DEF r, u
<1> QED BY <1>2, <1>3, <1>5, DeclaredGet

\* A check that judges every web host and came to a verdict has reached the
\* declared ones: an unreachable host never looks like a fixed one.
THEOREM DeclaredHostsAreReached == Spec => []DeclaredHostsAnswered
<1>1. RunInv => DeclaredHostsAnswered
  <2> SUFFICES ASSUME RunInv, Ran, net.family \in {"tls", "http"}, NEW c \in PerHost,
                      NEW h \in TLSHosts(net), verdicts[c] # Error, h.explicit
               PROVE  Reached(net, <<h.name, 443>>) = "open"
    BY DEF DeclaredHostsAnswered
  <2>1. IsNetwork(net) /\ verdicts = Verdicts(net, memo)
    BY RunFacts
  <2>2. CASE net.family = "tls"
    <3>1. verdicts = TlsVerdicts(net)
      BY <2>1, <2>2 DEF Verdicts
    <3>2. \E judged : verdicts[c] = OfHandshake(net, judged)
      <4>1. c \in DOMAIN TlsVerdicts(net)
        BY <2>2, <3>1 DEF PerHost
      <4>2. /\ \E judged : CertInvalid(net) = OfHandshake(net, judged)
            /\ \E judged : HostnameMismatch(net) = OfHandshake(net, judged)
            /\ \E judged : CertExpiring(net) = OfHandshake(net, judged)
            /\ \E judged : NoModernTLS(net) = OfHandshake(net, judged)
            /\ \E judged : DeprecatedTLS(net) = OfHandshake(net, judged)
            /\ \E judged : WeakCiphers(net) = OfHandshake(net, judged)
        BY Zenon DEF CertInvalid, HostnameMismatch, CertExpiring, NoModernTLS, DeprecatedTLS, WeakCiphers
      <4>3. \/ verdicts[c] = CertInvalid(net) \/ verdicts[c] = HostnameMismatch(net)
            \/ verdicts[c] = CertExpiring(net) \/ verdicts[c] = NoModernTLS(net)
            \/ verdicts[c] = DeprecatedTLS(net) \/ verdicts[c] = WeakCiphers(net)
        BY <3>1, <4>1 DEF TlsVerdicts
      <4> QED BY <4>2, <4>3
    <3> QED BY <3>2, DeclaredHandshake
  <2>3. CASE net.family = "http"
    <3>1. PICK g \in FirstAskers : memo = FetchedFor(g)
      BY <2>3, RunFacts
    <3>2. g.name = "apex"
      BY DEF FirstAskers, Host
    <3>3. PagesTyped(net)
      BY <2>1, <2>3 DEF IsNetwork
    <3>4. verdicts = HttpVerdicts(net, memo)
      BY <2>1, <2>3 DEF Verdicts
    <3>5. CASE c = "sensitive_path"
      <4>1. verdicts[c] = SensitivePath(net, memo)
        BY <3>4, <3>5 DEF HttpVerdicts
      <4> QED BY <3>1, <3>3, <4>1, DeclaredFiles
    <3>6. CASE c \in {"hsts_missing", "hsts_weak"} /\ ~UndeclaredFirst
      <4>1. memo # <<>>
        BY <2>3 DEF RunInv, Ran
      <4>2. g.explicit
        BY <3>1, <3>6, <4>1, MemoOf DEF UndeclaredFirst
      <4>3. \E bad : verdicts[c] = OfHSTS(net, httpsResponses(net, memo), bad)
        <5>1. /\ \E bad : HSTSMissing(net, memo) = OfHSTS(net, httpsResponses(net, memo), bad)
              /\ \E bad : HSTSWeak(net, memo) = OfHSTS(net, httpsResponses(net, memo), bad)
          BY Zenon DEF HSTSMissing, HSTSWeak
        <5>2. verdicts[c] = HSTSMissing(net, memo) \/ verdicts[c] = HSTSWeak(net, memo)
          BY <3>4, <3>6 DEF HttpVerdicts
        <5> QED BY <5>1, <5>2
      <4> QED BY <3>1, <3>2, <3>3, <4>2, <4>3, DeclaredHome
    <3>7. c = "sensitive_path" \/ (c \in {"hsts_missing", "hsts_weak"} /\ ~UndeclaredFirst)
      BY <2>3 DEF PerHost
    <3> QED BY <3>5, <3>6, <3>7
  <2> QED BY <2>2, <2>3
<1> QED BY <1>1, RunInductive, PTL

\* A dangling name and a mail server whose STARTTLS is wanting are reported by
\* exactly one check, and so are the expiry of a declared host's certificate and a
\* declared home page whose HSTS header enforces nothing: by one, and never by two.
THEOREM FaultsAreReportedOnce == Spec => []OneReportPerFault
<1>1. RunInv => OneReportPerFault
  <2> SUFFICES ASSUME RunInv PROVE OneReportPerFault
    OBVIOUS
  <2>1. ASSUME NEW f \in DOMAIN Fields, NEW checks, Judged(checks), NEW c \in checks, c \in FamilyChecks[f]
        PROVE  IsNetwork(net) /\ net.family = f /\ verdicts = Verdicts(net, memo)
    <3>1. IsNetwork(net) /\ verdicts = Verdicts(net, memo) /\ c \in DOMAIN verdicts
      BY <2>1, RunFacts DEF Judged
    <3> QED BY <2>1, <3>1, FamilyOf DEF IsNetwork
  <2>2. {"cname", "tls", "http", "starttls"} \subseteq DOMAIN Fields
    BY DEF Fields
  <2>3. ASSUME Judged({"takeover_possible", "cname_dangling"}),
               NEW x \in DOMAIN net.cname, net.cname[x].dangling, net.cname[x].targets # <<>>
        PROVE  Reports("takeover_possible", x) # Reports("cname_dangling", x)
    <3>1. IsNetwork(net) /\ net.family = "cname" /\ verdicts = Verdicts(net, memo)
      BY <2>1, <2>2, <2>3 DEF FamilyChecks
    <3>2. verdicts = [takeover_possible |-> TakeoverPossible(net), cname_dangling |-> CNAMEDangling(net)]
      BY <3>1 DEF Verdicts, DnsVerdicts
    <3>3. TakeoverPossible(net) # Error /\ CNAMEDangling(net) # Error /\ CNamesTyped(net)
      BY <2>3, <3>1, <3>2 DEF Judged, IsNetwork
    <3>4. (\E f \in TakeoverPossible(net) : f.subject = x)
            <=> ~(\E f \in CNAMEDangling(net) : f.subject = x)
      BY <2>3, <3>3, OneReportPerName
    <3> QED BY <3>2, <3>3, <3>4 DEF Reports
  <2>4. ASSUME Judged({"cert_invalid", "cert_expiring"}), NEW h \in TLSHosts(net)
        PROVE  /\ Expired(Leaf(net, h)) => ~Reports("cert_expiring", h.name)
               /\ h.explicit /\ Leaf(net, h).sent /\ Leaf(net, h).left <= expiringDays =>
                    Reports("cert_invalid", h.name) \/ Reports("cert_expiring", h.name)
    <3>1. IsNetwork(net) /\ net.family = "tls" /\ verdicts = Verdicts(net, memo)
      BY <2>1, <2>2, <2>4 DEF FamilyChecks
    <3>2. verdicts["cert_invalid"] = CertInvalid(net) /\ verdicts["cert_expiring"] = CertExpiring(net)
      BY <3>1 DEF Verdicts, TlsVerdicts
    <3>3. /\ CertInvalid(net) # Error /\ CertExpiring(net) # Error
          /\ \A g \in TLSHosts(net) : Leaf(net, g).left \in Int
      BY <2>4, <3>1, <3>2 DEF Judged, IsNetwork, WebTyped
    <3>4. ASSUME Expired(Leaf(net, h)) PROVE ~Reports("cert_expiring", h.name)
      <4>1. Expired(net.tls[h.name].cert)
        BY <3>4 DEF Leaf
      <4> QED BY <4>1, <3>2, <3>3, ExpiredIsNotExpiring DEF Reports
    <3>5. ASSUME h.explicit, Leaf(net, h).sent, Leaf(net, h).left <= expiringDays
          PROVE  Reports("cert_invalid", h.name) \/ Reports("cert_expiring", h.name)
      <4>1. PICK f \in CertInvalid(net) \cup CertExpiring(net) : f.subject = h.name
        BY <3>3, <3>5, ExpiryIsReported
      <4> QED BY <3>2, <3>3, <4>1 DEF Reports
    <3> QED BY <3>4, <3>5
  <2>5. ASSUME Judged({"hsts_missing", "hsts_weak"}), NEW h \in TLSHosts(net)
        PROVE  /\ ~(Reports("hsts_missing", h.name) /\ Reports("hsts_weak", h.name))
               /\ h.explicit /\ ~UndeclaredFirst /\ Unenforced(net, Home("https", h.name)) =>
                    Reports("hsts_missing", h.name) \/ Reports("hsts_weak", h.name)
    <3>1. IsNetwork(net) /\ net.family = "http" /\ verdicts = Verdicts(net, memo)
      BY <2>1, <2>2, <2>5 DEF FamilyChecks
    <3>2. verdicts["hsts_missing"] = HSTSMissing(net, memo) /\ verdicts["hsts_weak"] = HSTSWeak(net, memo)
      BY <3>1 DEF Verdicts, HttpVerdicts
    <3>3. HSTSMissing(net, memo) # Error /\ HSTSWeak(net, memo) # Error
      BY <2>5, <3>2 DEF Judged
    <3>4. ~(Reports("hsts_missing", h.name) /\ Reports("hsts_weak", h.name))
      BY <3>2, <3>3, WeakIsNotMissing DEF Reports
    <3>5. ASSUME h.explicit, ~UndeclaredFirst, Unenforced(net, Home("https", h.name))
          PROVE  Reports("hsts_missing", h.name) \/ Reports("hsts_weak", h.name)
      <4>1. memo # <<>> /\ PagesTyped(net)
        BY <2>5, <3>1, RunFacts DEF Judged, Ran, IsNetwork, RunInv
      <4>2. PICK g \in FirstAskers : memo = FetchedFor(g)
        BY <4>1, RunFacts DEF RunInv
      <4>3. g.name = "apex" /\ g.explicit
        <5>1. g.name = "apex"
          BY DEF FirstAskers, Host
        <5> QED BY <3>5, <4>1, <4>2, <5>1, MemoOf DEF UndeclaredFirst
      <4> DEFINE u == Home("https", h.name)
                 v == net.page[u].hsts
                 weak == {x \in {net.page[y].hsts : y \in DOMAIN net.page} : Weak(x)}
      <4>4. HSTSMissing(net, memo) = OfHSTS(net, httpsResponses(net, FetchedFor(g)), {<<>>})
            /\ HSTSWeak(net, memo) = OfHSTS(net, httpsResponses(net, FetchedFor(g)), weak)
        BY Zenon, <4>2 DEF HSTSMissing, HSTSWeak
      <4>5. v \in {<<>>} \/ v \in weak
        <5>1. u \in DOMAIN net.page
          BY <4>1 DEF PagesTyped
        <5> QED BY <3>5, <5>1 DEF Unenforced
      <4> HIDE DEF weak
      <4>6. About(h.name) \in HSTSMissing(net, memo) \/ About(h.name) \in HSTSWeak(net, memo)
        <5>1. \E bad : OfHSTS(net, httpsResponses(net, FetchedFor(g)), bad) # Error
          BY <3>3, <4>4
        <5>2. HomeFetched(net, FetchedFor(g), h)
          BY ZenonT(60), <3>5, <4>1, <4>3, <5>1, DeclaredHomeFetched
        <5>3. ASSUME NEW bad, OfHSTS(net, httpsResponses(net, FetchedFor(g)), bad) # Error,
                     net.page[Home("https", h.name)].hsts \in bad
              PROVE  About(h.name) \in OfHSTS(net, httpsResponses(net, FetchedFor(g)), bad)
          BY <3>5, <5>2, <5>3, HomeJudged
        <5>4. CASE v \in {<<>>}
          BY <3>3, <4>4, <5>3, <5>4
        <5>5. CASE v \in weak
          BY <3>3, <4>4, <5>3, <5>5
        <5> QED BY <4>5, <5>4, <5>5
      <4>7. About(h.name).subject = h.name
        BY DEF About, Finding
      <4> QED BY <3>2, <3>3, <4>6, <4>7 DEF Reports
    <3> QED BY <3>4, <3>5
  <2>6. ASSUME Judged({"starttls_unsupported", "starttls_cert_invalid", "starttls_cert_expiring"}),
               NEW h \in MXHosts(net)
        PROVE  /\ \A c, d \in DOMAIN verdicts : c # d => ~(Reports(c, h) /\ Reports(d, h))
               /\ ~Secured(net, h) \/ ~net.smtp[h].verifies \/ net.smtp[h].left <= 21 =>
                    \E c \in DOMAIN verdicts : Reports(c, h)
    <3>1. IsNetwork(net) /\ net.family = "starttls" /\ verdicts = Verdicts(net, memo)
      BY <2>1, <2>2, <2>6 DEF FamilyChecks
    <3>2. verdicts = [starttls_unsupported |-> StarttlsUnsupported(net),
                      starttls_cert_invalid |-> StarttlsCertInvalid(net),
                      starttls_cert_expiring |-> StarttlsCertExpiring(net)]
      BY <3>1 DEF Verdicts, MailVerdicts
    <3>3. /\ StarttlsUnsupported(net) # Error /\ StarttlsCertInvalid(net) # Error
          /\ StarttlsCertExpiring(net) # Error
      BY <2>6, <3>2 DEF Judged
    <3>4. /\ Reports("starttls_unsupported", h) => ~Secured(net, h)
          /\ Reports("starttls_cert_invalid", h) => Secured(net, h) /\ ~net.smtp[h].verifies
          /\ Reports("starttls_cert_expiring", h) => Secured(net, h) /\ net.smtp[h].verifies
      BY <3>2, <3>3, OneReportPerServer DEF Reports
    <3>5. ASSUME NEW c \in DOMAIN verdicts, NEW d \in DOMAIN verdicts, c # d
          PROVE  ~(Reports(c, h) /\ Reports(d, h))
      BY <3>2, <3>4, <3>5
    <3>6. ASSUME ~Secured(net, h) \/ ~net.smtp[h].verifies \/ net.smtp[h].left <= 21
          PROVE  \E c \in DOMAIN verdicts : Reports(c, h)
      <4>1. PICK f \in StarttlsUnsupported(net) \cup StarttlsCertInvalid(net) \cup StarttlsCertExpiring(net) :
                f.subject = h
        BY <3>3, <3>6, ServerIsReported
      <4> QED BY <3>2, <3>3, <4>1 DEF Reports
    <3> QED BY <3>5, <3>6
  <2> QED BY <2>3, <2>4, <2>5, <2>6
        DEF OneReportPerFault, NamesAreShared, CertificatesAreShared, HeadersAreShared, ServersAreShared
<1> QED BY <1>1, RunInductive, PTL

-----------------------------------------------------------------------------
(* Who fetches the shared page *)

\* A declared apex that answers, or that is silent, is asked like any other.
LEMMA SameConnection ==
    ASSUME NEW n, Reached(n, <<"apex", 443>>) # "refused", LookupAddrs(n, "apex") # {}, NEW u, u.scheme = "https"
    PROVE  get(n, Host("apex", TRUE), u) = get(n, Host("apex", FALSE), u)
<1> DEFINE g == Host("apex", TRUE)
           h == Host("apex", FALSE)
<1>1. g.name = "apex" /\ g.explicit = TRUE /\ h.name = "apex" /\ h.explicit = FALSE
  BY DEF Host
<1>2. wildcardArtifact(n, "apex") = FALSE
  BY DEF wildcardArtifact
<1> HIDE DEF g, h
<1>3. Dial(n, g, 443) = Dial(n, h, 443)
  <2> DEFINE art(x) == IF x.explicit THEN FALSE ELSE wildcardArtifact(n, x.name)
  <2>1. art(g) = art(h)
    BY <1>1, <1>2
  <2>2. \A x : Dial(n, x, 443) =
          IF art(x) = Error \/ LookupAddrs(n, x.name) = Error THEN "error"
          ELSE IF art(x) = TRUE \/ (~x.explicit /\ (LookupAddrs(n, x.name) = {} \/ Reached(n, <<x.name, 443>>) = "refused"))
            THEN "absent"
          ELSE IF LookupAddrs(n, x.name) = {} THEN "error"
          ELSE IF Reached(n, <<x.name, 443>>) = "open" THEN "ok" ELSE "unreachable"
    BY DEF Dial
  <2> HIDE DEF art
  <2> DEFINE dialed(a) == IF a = Error \/ LookupAddrs(n, "apex") = Error THEN "error"
                          ELSE IF a = TRUE THEN "absent"
                          ELSE IF Reached(n, <<"apex", 443>>) = "open" THEN "ok" ELSE "unreachable"
  <2>3. ASSUME NEW x, x.name = "apex" PROVE Dial(n, x, 443) = dialed(art(x))
    BY <2>2, <2>3
  <2> HIDE DEF dialed
  <2>4. Dial(n, g, 443) = dialed(art(g)) /\ Dial(n, h, 443) = dialed(art(h))
    BY <1>1, <2>3
  <2> QED BY <2>1, <2>4
<1>4. Connect(n, g, AllVersions, AllSuites) = Connect(n, h, AllVersions, AllSuites)
  BY <1>1, <1>3 DEF Connect
<1>5. get(n, g, u) = get(n, h, u)
  BY <1>4 DEF get
<1> QED BY <1>5 DEF g, h

\* Then every fetch comes back the same, whoever asked for the page first.
LEMMA SameFetches ==
    ASSUME NEW n, NEW g, NEW h, get(n, g, Home("https", "apex")) = get(n, h, Home("https", "apex")),
           NEW x, NEW u, NEW name, NEW follow
    PROVE  Get(n, FetchedFor(g), x, u, name, follow) = Get(n, FetchedFor(h), x, u, name, follow)
<1> DEFINE key == Key(u, name)
<1>1. CASE key = ApexHome
  <2>1. u = Home("https", "apex")
    BY <1>1 DEF Key, ApexHome
  <2>2. key \in DOMAIN FetchedFor(g) /\ key \in DOMAIN FetchedFor(h)
        /\ FetchedFor(g)[key] = g /\ FetchedFor(h)[key] = h
    BY <1>1, MemoOf
  <2>3. Get(n, FetchedFor(g), x, u, name, follow) = Following(n, follow)[MaxRedirects][get(n, g, u)]
        /\ Get(n, FetchedFor(h), x, u, name, follow) = Following(n, follow)[MaxRedirects][get(n, h, u)]
    BY <2>2 DEF Get
  <2> QED BY <2>1, <2>3
<1>2. CASE key # ApexHome
  <2>1. key \notin DOMAIN FetchedFor(g) /\ key \notin DOMAIN FetchedFor(h)
    BY <1>2, MemoOf
  <2> QED BY <2>1 DEF Get
<1> QED BY <1>1, <1>2

LEMMA SameVerdicts ==
    ASSUME NEW n, NEW g, NEW h, get(n, g, Home("https", "apex")) = get(n, h, Home("https", "apex"))
    PROVE  HttpVerdicts(n, FetchedFor(g)) = HttpVerdicts(n, FetchedFor(h))
<1> DEFINE a == FetchedFor(g)
           b == FetchedFor(h)
<1>1. \A x, u, name, follow : Get(n, a, x, u, name, follow) = Get(n, b, x, u, name, follow)
  BY SameFetches
<1> HIDE DEF a, b
<1>2. httpsResponses(n, a) = httpsResponses(n, b)
  BY <1>1 DEF httpsResponses
<1>3. HSTSMissing(n, a) = HSTSMissing(n, b) /\ HSTSWeak(n, a) = HSTSWeak(n, b)
  BY <1>2 DEF HSTSMissing, HSTSWeak
<1>4. PreloadNotReady(n, a) = PreloadNotReady(n, b)
  BY <1>1 DEF PreloadNotReady
<1>5. RedirectMissing(n, a) = RedirectMissing(n, b)
  BY <1>1 DEF RedirectMissing
<1>6. pages(n, a) = pages(n, b)
  BY <1>1 DEF pages
<1>7. \A htmlOnly, headers : headerCheck(n, a, htmlOnly, headers) = headerCheck(n, b, htmlOnly, headers)
  BY <1>6 DEF headerCheck
<1>8. /\ CSPMissing(n, a) = CSPMissing(n, b)
      /\ FrameProtectionMissing(n, a) = FrameProtectionMissing(n, b)
      /\ NosniffMissing(n, a) = NosniffMissing(n, b)
      /\ ReferrerPolicyMissing(n, a) = ReferrerPolicyMissing(n, b)
  BY <1>7 DEF CSPMissing, FrameProtectionMissing, NosniffMissing, ReferrerPolicyMissing
<1>9. SensitivePath(n, a) = SensitivePath(n, b)
  <2> DEFINE got(asked, p) == Get(n, asked, p[1], URL("https", p[1].name, p[2]), "", {})
             judged(asked) == [p \in TLSHosts(n) \X sensitivePaths |->
                LET u == URL("https", p[1].name, p[2])
                    page == n.page[u]
                IN  Fetched(got(asked, p),
                            If(page.status = 200 /\ ~page.html /\ ReadBody(n, u) = p[2],
                               Finding(u, IF p[2] = "/.env" THEN "critical" ELSE "high")))]
  <2>1. \A asked : SensitivePath(n, asked) = Each(judged(asked))
    BY DEF SensitivePath
  <2>2. \A p : got(a, p) = got(b, p)
    BY <1>1
  <2>3. judged(a) = judged(b)
    <3> HIDE DEF got
    <3> QED BY <2>2
  <2> HIDE DEF judged
  <2> QED BY <2>1, <2>3
<1>10. HttpVerdicts(n, a) = HttpVerdicts(n, b)
  BY <1>3, <1>4, <1>5, <1>8, <1>9 DEF HttpVerdicts
<1> QED BY <1>10 DEF a, b

\* Whichever check fetches the shared page first, the verdicts are the same,
\* unless a declared apex refuses the connection or has no address.
THEOREM FirstAskersAgree == Spec => []FirstAskerIsImmaterial
<1>1. RunInv => FirstAskerIsImmaterial
  <2> DEFINE declared == Host("apex", TRUE)
             target == Host("apex", FALSE)
  <2> SUFFICES ASSUME RunInv, Ran, net.family = "http",
                      declared \in TLSHosts(net) => /\ Reached(net, <<"apex", 443>>) # "refused"
                                                    /\ LookupAddrs(net, "apex") # {},
                      NEW h \in FirstAskers
               PROVE  verdicts = HttpVerdicts(net, FetchedFor(h))
    BY DEF FirstAskerIsImmaterial
  <2>1. PICK g \in FirstAskers : memo = FetchedFor(g)
    BY RunFacts
  <2>2. verdicts = Verdicts(net, FetchedFor(g))
    BY <2>1, RunFacts
  <2>3. ASSUME NEW x \in FirstAskers PROVE x = target \/ (x = declared /\ declared \in TLSHosts(net))
    <3>1. CASE x \in TLSHosts(net) /\ x.name = "apex"
      <4>1. \A y, e : Host(y, e).name = y
        BY DEF Host
      <4>2. x \in WebHosts(net) \/ \E y : x = Host(y, TRUE)
        BY <3>1 DEF TLSHosts
      <4>3. x = Host("apex", FALSE) \/ x = Host("www", FALSE) \/ \E y : x = Host(y, TRUE)
        BY <4>2 DEF WebHosts
      <4>4. CASE x = Host("www", FALSE)
        <5>1. x.name = "www"
          BY <4>1, <4>4
        <5> QED BY <3>1, <5>1
      <4>5. ASSUME NEW y, x = Host(y, TRUE) PROVE x = declared /\ declared \in TLSHosts(net)
        <5>1. y = "apex"
          BY <3>1, <4>1, <4>5
        <5> QED BY <3>1, <4>5, <5>1
      <4>6. x = Host("apex", FALSE) => x = target
        OBVIOUS
      <4>7. (\E y : x = Host(y, TRUE)) => x = declared /\ declared \in TLSHosts(net)
        BY <4>5
      <4> HIDE DEF target, declared
      <4> QED BY <4>3, <4>4, <4>6, <4>7
    <3>2. x = target \/ (x \in TLSHosts(net) /\ x.name = "apex")
      BY DEF FirstAskers
    <3> HIDE DEF target, declared
    <3> QED BY <3>1, <3>2
  <2>4. Home("https", "apex").scheme = "https"
    BY DEF Home, URL
  <2>5. get(net, g, Home("https", "apex")) = get(net, h, Home("https", "apex"))
    BY <2>3, <2>4, SameConnection
  <2>6. HttpVerdicts(net, FetchedFor(g)) = HttpVerdicts(net, FetchedFor(h))
    BY <2>5, SameVerdicts
  <2>7. \A asked : Verdicts(net, asked) = HttpVerdicts(net, asked)
    BY DEF Verdicts
  <2> QED BY <2>2, <2>6, <2>7
<1> QED BY <1>1, RunInductive, PTL

-----------------------------------------------------------------------------
(* What a walk of SPF records counts *)

LEMMA TypesAsked == Cardinality(Families) = 2 /\ \A x : Cardinality({x}) = 1
<1>1. \A x : Cardinality({x}) = 1 /\ IsFiniteSet({x})
  BY FS_Singleton
<1>2. Families = {"A"} \cup {"AAAA"} /\ "AAAA" \notin {"A"}
  BY DEF Families
<1>3. Cardinality({"A"} \cup {"AAAA"}) = Cardinality({"A"}) + 1
  <2>1. IsFiniteSet({"A"})
    BY <1>1
  <2> QED BY <1>2, <2>1, FS_AddElement
<1>4. Cardinality({"A"}) = 1
  BY <1>1
<1>5. Cardinality(Families) = 1 + 1
  BY <1>2, <1>3, <1>4
<1> QED BY <1>1, <1>5

\* What an evaluation has come to is never less than what it was before.
Grows(before, after) ==
    /\ before.lookups <= after.lookups
    /\ before.problems \subseteq after.problems
    /\ before.failed => after.failed

LEMMA ProblemTyped ==
    ASSUME NEW n, NEW ev \in Evaluations(n), NEW via \in Vias(n) \cup {<<>>}
    PROVE  /\ Problem(ev, via) \in Evaluations(n) /\ Grows(ev, Problem(ev, via))
           /\ Problem(ev, via).lookups = ev.lookups /\ Problem(ev, via).queries = ev.queries
           /\ Problem(ev, via).prefetched = ev.prefetched
           /\ via \in Problem(ev, via).problems
           /\ Problem(ev, via).halted = ev.halted
BY DEF Problem, Evaluations, Grows

LEMMA CountedTyped ==
    ASSUME NEW n, NEW ev \in Evaluations(n)
    PROVE  /\ [ev EXCEPT !.lookups = @ + 1] \in Evaluations(n)
           /\ Grows(ev, [ev EXCEPT !.lookups = @ + 1])
           /\ [ev EXCEPT !.lookups = @ + 1].lookups = ev.lookups + 1
           /\ [ev EXCEPT !.lookups = @ + 1].queries = ev.queries
           /\ [ev EXCEPT !.lookups = @ + 1].prefetched = ev.prefetched
           /\ [ev EXCEPT !.lookups = @ + 1].halted = ev.halted
           /\ [ev EXCEPT !.lookups = @ + 1].failed = ev.failed
           /\ [ev EXCEPT !.lookups = @ + 1].problems = ev.problems
BY DEF Evaluations, Grows

LEMMA AskedTyped ==
    ASSUME NEW n, NEW ev \in Evaluations(n)
    PROVE  /\ [ev EXCEPT !.queries = @ + 1] \in Evaluations(n)
           /\ Grows(ev, [ev EXCEPT !.queries = @ + 1])
           /\ [ev EXCEPT !.queries = @ + 1].lookups = ev.lookups
           /\ [ev EXCEPT !.queries = @ + 1].queries = ev.queries + 1
           /\ [ev EXCEPT !.queries = @ + 1].prefetched = ev.prefetched
           /\ [ev EXCEPT !.queries = @ + 1].permissive = ev.permissive
<1> DEFINE asked == [ev EXCEPT !.queries = @ + 1]
<1>1. /\ asked \in Evaluations(n) /\ asked.lookups = ev.lookups /\ asked.queries = ev.queries + 1
      /\ asked.prefetched = ev.prefetched /\ asked.permissive = ev.permissive
      /\ asked.problems = ev.problems /\ asked.failed = ev.failed /\ ev.lookups \in Nat
  BY DEF Evaluations
<1> HIDE DEF asked
<1>2. Grows(ev, asked)
  BY <1>1 DEF Grows
<1> QED BY <1>1, <1>2 DEF asked

LEMMA HaltedTyped ==
    ASSUME NEW n, NEW ev \in Evaluations(n), NEW b \in BOOLEAN
    PROVE  /\ [ev EXCEPT !.halted = b] \in Evaluations(n)
           /\ Grows(ev, [ev EXCEPT !.halted = b])
           /\ [ev EXCEPT !.halted = b].lookups = ev.lookups
           /\ [ev EXCEPT !.halted = b].queries = ev.queries
           /\ [ev EXCEPT !.halted = b].prefetched = ev.prefetched
           /\ [ev EXCEPT !.halted = b].failed = ev.failed
           /\ [ev EXCEPT !.halted = b].problems = ev.problems
           /\ [ev EXCEPT !.halted = b].halted = b
BY DEF Evaluations, Grows

LEMMA RestartedTyped ==
    ASSUME NEW n, NEW ev \in Evaluations(n)
    PROVE  /\ [ev EXCEPT !.halted = FALSE] \in Evaluations(n)
           /\ Grows(ev, [ev EXCEPT !.halted = FALSE])
           /\ [ev EXCEPT !.halted = FALSE].lookups = ev.lookups
           /\ [ev EXCEPT !.halted = FALSE].queries = ev.queries
           /\ [ev EXCEPT !.halted = FALSE].prefetched = ev.prefetched
           /\ [ev EXCEPT !.halted = FALSE].failed = ev.failed
           /\ ~[ev EXCEPT !.halted = FALSE].halted
<1>1. PICK b \in BOOLEAN : b = FALSE
  OBVIOUS
<1>2. [ev EXCEPT !.halted = b] = [ev EXCEPT !.halted = FALSE]
  BY <1>1
<1> QED BY <1>1, <1>2, HaltedTyped

LEMMA QueryTyped ==
    ASSUME NEW n, NEW ev \in Evaluations(n), NEW target, NEW types, Cardinality(types) \in {1, 2}
    PROVE  /\ Query(n, ev, target, types) \in Evaluations(n)
           /\ Grows(ev, Query(n, ev, target, types))
           /\ Query(n, ev, target, types).lookups = ev.lookups
           /\ Query(n, ev, target, types).prefetched = ev.prefetched
           /\ Query(n, ev, target, types).queries <= ev.queries + 2
           /\ ev.queries <= Query(n, ev, target, types).queries
<1> DEFINE counted == [ev EXCEPT !.queries = @ + Cardinality(types)]
           failed == [counted EXCEPT !.failed = TRUE]
           void == [counted EXCEPT !.voids = @ + 1]
           Fine(x) == /\ x \in Evaluations(n) /\ Grows(ev, x) /\ x.lookups = ev.lookups
                      /\ x.prefetched = ev.prefetched
                      /\ x.queries <= ev.queries + 2 /\ ev.queries <= x.queries
<1>1. /\ counted \in Evaluations(n) /\ counted.lookups = ev.lookups
      /\ counted.queries = ev.queries + Cardinality(types) /\ counted.prefetched = ev.prefetched
      /\ counted.problems = ev.problems /\ counted.failed = ev.failed
  BY DEF Evaluations
<1>2. Query(n, ev, target, types) \in {counted, failed, void}
  BY DEF Query
<1> HIDE DEF counted
<1>3. ev.lookups \in Nat /\ ev.queries \in Nat
  BY DEF Evaluations
<1>4. Fine(counted)
  BY <1>1, <1>3 DEF Grows
<1>5. Fine(failed)
  <2>1. /\ failed \in Evaluations(n) /\ failed.lookups = counted.lookups /\ failed.queries = counted.queries
        /\ failed.prefetched = counted.prefetched
        /\ failed.problems = counted.problems /\ failed.failed = TRUE
    BY <1>1 DEF Evaluations
  <2> HIDE DEF failed
  <2> QED BY <1>1, <1>3, <2>1 DEF Grows
<1>6. Fine(void)
  <2> DEFINE k == counted.voids + 1
  <2>2. void = [counted EXCEPT !.voids = k] /\ k \in Nat
    BY <1>1 DEF Evaluations
  <2> HIDE DEF k, void
  <2>1. /\ void \in Evaluations(n) /\ void.lookups = counted.lookups /\ void.queries = counted.queries
        /\ void.prefetched = counted.prefetched
        /\ void.problems = counted.problems /\ void.failed = counted.failed
    BY <1>1, <2>2 DEF Evaluations
  <2> QED BY <1>1, <1>3, <2>1 DEF Grows
<1> QED BY <1>2, <1>4, <1>5, <1>6
\* A record set's field: what a visit of a network consists of.
LEMMA VisitTyped ==
    ASSUME NEW n, NEW ev \in Evaluations(n), NEW target \in Domains(n), NEW via \in Vias(n) \cup {<<>>},
           NEW stack \in SUBSET Domains(n), NEW top \in BOOLEAN
    PROVE  /\ Visit(ev, target, via, stack, top) \in Visits(n)
           /\ Visit(ev, target, via, stack, top).ev = ev
           /\ Visit(ev, target, via, stack, top).target = target
           /\ Visit(ev, target, via, stack, top).top = top
BY DEF Visit, Visits

LEMMA VisitFields ==
    ASSUME NEW n, NEW v \in Visits(n)
    PROVE  /\ v.ev \in Evaluations(n) /\ v.target \in Domains(n) /\ v.via \in Vias(n) \cup {<<>>}
           /\ v.stack \in SUBSET Domains(n) /\ v.top \in BOOLEAN
BY DEF Visits

\* What a valid term names: a domain, where there is a name at all.
LEMMA TermNames ==
    ASSUME NEW n, NEW m \in Terms(n), ValidTerm(m)
    PROVE  /\ m.to # Macro /\ m.name \in {"include", "exists", "redirect"} => m.to \in Domains(n)
           /\ m.to # Macro /\ m.name \in {"a", "mx"} => m.to = "" \/ m.to \in Domains(n)
<1>1. m.to \in Domains(n) \cup NotDomains \cup {Macro}
  BY DEF Terms
<1>2. m.name \in {"include", "exists", "redirect"} => Named(m)
  BY DEF ValidTerm, Modifiers
<1>3. m.name \in {"a", "mx"} => m.to = "" \/ Named(m)
  BY DEF ValidTerm
<1> QED BY <1>1, <1>2, <1>3 DEF Named

\* What one mechanism does to the evaluation: it leads deeper, or costs a lookup
\* and at most two queries.
LeadsTo(v, ev, m) == Visit([ev EXCEPT !.lookups = @ + 1], m.to, <<"include", m.to>>, v.stack, FALSE)

LEMMA MechanismOf ==
    ASSUME NEW n, n.mxCount \in [Domains(n) -> Nat], NEW follow, NEW v \in Visits(n),
           NEW ev \in Evaluations(n), NEW m \in Terms(n), ValidTerm(m), CountsLookup(m)
    PROVE  \/ /\ m.name = "include" /\ m.to # Macro /\ m.to \in Domains(n)
              /\ LeadsTo(v, ev, m) \in Visits(n)
              /\ Mechanism(n, follow, v, ev, m) = follow[LeadsTo(v, ev, m)]
           \/ /\ ~(m.name = "include" /\ m.to # Macro)
              /\ Mechanism(n, follow, v, ev, m) \in Evaluations(n)
              /\ Grows(ev, Mechanism(n, follow, v, ev, m))
              /\ Mechanism(n, follow, v, ev, m).lookups = ev.lookups + 1
              /\ Mechanism(n, follow, v, ev, m).queries <= ev.queries + 2
              /\ Mechanism(n, follow, v, ev, m).prefetched = ev.prefetched
<1> DEFINE counted == [ev EXCEPT !.lookups = @ + 1]
           target == IF m.to = "" THEN v.target ELSE m.to
           types == IF m.name = "mx" THEN {"MX"} ELSE IF m.name = "exists" THEN {"A"} ELSE Families
           queried == Query(n, counted, target, types)
           found == Problem(queried, v.via)
           result == Mechanism(n, follow, v, ev, m)
<1>1. /\ counted \in Evaluations(n) /\ Grows(ev, counted) /\ counted.lookups = ev.lookups + 1
      /\ counted.queries = ev.queries /\ counted.prefetched = ev.prefetched
  BY CountedTyped
<1>2. /\ v.target \in Domains(n) /\ v.via \in Vias(n) \cup {<<>>}
      /\ v.stack \in SUBSET Domains(n)
  BY VisitFields
<1>3. Cardinality(types) \in {1, 2}
  BY TypesAsked
<1>4. /\ queried \in Evaluations(n) /\ Grows(counted, queried) /\ queried.lookups = counted.lookups
      /\ queried.queries <= counted.queries + 2 /\ queried.prefetched = counted.prefetched
  <2> HIDE DEF counted, target, types
  <2> QED BY <1>1, <1>3, QueryTyped
<1>5. /\ found \in Evaluations(n) /\ Grows(queried, found) /\ found.lookups = queried.lookups
      /\ found.queries = queried.queries /\ found.prefetched = queried.prefetched
  <2> HIDE DEF queried
  <2> QED BY <1>2, <1>4, ProblemTyped
<1>6. ev.lookups \in Nat /\ ev.queries \in Nat
  BY DEF Evaluations
<1>7. CASE m.name = "include" /\ m.to # Macro
  <2>1. m.to \in Domains(n) /\ m.name # "ptr"
    BY <1>7, TermNames
  <2>2. <<"include", m.to>> \in Vias(n)
    BY <2>1 DEF Vias
  <2>3. target = m.to
    <3>1. m.to # ""
      BY <1>7 DEF ValidTerm, Named, NotDomains
    <3> QED BY <3>1
  <2>4. LeadsTo(v, ev, m) \in Visits(n)
    BY <1>1, <1>2, <2>1, <2>2, VisitTyped DEF LeadsTo
  <2>5. result = follow[LeadsTo(v, ev, m)]
    BY <1>7, <2>1, <2>3 DEF Mechanism, LeadsTo
  <2> QED BY <1>7, <2>1, <2>4, <2>5
<1>8. CASE ~(m.name = "include" /\ m.to # Macro)
  <2>1. result \in {counted, queried, found}
    BY <1>8 DEF Mechanism
  <2> HIDE DEF counted, queried, found, result
  <2>2. result \in Evaluations(n)
    BY <1>1, <1>4, <1>5, <2>1
  <2>3. Grows(ev, result)
    BY <1>1, <1>4, <1>5, <1>6, <2>1 DEF Grows
  <2>4. result.lookups = ev.lookups + 1 /\ result.prefetched = ev.prefetched
    BY <1>1, <1>4, <1>5, <2>1
  <2>5. result.queries <= ev.queries + 2
    BY <1>1, <1>4, <1>5, <1>6, <2>1
  <2> QED BY <1>8, <2>2, <2>3, <2>4, <2>5 DEF result
<1> QED BY <1>7, <1>8
Followers(n) == [Visits(n) -> Evaluations(n)]

LEMMA MechanismAsks ==
    ASSUME NEW n, n.mxCount \in [Domains(n) -> Nat], NEW follow, NEW v \in Visits(n),
           NEW ev \in Evaluations(n), NEW m \in Terms(n), ValidTerm(m), CountsLookup(m),
           NEW next, next = Mechanism(n, follow, v, ev, m), NEW to, to = LeadsTo(v, ev, m)
    PROVE  \/ to \in Visits(n) /\ next = follow[to]
           \/ /\ next \in Evaluations(n) /\ next.lookups = ev.lookups + 1
              /\ next.queries <= ev.queries + 2 /\ next.prefetched = ev.prefetched
BY MechanismOf

LEMMA AdvanceTyped ==
    ASSUME NEW n, n.mxCount \in [Domains(n) -> Nat], NEW follow \in Followers(n), NEW v \in Visits(n),
           NEW ev \in Evaluations(n), NEW m \in Terms(n), ValidTerm(m)
    PROVE  /\ Advance(n, follow, v, ev, m) \in Evaluations(n)
           /\ CountsLookup(m) => Mechanism(n, follow, v, ev, m) \in Evaluations(n)
<1> DEFINE next == Mechanism(n, follow, v, ev, m)
<1>1. CASE ev.halted \/ ev.failed \/ ~CountsLookup(m)
  <2>1. Advance(n, follow, v, ev, m) = ev
    BY <1>1 DEF Advance
  <2>2. CountsLookup(m) => next \in Evaluations(n)
    BY MechanismOf DEF Followers
  <2> QED BY <2>1, <2>2
<1>2. CASE ~(ev.halted \/ ev.failed \/ ~CountsLookup(m))
  <2>1. next \in Evaluations(n)
    BY <1>2, MechanismOf DEF Followers
  <2>2. Stopped(next) \in BOOLEAN
    BY DEF Stopped
  <2>3. Advance(n, follow, v, ev, m) = [next EXCEPT !.halted = Stopped(next)]
    BY <1>2 DEF Advance
  <2> HIDE DEF next
  <2>4. [next EXCEPT !.halted = Stopped(next)] \in Evaluations(n)
    BY <2>1, <2>2, HaltedTyped
  <2> QED BY <2>1, <2>3, <2>4 DEF next
<1> QED BY <1>1, <1>2

\* The terms are evaluated in their order, each from what the one before left.
LEMMA MechanismsDefined ==
    ASSUME NEW n, n.mxCount \in [Domains(n) -> Nat], NEW follow \in Followers(n), NEW v \in Visits(n),
           NEW rec \in Seq(Terms(n)), Parses(rec)
    PROVE  /\ Mechanisms(n, follow, v, rec) \in [0..Len(rec) -> Evaluations(n)]
           /\ Mechanisms(n, follow, v, rec)[0] = [v.ev EXCEPT !.halted = FALSE]
           /\ \A i \in 1..Len(rec) :
                Mechanisms(n, follow, v, rec)[i]
                  = Advance(n, follow, v, Mechanisms(n, follow, v, rec)[i - 1], rec[i])
<1> DEFINE N == Len(rec)
           V == Evaluations(n)
           base == [v.ev EXCEPT !.halted = FALSE]
           After(F, i) == IF i = 0 THEN base ELSE Advance(n, follow, v, F[i - 1], rec[i])
           R == CHOOSE F : F = [i \in 0..N |-> After(F, i)]
           step == [i \in 1..N |-> [x \in V |-> Advance(n, follow, v, x, rec[i])]]
<1>1. N \in Nat /\ base \in V
  <2>1. v.ev \in Evaluations(n)
    BY VisitFields
  <2>2. base \in V
    BY <2>1, RestartedTyped
  <2>3. N \in Nat
    OBVIOUS
  <2> QED BY <2>2, <2>3
<1>2. ASSUME NEW i \in 1..N PROVE rec[i] \in Terms(n) /\ ValidTerm(rec[i])
  BY DEF Parses
<1>3. ASSUME NEW i \in 1..N, NEW x \in V PROVE Advance(n, follow, v, x, rec[i]) \in V
  BY <1>2, AdvanceTyped
<1>4. step \in [1..N -> [V -> V]]
  <2> HIDE DEF N, V
  <2> QED BY <1>3
<1>5. PICK G : Steps(G, N, V, base, step)
  <2> HIDE DEF N, V, base, step, R, After
  <2> QED BY <1>1, <1>4, BoundedIteration
<1>6. G = [i \in 0..N |-> After(G, i)]
  <2>1. ASSUME NEW i \in 0..N PROVE G[i] = After(G, i)
    <3>1. CASE i = 0
      BY <3>1, <1>5 DEF Steps
    <3>2. CASE i # 0
      <4>1. i \in 1..N /\ i - 1 \in 0..N
        BY <3>2, <1>1
      <4>2. G[i] = step[i][G[i - 1]] /\ G[i - 1] \in V
        <5> HIDE DEF step, base
        <5> QED BY <1>5, <4>1 DEF Steps
      <4>3. G[i] = Advance(n, follow, v, G[i - 1], rec[i])
        <5> HIDE DEF V
        <5> QED BY <4>1, <4>2
      <4> QED BY <3>2, <4>3
    <3> QED BY <3>1, <3>2
  <2>2. G \in [0..N -> V]
    BY <1>5 DEF Steps
  <2> HIDE DEF After, N, V
  <2> QED BY <2>1, <2>2
<1>7. R = [i \in 0..N |-> After(R, i)]
  <2> HIDE DEF After
  <2> QED BY <1>6
<1>8. Mechanisms(n, follow, v, rec) = R
  BY Zenon DEF Mechanisms
<1> HIDE DEF R
<1>9. R[0] = base
  BY <1>7, <1>1
<1>10. ASSUME NEW i \in 1..N PROVE R[i] = Advance(n, follow, v, R[i - 1], rec[i])
  <2>1. i \in 0..N /\ i # 0
    BY <1>1
  <2>2. R[i] = After(R, i)
    <3> HIDE DEF After
    <3> QED BY <1>7, <2>1
  <2> QED BY <2>1, <2>2
<1>11. R \in [0..N -> V]
  <2> DEFINE S == {i \in 0..N : R[i] \in V}
  <2>1. 0 \in S
    BY <1>1, <1>9
  <2>2. ASSUME NEW i \in 1..N, i - 1 \in S PROVE i \in S
    BY <2>2, <1>3, <1>10
  <2>3. \A i \in 0..N : i \in S
    <3> HIDE DEF S
    <3> QED BY <1>1, <2>1, <2>2, InductionTo
  <2>4. R = [i \in 0..N |-> R[i]]
    <3> HIDE DEF After
    <3> QED BY <1>7
  <2> HIDE DEF V
  <2> QED BY <2>3, <2>4
<1> QED BY <1>8, <1>9, <1>10, <1>11

\* Where a record says to go on: a domain, or one that depends on the sender.
LEMMA RedirectNamed ==
    ASSUME NEW n, NEW rec \in Seq(Terms(n)), Parses(rec), Redirects(rec) # {}
    PROVE  RedirectOf(rec) = Macro \/ RedirectOf(rec) \in Domains(n)
<1>1. RedirectOf(rec) \in Redirects(rec)
  BY DEF RedirectOf
<1>2. PICK i \in DOMAIN rec : rec[i].name = "redirect" /\ RedirectOf(rec) = rec[i].to
  BY <1>1 DEF Redirects
<1>3. rec[i] \in Terms(n) /\ ValidTerm(rec[i])
  BY DEF Parses
<1> QED BY <1>2, <1>3, TermNames

LEMMA AllNamed ==
    ASSUME NEW n, NEW rec \in Seq(Terms(n)), Alls(rec) # {}
    PROVE  /\ FirstAll(rec) \in DOMAIN rec /\ rec[FirstAll(rec)].name = "all"
           /\ \A i \in DOMAIN rec : rec[i].name = "all" => FirstAll(rec) <= i
           /\ AllOf(rec).qualifier \in Qualifiers
<1>1. Alls(rec) \in SUBSET Nat
  BY DEF Alls
<1>2. \E i \in Alls(rec) : \A j \in Alls(rec) : i <= j
  BY <1>1, Least
<1>3. FirstAll(rec) \in Alls(rec) /\ \A j \in Alls(rec) : FirstAll(rec) <= j
  BY <1>2 DEF FirstAll
<1>4. FirstAll(rec) \in DOMAIN rec
  BY <1>3 DEF Alls
<1>5. rec[FirstAll(rec)].qualifier \in Qualifiers
  <2>1. rec[FirstAll(rec)] \in Terms(n)
    BY <1>4
  <2> QED BY <2>1 DEF Terms
<1> QED BY <1>3, <1>4, <1>5 DEF Alls, AllOf

\* How a walk ends: after the mechanisms, or where the redirect leads.
RedirectsTo(v, after, to) ==
    Visit([after EXCEPT !.lookups = @ + 1], to, <<"redirect", to>>, v.stack, v.top)

\* A walk from here on: its queries are asked ahead already.
WalkOn(n, follow, v, rec) == Ended(n, follow, v, rec)[Mechanisms(n, follow, v, rec)[Len(rec)]]

LEMMA WalkBegins ==
    \A n, follow, v, rec :
       Walk(n, follow, v, rec) = WalkOn(n, follow, [v EXCEPT !.ev = Prefetch(@, rec)], rec)
BY Zenon DEF Walk, WalkOn

LEMMA PrefetchTyped ==
    ASSUME NEW n, NEW ev \in Evaluations(n), NEW rec \in Seq(Terms(n))
    PROVE  /\ Prefetch(ev, rec) \in Evaluations(n) /\ Grows(ev, Prefetch(ev, rec))
           /\ Prefetch(ev, rec).lookups = ev.lookups /\ Prefetch(ev, rec).queries = ev.queries
           /\ Prefetch(ev, rec).prefetched <= ev.prefetched + MaxQueries
<1> DEFINE types == {"TXT", "MX"} \cup Families
           asked == Cardinality(Ahead(rec))
           more == [ev EXCEPT !.prefetched = @ + asked]
<1>1. IsFiniteSet((DOMAIN rec) \X types)
  <2>1. DOMAIN rec = 1..Len(rec) /\ Len(rec) \in Nat
    OBVIOUS
  <2>2. IsFiniteSet(1..Len(rec))
    BY <2>1, FS_Interval
  <2>3. types = {"TXT"} \cup {"MX"} \cup {"A"} \cup {"AAAA"}
    BY DEF Families
  <2>4. IsFiniteSet(types)
    <3>1. IsFiniteSet({"TXT"} \cup {"MX"})
      BY FS_Singleton, FS_AddElement
    <3>2. IsFiniteSet({"TXT"} \cup {"MX"} \cup {"A"})
      BY <3>1, FS_AddElement
    <3>3. IsFiniteSet({"TXT"} \cup {"MX"} \cup {"A"} \cup {"AAAA"})
      BY <3>2, FS_AddElement
    <3> QED BY <2>3, <3>3
  <2> HIDE DEF types
  <2> QED BY <2>1, <2>2, <2>4, FS_Product
<1>2. asked \in Nat
  <2>1. Ahead(rec) \subseteq (DOMAIN rec) \X types
    BY DEF Ahead
  <2> HIDE DEF types
  <2>2. IsFiniteSet(Ahead(rec))
    BY <1>1, <2>1, FS_Subset
  <2> QED BY <2>2, FS_CardinalityType
<1> HIDE DEF asked
<1>3. ev.lookups \in Nat /\ ev.queries \in Nat /\ ev.prefetched \in Nat /\ MaxQueries \in Nat
  BY SpfAssumption DEF Evaluations
<1>4. /\ more \in Evaluations(n) /\ Grows(ev, more) /\ more.lookups = ev.lookups
      /\ more.queries = ev.queries /\ more.prefetched = ev.prefetched + asked
  <2>1. ev.prefetched + asked \in Nat
    BY <1>2, <1>3
  <2>2. /\ more \in Evaluations(n) /\ more.lookups = ev.lookups /\ more.queries = ev.queries
        /\ more.prefetched = ev.prefetched + asked
        /\ more.problems = ev.problems /\ more.failed = ev.failed
    BY <2>1 DEF Evaluations
  <2> HIDE DEF more
  <2> QED BY <1>3, <2>2 DEF Grows
<1>5. Prefetch(ev, rec) = IF asked < 2 \/ asked > MaxQueries - ev.queries THEN ev ELSE more
  BY DEF Prefetch, asked
<1> HIDE DEF more
<1>6. CASE asked < 2 \/ asked > MaxQueries - ev.queries
  BY <1>3, <1>5, <1>6 DEF Grows
<1>7. CASE ~(asked < 2 \/ asked > MaxQueries - ev.queries)
  BY <1>2, <1>3, <1>4, <1>5, <1>7
<1> QED BY <1>6, <1>7

LEMMA WalkOf ==
    ASSUME NEW n, n.mxCount \in [Domains(n) -> Nat], NEW follow \in Followers(n), NEW v \in Visits(n),
           NEW rec \in Seq(Terms(n)), Parses(rec),
           NEW after, after = Mechanisms(n, follow, v, rec)[Len(rec)]
    PROVE  /\ after \in Evaluations(n)
           /\ \/ /\ after.halted \/ after.failed \/ Alls(rec) # {} \/ Redirects(rec) = {}
                 /\ WalkOn(n, follow, v, rec) \in Evaluations(n)
                 /\ Grows(after, WalkOn(n, follow, v, rec))
                 /\ WalkOn(n, follow, v, rec).lookups = after.lookups
                 /\ WalkOn(n, follow, v, rec).queries = after.queries
                 /\ WalkOn(n, follow, v, rec).prefetched = after.prefetched
              \/ /\ ~after.halted /\ ~after.failed /\ Alls(rec) = {} /\ Redirects(rec) # {}
                 /\ RedirectOf(rec) = Macro
                 /\ WalkOn(n, follow, v, rec) = [after EXCEPT !.lookups = @ + 1]
              \/ /\ ~after.halted /\ ~after.failed /\ Alls(rec) = {} /\ Redirects(rec) # {}
                 /\ RedirectOf(rec) # Macro /\ RedirectOf(rec) \in Domains(n)
                 /\ RedirectsTo(v, after, RedirectOf(rec)) \in Visits(n)
                 /\ WalkOn(n, follow, v, rec) = follow[RedirectsTo(v, after, RedirectOf(rec))]
<1> DEFINE result == WalkOn(n, follow, v, rec)
<1>1. after \in Evaluations(n)
  <2>1. Len(rec) \in Nat /\ Len(rec) \in 0..Len(rec)
    OBVIOUS
  <2>2. Mechanisms(n, follow, v, rec) \in [0..Len(rec) -> Evaluations(n)]
    BY MechanismsDefined
  <2> QED BY <2>1, <2>2
<1>6. result = IF after.halted \/ after.failed THEN [after EXCEPT !.incomplete = @ \/ after.halted]
               ELSE IF Alls(rec) # {}
                 THEN IF v.top THEN [after EXCEPT !.effective = AllOf(rec).qualifier] ELSE after
               ELSE IF Redirects(rec) = {} THEN after
               ELSE Redirect(follow, v, after, RedirectOf(rec))
  BY <1>1 DEF WalkOn, Ended
<1>2. CASE after.halted \/ after.failed
  <2> DEFINE ends == [after EXCEPT !.incomplete = @ \/ after.halted]
  <2>1. result = ends
    BY <1>2, <1>6
  <2>2. /\ ends \in Evaluations(n) /\ ends.lookups = after.lookups /\ ends.queries = after.queries
        /\ ends.prefetched = after.prefetched
        /\ ends.problems = after.problems /\ ends.failed = after.failed /\ after.lookups \in Nat
    BY <1>1 DEF Evaluations
  <2> HIDE DEF ends
  <2>3. Grows(after, ends)
    BY <2>2 DEF Grows
  <2> QED BY <1>1, <1>2, <2>1, <2>2, <2>3
<1>3. CASE ~(after.halted \/ after.failed) /\ Alls(rec) # {}
  <2> DEFINE q == AllOf(rec).qualifier
             ends == [after EXCEPT !.effective = q]
  <2>1. result \in {ends, after}
    BY <1>3, <1>6
  <2>2. q \in Qualifiers
    BY <1>3, AllNamed
  <2> HIDE DEF q
  <2>3. /\ ends \in Evaluations(n) /\ ends.lookups = after.lookups /\ ends.queries = after.queries
        /\ ends.prefetched = after.prefetched
        /\ ends.problems = after.problems /\ ends.failed = after.failed /\ after.lookups \in Nat
    BY <1>1, <2>2 DEF Evaluations
  <2> HIDE DEF ends, result
  <2>4. Grows(after, after) /\ Grows(after, ends)
    BY <2>3 DEF Grows
  <2>5. /\ result \in Evaluations(n) /\ Grows(after, result)
        /\ result.lookups = after.lookups /\ result.queries = after.queries
        /\ result.prefetched = after.prefetched
    BY <1>1, <2>1, <2>3, <2>4
  <2> QED BY <1>1, <1>3, <2>5 DEF result
<1>4. CASE ~(after.halted \/ after.failed) /\ Alls(rec) = {} /\ Redirects(rec) = {}
  <2>1. result = after
    BY <1>4, <1>6
  <2>2. Grows(after, after)
    BY <1>1 DEF Evaluations, Grows
  <2> QED BY <1>1, <1>4, <2>1, <2>2
<1>5. CASE ~(after.halted \/ after.failed) /\ Alls(rec) = {} /\ Redirects(rec) # {}
  <2> DEFINE to == RedirectOf(rec)
  <2>1. result = Redirect(follow, v, after, to)
    BY <1>5, <1>6
  <2>2. CASE to = Macro
    BY <1>1, <1>5, <2>1, <2>2 DEF Redirect
  <2>3. CASE to # Macro
    <3>1. to \in Domains(n)
      BY <1>5, <2>3, RedirectNamed
    <3>2. <<"redirect", to>> \in Vias(n)
      BY <3>1 DEF Vias
    <3> HIDE DEF to
    <3>3. RedirectsTo(v, after, to) \in Visits(n)
      <4> DEFINE counted == [after EXCEPT !.lookups = @ + 1]
                 via == <<"redirect", to>>
      <4>1. counted \in Evaluations(n) /\ v.stack \in SUBSET Domains(n) /\ v.top \in BOOLEAN
        BY <1>1, CountedTyped, VisitFields
      <4>2. RedirectsTo(v, after, to) = Visit(counted, to, via, v.stack, v.top)
        BY DEF RedirectsTo
      <4>3. via \in Vias(n) \cup {<<>>}
        BY <3>2
      <4> HIDE DEF counted, via
      <4>4. Visit(counted, to, via, v.stack, v.top) \in Visits(n)
        BY <3>1, <4>1, <4>3, VisitTyped
      <4> QED BY <4>2, <4>4
    <3>4. result = follow[RedirectsTo(v, after, to)]
      BY <2>1, <2>3 DEF Redirect, RedirectsTo
    <3> QED BY <1>1, <1>5, <2>3, <3>1, <3>3, <3>4 DEF to
  <2> QED BY <2>2, <2>3
<1> QED BY <1>2, <1>3, <1>4, <1>5

LEMMA WalkTyped ==
    ASSUME NEW n, n.mxCount \in [Domains(n) -> Nat], NEW follow \in Followers(n), NEW v \in Visits(n),
           NEW rec \in Seq(Terms(n)), Parses(rec)
    PROVE  WalkOn(n, follow, v, rec) \in Evaluations(n)
<1>1. PICK after : after = Mechanisms(n, follow, v, rec)[Len(rec)]
  OBVIOUS
<1>2. after \in Evaluations(n)
  BY <1>1, WalkOf
<1>3. [after EXCEPT !.lookups = @ + 1] \in Evaluations(n)
  BY <1>2, CountedTyped
<1>4. \A x \in Visits(n) : follow[x] \in Evaluations(n)
  BY DEF Followers
<1>5. \/ WalkOn(n, follow, v, rec) \in Evaluations(n)
      \/ WalkOn(n, follow, v, rec) = [after EXCEPT !.lookups = @ + 1]
      \/ /\ RedirectsTo(v, after, RedirectOf(rec)) \in Visits(n)
         /\ WalkOn(n, follow, v, rec) = follow[RedirectsTo(v, after, RedirectOf(rec))]
  BY <1>1, WalkOf
<1> QED BY <1>3, <1>4, <1>5

\* One call of follow: an error or a problem on the way to the record, or a walk
\* of it.
Entered(n, v) ==
    LET asked == [v.ev EXCEPT !.queries = @ + 1]
        rec == CHOOSE r \in n.spf[v.target] : TRUE
        passes == ~v.top /\ Alls(rec) # {} /\ AllOf(rec).qualifier = "+"
        entered == IF passes THEN [asked EXCEPT !.permissive = Append(@, v.via)] ELSE asked
    IN  [v EXCEPT !.ev = Prefetch(entered, rec), !.stack = @ \cup {v.target}]

LEMMA EnteredTyped ==
    ASSUME NEW n, NEW v \in Visits(n),
           NEW rec \in Seq(Terms(n)), rec = CHOOSE r \in n.spf[v.target] : TRUE
    PROVE  /\ Entered(n, v) \in Visits(n)
           /\ Entered(n, v).target = v.target /\ Entered(n, v).via = v.via /\ Entered(n, v).top = v.top
           /\ Entered(n, v).stack = v.stack \cup {v.target}
           /\ Entered(n, v).ev.lookups = v.ev.lookups
           /\ Entered(n, v).ev.queries = v.ev.queries + 1
           /\ Entered(n, v).ev.prefetched <= v.ev.prefetched + MaxQueries
           /\ Grows(v.ev, Entered(n, v).ev)
<1> DEFINE asked == [v.ev EXCEPT !.queries = @ + 1]
           more == Append(asked.permissive, v.via)
           open == [asked EXCEPT !.permissive = more]
           next(e) == [v EXCEPT !.ev = e, !.stack = @ \cup {v.target}]
           Fine(e) == /\ e \in Evaluations(n) /\ e.lookups = v.ev.lookups /\ e.queries = v.ev.queries + 1
                      /\ Grows(v.ev, e) /\ e.prefetched = v.ev.prefetched
           Begun(e) == /\ e \in Evaluations(n) /\ e.lookups = v.ev.lookups /\ e.queries = v.ev.queries + 1
                       /\ Grows(v.ev, e) /\ e.prefetched <= v.ev.prefetched + MaxQueries
<1>1. v.ev \in Evaluations(n) /\ v.target \in Domains(n) /\ v.via \in Vias(n) \cup {<<>>}
  BY VisitFields
<1>2. Fine(asked) /\ asked.permissive = v.ev.permissive
  BY <1>1, AskedTyped
<1>3. more \in Seq(Vias(n) \cup {<<>>})
  BY <1>1, <1>2 DEF Evaluations
<1>4. Fine(open)
  <2> HIDE DEF asked, more
  <2>1. /\ open \in Evaluations(n) /\ open.lookups = asked.lookups /\ open.queries = asked.queries
        /\ open.prefetched = asked.prefetched
        /\ open.problems = asked.problems /\ open.failed = asked.failed
    BY <1>2, <1>3 DEF Evaluations
  <2> HIDE DEF open
  <2> QED BY <1>2, <2>1 DEF Grows
<1>5. Entered(n, v) = next(Prefetch(asked, rec)) \/ Entered(n, v) = next(Prefetch(open, rec))
  BY DEF Entered
<1> HIDE DEF asked, open
<1>6. ASSUME NEW e, Fine(e) PROVE Begun(Prefetch(e, rec))
  <2>1. /\ Prefetch(e, rec) \in Evaluations(n) /\ Grows(e, Prefetch(e, rec))
        /\ Prefetch(e, rec).lookups = e.lookups /\ Prefetch(e, rec).queries = e.queries
        /\ Prefetch(e, rec).prefetched <= e.prefetched + MaxQueries
    BY <1>6, PrefetchTyped
  <2>2. \A x, y, z : Grows(x, y) /\ Grows(y, z) /\ x.lookups = y.lookups => Grows(x, z)
    BY DEF Grows
  <2> QED BY <1>6, <2>1, <2>2
<1>7. ASSUME NEW e, Begun(e)
      PROVE  /\ next(e) \in Visits(n) /\ next(e).target = v.target /\ next(e).via = v.via
             /\ next(e).top = v.top /\ next(e).stack = v.stack \cup {v.target} /\ next(e).ev = e
  BY <1>1, <1>7 DEF Visits
<1> HIDE DEF next
<1>8. PICK e : Begun(e) /\ Entered(n, v) = next(e)
  BY <1>2, <1>4, <1>5, <1>6
<1> QED BY <1>7, <1>8

LEMMA EnterOf ==
    ASSUME NEW n, SpfTyped(n), NEW follow \in Followers(n), NEW v \in Visits(n),
           NEW rec, rec = CHOOSE r \in n.spf[v.target] : TRUE
    PROVE  \/ /\ Enter(n, follow, v) \in Evaluations(n)
              /\ Enter(n, follow, v).lookups = v.ev.lookups
              /\ Enter(n, follow, v).queries = v.ev.queries + 1
              /\ Enter(n, follow, v).prefetched = v.ev.prefetched
              /\ Grows(v.ev, Enter(n, follow, v))
              /\ Enter(n, follow, v).failed \/ Enter(n, follow, v).problems # {}
           \/ /\ rec \in Seq(Terms(n)) /\ Parses(rec)
              /\ Enter(n, follow, v) = WalkOn(n, follow, Entered(n, v), rec)
<1> DEFINE asked == [v.ev EXCEPT !.queries = @ + 1]
           records == n.spf[v.target]
           failed == [asked EXCEPT !.failed = TRUE]
           voids == IF v.target \in n.otherTxt THEN asked.voids ELSE asked.voids + 1
           void == [asked EXCEPT !.voids = voids]
           result == Enter(n, follow, v)
           Fine(e) == /\ e \in Evaluations(n) /\ e.lookups = v.ev.lookups /\ e.queries = v.ev.queries + 1
                      /\ Grows(v.ev, e) /\ e.prefetched = v.ev.prefetched
<1>1. v.ev \in Evaluations(n) /\ v.target \in Domains(n) /\ v.via \in Vias(n) \cup {<<>>}
  BY VisitFields
<1>2. Fine(asked)
  BY <1>1, AskedTyped
<1>3. voids \in Nat
  <2>1. asked.voids \in Nat
    BY <1>2 DEF Evaluations
  <2> QED BY <2>1
<1>4. Fine(failed) /\ failed.failed
  <2> HIDE DEF asked
  <2>1. /\ failed \in Evaluations(n) /\ failed.lookups = asked.lookups /\ failed.queries = asked.queries
        /\ failed.prefetched = asked.prefetched
        /\ failed.problems = asked.problems /\ failed.failed
    BY <1>2 DEF Evaluations
  <2> HIDE DEF failed
  <2> QED BY <1>2, <2>1 DEF Grows
<1>5. Fine(void)
  <2> HIDE DEF asked, voids
  <2>1. /\ void \in Evaluations(n) /\ void.lookups = asked.lookups /\ void.queries = asked.queries
        /\ void.prefetched = asked.prefetched
        /\ void.problems = asked.problems /\ void.failed = asked.failed
    BY <1>2, <1>3 DEF Evaluations
  <2> HIDE DEF void
  <2> QED BY <1>2, <2>1 DEF Grows
<1>6. ASSUME NEW e, Fine(e) PROVE Fine(Problem(e, v.via)) /\ Problem(e, v.via).problems # {}
  <2>1. /\ Problem(e, v.via) \in Evaluations(n) /\ Grows(e, Problem(e, v.via))
        /\ Problem(e, v.via).lookups = e.lookups /\ Problem(e, v.via).queries = e.queries
        /\ Problem(e, v.via).prefetched = e.prefetched
        /\ v.via \in Problem(e, v.via).problems
    BY <1>1, <1>6, ProblemTyped
  <2>2. \A x, y, z : Grows(x, y) /\ Grows(y, z) /\ x.lookups = y.lookups => Grows(x, z)
    BY DEF Grows
  <2> QED BY <1>6, <2>1, <2>2
<1>7. CASE <<"TXT", v.target>> \in n.fails
  <2>1. result = failed
    BY <1>7 DEF Enter
  <2> QED BY <1>4, <2>1
<1>8. CASE <<"TXT", v.target>> \notin n.fails /\ records = {}
  <2>1. result = Problem(void, v.via)
    BY <1>8 DEF Enter
  <2> HIDE DEF void, result, asked
  <2> QED BY <1>5, <1>6, <2>1 DEF result
<1>9. CASE /\ <<"TXT", v.target>> \notin n.fails /\ records # {}
           /\ Cardinality(records) > 1 \/ ~Parses(rec)
  <2>1. result = Problem(asked, v.via)
    BY <1>9 DEF Enter
  <2> HIDE DEF result, asked
  <2> QED BY <1>2, <1>6, <2>1 DEF result
<1>10. CASE /\ <<"TXT", v.target>> \notin n.fails /\ records # {}
            /\ ~(Cardinality(records) > 1) /\ Parses(rec)
  <2>1. rec \in records
    BY <1>10
  <2>2. rec \in Seq(Terms(n))
    BY <1>1, <2>1 DEF SpfTyped
  <2>3. result = WalkOn(n, follow, Entered(n, v), rec)
    <3> DEFINE passes == ~v.top /\ Alls(rec) # {} /\ AllOf(rec).qualifier = "+"
               entered == IF passes THEN [asked EXCEPT !.permissive = Append(@, v.via)] ELSE asked
               next(e) == [v EXCEPT !.ev = e, !.stack = @ \cup {v.target}]
    <3>1. result = Walk(n, follow, next(entered), rec)
      BY <1>10 DEF Enter
    <3>2. Entered(n, v) = next(Prefetch(entered, rec))
      BY DEF Entered
    <3> HIDE DEF entered, result
    <3>3. \A e, f : next(e).ev = e /\ [next(e) EXCEPT !.ev = f] = next(f)
      BY DEF Visits
    <3>4. [next(entered) EXCEPT !.ev = Prefetch(@, rec)] = next(Prefetch(entered, rec))
      BY Zenon, <3>3
    <3> HIDE DEF next
    <3> QED BY <3>1, <3>2, <3>4, WalkBegins
  <2> QED BY <1>10, <2>2, <2>3
<1> QED BY <1>7, <1>8, <1>9, <1>10

LEMMA EnterTyped ==
    ASSUME NEW n, SpfTyped(n), NEW follow \in Followers(n), NEW v \in Visits(n)
    PROVE  Enter(n, follow, v) \in Evaluations(n)
<1>1. PICK rec : rec = CHOOSE r \in n.spf[v.target] : TRUE
  OBVIOUS
<1>2. CASE rec \in Seq(Terms(n)) /\ Parses(rec) /\ Enter(n, follow, v) = WalkOn(n, follow, Entered(n, v), rec)
  <2>1. Entered(n, v) \in Visits(n)
    BY <1>1, <1>2, EnteredTyped
  <2>2. WalkOn(n, follow, Entered(n, v), rec) \in Evaluations(n)
    BY <1>2, <2>1, WalkTyped DEF SpfTyped
  <2> QED BY <1>2, <2>2
<1> QED BY <1>1, <1>2, EnterOf

\* What becomes of a visit with so many levels left to go down.
Followed(n, F, left, v) ==
    IF v.target \in v.stack THEN Problem(v.ev, v.via)
    ELSE IF left = 0 THEN [v.ev EXCEPT !.incomplete = TRUE]
    ELSE Enter(n, F[left - 1], v)

LEMMA IncompleteTyped ==
    ASSUME NEW n, NEW ev \in Evaluations(n)
    PROVE  /\ [ev EXCEPT !.incomplete = TRUE] \in Evaluations(n)
           /\ Grows(ev, [ev EXCEPT !.incomplete = TRUE])
           /\ [ev EXCEPT !.incomplete = TRUE].lookups = ev.lookups
           /\ [ev EXCEPT !.incomplete = TRUE].queries = ev.queries
           /\ [ev EXCEPT !.incomplete = TRUE].prefetched = ev.prefetched
<1> DEFINE cut == [ev EXCEPT !.incomplete = TRUE]
<1>1. /\ cut \in Evaluations(n) /\ cut.lookups = ev.lookups /\ cut.queries = ev.queries
      /\ cut.prefetched = ev.prefetched
      /\ cut.problems = ev.problems /\ cut.failed = ev.failed /\ ev.lookups \in Nat
  BY DEF Evaluations
<1> HIDE DEF cut
<1>2. Grows(ev, cut)
  BY <1>1 DEF Grows
<1> QED BY <1>1, <1>2 DEF cut

LEMMA FollowedTyped ==
    ASSUME NEW n, SpfTyped(n), NEW F, NEW left \in Nat, left # 0 => F[left - 1] \in Followers(n),
           NEW v \in Visits(n)
    PROVE  Followed(n, F, left, v) \in Evaluations(n)
<1>1. v.ev \in Evaluations(n) /\ v.via \in Vias(n) \cup {<<>>}
  BY VisitFields
<1>2. CASE v.target \in v.stack
  BY <1>1, <1>2, ProblemTyped DEF Followed
<1>3. CASE v.target \notin v.stack /\ left = 0
  <2>1. Followed(n, F, left, v) = [v.ev EXCEPT !.incomplete = TRUE]
    BY <1>3 DEF Followed
  <2> QED BY <1>1, <2>1, IncompleteTyped
<1>4. CASE v.target \notin v.stack /\ left # 0
  BY <1>4, EnterTyped DEF Followed
<1> QED BY <1>2, <1>3, <1>4

\* The recursion of the walk is well defined.
LEMMA FollowDefined ==
    ASSUME NEW n, SpfTyped(n)
    PROVE  \A left \in Nat :
             /\ Follow(n)[left] \in Followers(n)
             /\ \A v \in Visits(n) : Follow(n)[left][v] = Followed(n, Follow(n), left, v)
<1> DEFINE V == Followers(n)
           Level(F, left) == [v \in Visits(n) |-> Followed(n, F, left, v)]
           R == CHOOSE F : F = [left \in Nat |-> Level(F, left)]
<1>1. Follow(n) = R
  BY Zenon DEF Follow, Followed
<1>2. ASSUME NEW F, NEW left \in Nat, left # 0 => F[left - 1] \in V PROVE Level(F, left) \in V
  BY <1>2, FollowedTyped DEF Followers
<1>3. \E F : F = [left \in Nat |-> Level(F, left)]
  <2> DEFINE step == [i \in Nat |-> [G \in V |-> Level([j \in Nat |-> G], i + 1)]]
             base == Level(<<>>, 0)
  <2>1. base \in V
    BY <1>2
  <2>2. step \in [Nat -> [V -> V]]
    <3>1. ASSUME NEW i \in Nat, NEW G \in V PROVE Level([j \in Nat |-> G], i + 1) \in V
      BY <1>2
    <3> HIDE DEF Level, V
    <3> QED BY <3>1
  <2>3. PICK F : Iterates(F, V, base, step)
    <3> HIDE DEF base, step, V, Level, R
    <3> QED BY <2>1, <2>2, Iteration
  <2>4. ASSUME NEW left \in Nat PROVE F[left] = Level(F, left)
    <3>1. CASE left = 0
      <4>1. Level(F, 0) = Level(<<>>, 0)
        BY DEF Followed
      <4> QED BY <3>1, <4>1, <2>3 DEF Iterates
    <3>2. CASE left # 0
      <4>1. left - 1 \in Nat /\ (left - 1) + 1 = left
        BY <3>2
      <4>2. F[left - 1] \in V
        BY <2>3, <4>1 DEF Iterates
      <4>3. F[left] = step[left - 1][F[left - 1]]
        <5> HIDE DEF step
        <5> QED BY <2>3, <4>1 DEF Iterates
      <4>4. F[left] = Level([j \in Nat |-> F[left - 1]], left)
        <5> HIDE DEF Level, V
        <5> QED BY <4>1, <4>2, <4>3
      <4>5. Level([j \in Nat |-> F[left - 1]], left) = Level(F, left)
        BY <4>1 DEF Followed
      <4> QED BY <4>4, <4>5
    <3> QED BY <3>1, <3>2
  <2>5. F = [left \in Nat |-> Level(F, left)]
    <3> HIDE DEF Level, V
    <3> QED BY <2>3, <2>4 DEF Iterates
  <2> QED BY <2>5
<1>4. R = [left \in Nat |-> Level(R, left)]
  <2> HIDE DEF Level
  <2> QED BY <1>3
<1> HIDE DEF R
<1>5. \A left \in Nat : R[left] = Level(R, left)
  <2> HIDE DEF Level
  <2> QED BY <1>4
<1>6. \A left \in Nat : R[left] \in V
  <2> DEFINE S == {left \in Nat : R[left] \in V}
  <2> HIDE DEF Level, V
  <2>1. 0 \in S
    BY <1>2, <1>5
  <2>2. ASSUME NEW left \in S PROVE left + 1 \in S
    <3>1. left + 1 \in Nat /\ (left + 1) - 1 = left /\ R[left] \in V
      BY <2>2
    <3> QED BY <3>1, <1>2, <1>5
  <2>3. S \in SUBSET Nat
    OBVIOUS
  <2>4. S = Nat
    <3> HIDE DEF S
    <3> QED BY <2>1, <2>2, <2>3, Induction
  <2> QED BY <2>4
<1>7. ASSUME NEW left \in Nat, NEW v \in Visits(n)
      PROVE  R[left][v] = Followed(n, R, left, v)
  BY <1>5
<1> QED BY <1>1, <1>6, <1>7

-----------------------------------------------------------------------------
(* The caps on the work *)

Within(ev, lookups, queries) == ev.lookups <= lookups /\ ev.queries <= queries

\* What an include and a redirect pass on: one lookup more, and no query.
LEMMA IncludePasses ==
    ASSUME NEW n, NEW v, NEW ev \in Evaluations(n), NEW m
    PROVE  /\ LeadsTo(v, ev, m).target = m.to
           /\ LeadsTo(v, ev, m).ev.lookups = ev.lookups + 1
           /\ LeadsTo(v, ev, m).ev.queries = ev.queries
           /\ LeadsTo(v, ev, m).ev.prefetched = ev.prefetched
           /\ Grows(ev, LeadsTo(v, ev, m).ev)
<1>1. LeadsTo(v, ev, m).ev = [ev EXCEPT !.lookups = @ + 1] /\ LeadsTo(v, ev, m).target = m.to
  BY DEF LeadsTo, Visit
<1> QED BY <1>1, CountedTyped

LEMMA RedirectPasses ==
    ASSUME NEW n, NEW v, NEW ev \in Evaluations(n), NEW to
    PROVE  /\ RedirectsTo(v, ev, to).target = to
           /\ RedirectsTo(v, ev, to).ev.lookups = ev.lookups + 1
           /\ RedirectsTo(v, ev, to).ev.queries = ev.queries
           /\ RedirectsTo(v, ev, to).ev.prefetched = ev.prefetched
           /\ Grows(ev, RedirectsTo(v, ev, to).ev)
<1>1. RedirectsTo(v, ev, to).ev = [ev EXCEPT !.lookups = @ + 1] /\ RedirectsTo(v, ev, to).target = to
  BY DEF RedirectsTo, Visit
<1> QED BY <1>1, CountedTyped

\* The caps are looked at after every mechanism, so a walk that begins within
\* them goes beyond them by what one mechanism or one redirect costs.
LEMMA WalkBounded ==
    ASSUME NEW n, SpfTyped(n), NEW follow \in Followers(n), NEW v \in Visits(n),
           NEW rec \in Seq(Terms(n)), Parses(rec),
           NEW X \in Nat, NEW Y \in Nat, NEW A \in Nat, NEW B \in Nat,
           5 * MaxLookups <= X, MaxQueries <= Y + 1, X + 1 <= A, Y + 2 <= B,
           \A x \in Visits(n) : Within(x.ev, X + 1, Y) => Within(follow[x], A, B),
           Within(v.ev, X, Y)
    PROVE  Within(WalkOn(n, follow, v, rec), A, B)
<1> DEFINE After == Mechanisms(n, follow, v, rec)
           N == Len(rec)
           Inv(e) == Within(e, A, B) /\ (~e.halted => Within(e, X, Y))
           S == {i \in 0..N : Inv(After[i])}
<1>1. /\ After \in [0..N -> Evaluations(n)]
      /\ After[0] = [v.ev EXCEPT !.halted = FALSE]
      /\ \A i \in 1..N : After[i] = Advance(n, follow, v, After[i - 1], rec[i])
  <2>1. n.mxCount \in [Domains(n) -> Nat]
    BY DEF SpfTyped
  <2> HIDE DEF After
  <2> QED BY <2>1, MechanismsDefined, SMTT(30) DEF After
<1>2. \A e \in Evaluations(n) : e.lookups \in Nat /\ e.queries \in Nat
  BY DEF Evaluations
<1>3. N \in Nat /\ MaxLookups \in Nat /\ MaxQueries \in Nat
  BY SpfAssumption
<1>4. \A e \in Evaluations(n) : Within(e, X, Y) => Within(e, A, B)
  BY <1>2 DEF Within
<1>5. 0 \in S
  <2>1. v.ev \in Evaluations(n)
    BY VisitFields
  <2>2. After[0] \in Evaluations(n) /\ After[0].lookups = v.ev.lookups /\ After[0].queries = v.ev.queries
    BY <1>1, <2>1, RestartedTyped
  <2>3. Within(After[0], X, Y)
    BY <2>2 DEF Within
  <2> QED BY <1>3, <1>4, <2>2, <2>3
<1> HIDE DEF After, N
<1>6. ASSUME NEW i \in 1..N, i - 1 \in S PROVE i \in S
  <2> DEFINE ev == After[i - 1]
             m == rec[i]
             next == Mechanism(n, follow, v, ev, m)
  <2>1. i \in 0..N /\ i - 1 \in 0..N /\ ev \in Evaluations(n) /\ Inv(ev)
    BY <1>1, <1>3, <1>6
  <2>2. m \in Terms(n) /\ ValidTerm(m)
    BY <1>3 DEF Parses, N
  <2>3. After[i] = Advance(n, follow, v, ev, m)
    BY <1>1
  <2> HIDE DEF ev, m
  <2>4. CASE ev.halted \/ ev.failed \/ ~CountsLookup(m)
    <3>1. After[i] = ev
      BY <2>3, <2>4 DEF Advance
    <3> QED BY <2>1, <3>1
  <2>5. CASE ~(ev.halted \/ ev.failed \/ ~CountsLookup(m))
    <3>1. Within(ev, X, Y)
      BY <2>1, <2>5
    <3>2. next \in Evaluations(n)
      BY <2>1, <2>2, <2>5, AdvanceTyped DEF SpfTyped
    <3>3. Within(next, A, B)
      <4>1. CASE LeadsTo(v, ev, m) \in Visits(n) /\ next = follow[LeadsTo(v, ev, m)]
        <5>1. LeadsTo(v, ev, m).ev.lookups = ev.lookups + 1 /\ LeadsTo(v, ev, m).ev.queries = ev.queries
          BY <2>1, IncludePasses
        <5>2. Within(LeadsTo(v, ev, m).ev, X + 1, Y)
          BY <1>2, <2>1, <3>1, <5>1 DEF Within
        <5> HIDE DEF next
        <5> QED BY <4>1, <5>2
      <4>2. CASE next.lookups = ev.lookups + 1 /\ next.queries <= ev.queries + 2
        <5>1. ev.lookups \in Nat /\ ev.queries \in Nat /\ next.lookups \in Nat /\ next.queries \in Nat
          BY <1>2, <2>1, <3>2
        <5>2. ev.lookups <= X /\ ev.queries <= Y
          BY <3>1 DEF Within
        <5> HIDE DEF next
        <5>3. next.lookups <= A /\ next.queries <= B
          BY <4>2, <5>1, <5>2, SMTT(30)
        <5> QED BY <5>3 DEF Within
      <4>3. n.mxCount \in [Domains(n) -> Nat] /\ CountsLookup(m)
        BY <2>5 DEF SpfTyped
      <4>4. \/ LeadsTo(v, ev, m) \in Visits(n) /\ next = follow[LeadsTo(v, ev, m)]
            \/ next.lookups = ev.lookups + 1 /\ next.queries <= ev.queries + 2
        BY ZenonT(60), <2>1, <2>2, <4>3, MechanismOf
      <4> HIDE DEF next
      <4> QED BY <4>1, <4>2, <4>4
    <3>4. Stopped(next) \in BOOLEAN
      BY DEF Stopped
    <3>5. After[i] = [next EXCEPT !.halted = Stopped(next)]
      BY <2>3, <2>5 DEF Advance
    <3>6. ~Stopped(next) => Within(next, X, Y)
      BY <1>2, <1>3, <3>2 DEF Stopped, Within
    <3> HIDE DEF next
    <3>7. /\ After[i].lookups = next.lookups /\ After[i].queries = next.queries
          /\ After[i].halted = Stopped(next)
      BY <3>2, <3>4, <3>5, HaltedTyped
    <3>8. Inv(After[i])
      BY <3>3, <3>6, <3>7 DEF Within
    <3> QED BY <2>1, <3>8
  <2> QED BY <2>4, <2>5
<1>7. N \in S
  <2>1. \A i \in 0..N : i \in S
    <3> HIDE DEF S
    <3> QED BY <1>3, <1>5, <1>6, InductionTo
  <2> QED BY <1>3, <2>1
<1> DEFINE after == After[N]
           result == WalkOn(n, follow, v, rec)
<1>8. after \in Evaluations(n) /\ Inv(after)
  BY <1>1, <1>3, <1>7
<1>9. after = Mechanisms(n, follow, v, rec)[Len(rec)]
  BY DEF After, N
<1> HIDE DEF after, result
<1>10. ASSUME result.lookups = after.lookups, result.queries = after.queries PROVE Within(result, A, B)
  BY <1>8, <1>10 DEF Within
<1>11. ASSUME ~after.halted, result = [after EXCEPT !.lookups = @ + 1] PROVE Within(result, A, B)
  <2>1. result.lookups = after.lookups + 1 /\ result.queries = after.queries
    BY <1>8, <1>11, CountedTyped
  <2> QED BY <1>2, <1>8, <1>11, <2>1 DEF Within
<1>12. ASSUME NEW to, ~after.halted, RedirectsTo(v, after, to) \in Visits(n),
              result = follow[RedirectsTo(v, after, to)]
       PROVE  Within(result, A, B)
  <2>1. RedirectsTo(v, after, to).ev.lookups = after.lookups + 1
        /\ RedirectsTo(v, after, to).ev.queries = after.queries
    BY <1>8, RedirectPasses
  <2>2. Within(RedirectsTo(v, after, to).ev, X + 1, Y)
    BY <1>2, <1>8, <1>12, <2>1 DEF Within
  <2> QED BY <1>12, <2>2
<1>13. n.mxCount \in [Domains(n) -> Nat]
  BY DEF SpfTyped
<1>14. \/ result.lookups = after.lookups /\ result.queries = after.queries
       \/ ~after.halted /\ result = [after EXCEPT !.lookups = @ + 1]
       \/ /\ ~after.halted /\ RedirectsTo(v, after, RedirectOf(rec)) \in Visits(n)
          /\ result = follow[RedirectsTo(v, after, RedirectOf(rec))]
  BY <1>9, <1>13, WalkOf DEF result
<1>15. Within(result, A, B)
  BY <1>10, <1>11, <1>12, <1>14
<1> QED BY <1>15 DEF result

\* A visit costs a lookup for each level it may go down, and two queries more.
Slack(left) == IF left = 0 THEN 0 ELSE left + 2

LEMMA FollowBounded ==
    ASSUME NEW n, SpfTyped(n)
    PROVE  \A left \in Nat : \A v \in Visits(n) : \A X, Y \in Nat :
             5 * MaxLookups <= X /\ MaxQueries <= Y + 1 /\ Within(v.ev, X, Y) =>
               Within(Follow(n)[left][v], X + left, Y + Slack(left))
<1> DEFINE Bounded(left) == \A v \in Visits(n) : \A X, Y \in Nat :
             5 * MaxLookups <= X /\ MaxQueries <= Y + 1 /\ Within(v.ev, X, Y) =>
               Within(Follow(n)[left][v], X + left, Y + Slack(left))
           S == {left \in Nat : Bounded(left)}
<1>1. ASSUME NEW left \in Nat, left # 0 => Bounded(left - 1),
             NEW v \in Visits(n), NEW X \in Nat, NEW Y \in Nat,
             5 * MaxLookups <= X, MaxQueries <= Y + 1, Within(v.ev, X, Y)
      PROVE  Within(Follow(n)[left][v], X + left, Y + Slack(left))
  <2> DEFINE result == Follow(n)[left][v]
  <2>1. v.ev \in Evaluations(n) /\ v.via \in Vias(n) \cup {<<>>}
        /\ v.ev.lookups \in Nat /\ v.ev.queries \in Nat
    BY VisitFields DEF Evaluations
  <2>2. result = Followed(n, Follow(n), left, v)
    BY FollowDefined
  <2>3. Slack(left) \in Nat
    BY DEF Slack
  <2> SUFFICES Within(result, X + left, Y + Slack(left))
    OBVIOUS
  <2> HIDE DEF result
  <2>4. CASE result.lookups = v.ev.lookups /\ result.queries = v.ev.queries
    BY <1>1, <2>1, <2>3, <2>4 DEF Within
  <2>5. CASE v.target \in v.stack
    <3>1. result = Problem(v.ev, v.via)
      BY <2>2, <2>5 DEF Followed
    <3> QED BY <2>1, <2>4, <3>1, ProblemTyped
  <2>6. CASE v.target \notin v.stack /\ left = 0
    <3>1. result = [v.ev EXCEPT !.incomplete = TRUE]
      BY <2>2, <2>6 DEF Followed
    <3> QED BY <2>1, <2>4, <3>1, IncompleteTyped
  <2>7. CASE v.target \notin v.stack /\ left # 0
    <3> DEFINE follow == Follow(n)[left - 1]
               entered == Entered(n, v)
    <3>1. left - 1 \in Nat /\ follow \in Followers(n)
      BY <2>7, FollowDefined
    <3>2. result = Enter(n, follow, v)
      BY <2>2, <2>7 DEF Followed
    <3>3. PICK rec : rec = CHOOSE r \in n.spf[v.target] : TRUE
      OBVIOUS
    <3>4. Slack(left) = left + 2 /\ Slack(left - 1) \in {left + 1, 0}
      BY <2>7 DEF Slack
    <3>5. CASE result.lookups = v.ev.lookups /\ result.queries = v.ev.queries + 1
      <4>1. v.ev.lookups <= X /\ v.ev.queries <= Y
        BY <1>1 DEF Within
      <4>2. result.lookups <= X + left /\ result.queries <= Y + (left + 2)
        BY <2>1, <3>5, <4>1
      <4> QED BY <3>4, <4>2 DEF Within
    <3>6. CASE rec \in Seq(Terms(n)) /\ Parses(rec) /\ result = WalkOn(n, follow, entered, rec)
      <4>1. entered \in Visits(n) /\ Within(entered.ev, X, Y + 1)
        <5>1. /\ entered \in Visits(n) /\ entered.ev.lookups = v.ev.lookups
              /\ entered.ev.queries = v.ev.queries + 1
          BY <3>3, <3>6, EnteredTyped
        <5> HIDE DEF entered
        <5> QED BY <1>1, <2>1, <5>1 DEF Within
      <4>2. ASSUME NEW x \in Visits(n), Within(x.ev, X + 1, Y + 1)
            PROVE  Within(follow[x], X + left, Y + Slack(left))
        <5>1. X + 1 \in Nat /\ Y + 1 \in Nat /\ 5 * MaxLookups <= X + 1 /\ MaxQueries <= (Y + 1) + 1
          BY <1>1, SpfAssumption
        <5>2. Within(follow[x], (X + 1) + (left - 1), (Y + 1) + Slack(left - 1))
          BY <1>1, <2>7, <4>2, <5>1
        <5>3. follow[x].lookups \in Nat /\ follow[x].queries \in Nat
          BY <3>1 DEF Followers, Evaluations
        <5> HIDE DEF follow
        <5> QED BY <3>4, <5>2, <5>3 DEF Within
      <4>3. /\ Y + 1 \in Nat /\ X + left \in Nat /\ Y + Slack(left) \in Nat
            /\ MaxQueries <= (Y + 1) + 1 /\ X + 1 <= X + left /\ (Y + 1) + 2 <= Y + Slack(left)
        BY <1>1, <2>3, <2>7, <3>4, SpfAssumption
      <4> HIDE DEF follow, entered
      <4> QED BY <1>1, <3>1, <3>6, <4>1, <4>2, <4>3, WalkBounded
    <3> QED BY <3>1, <3>2, <3>3, <3>5, <3>6, EnterOf
  <2> QED BY <2>5, <2>6, <2>7
<1> HIDE DEF Bounded
<1>2. 0 \in S
  BY <1>1 DEF Bounded
<1>3. ASSUME NEW left \in S PROVE left + 1 \in S
  <2>1. left + 1 \in Nat /\ (left + 1) - 1 = left /\ Bounded(left)
    BY <1>3
  <2> QED BY <1>1, <2>1 DEF Bounded
<1>4. S \in SUBSET Nat
  OBVIOUS
<1>5. S = Nat
  <2> HIDE DEF S
  <2> QED BY <1>2, <1>3, <1>4, Induction
<1> QED BY <1>5 DEF Bounded

\* The target's record, where it can be evaluated, and the walk of it.
LEMMA TheOneRecord ==
    ASSUME NEW n, SpfTyped(n), Cardinality(n.spf["self"]) = 1
    PROVE  TheRecord(n) \in Seq(Terms(n))
<1>1. n.spf["self"] # {}
  <2>1. Cardinality({}) = 0
    BY FS_EmptySet
  <2> QED BY <2>1
<1>2. TheRecord(n) \in n.spf["self"]
  BY <1>1 DEF TheRecord
<1> QED BY <1>2 DEF SpfTyped

\* The checked domain's own record, once its queries are asked ahead.
FirstVisit(n) ==
    [Visit(NothingYet, "self", <<>>, {"self"}, TRUE) EXCEPT !.ev = Prefetch(@, TheRecord(n))]

LEMMA FirstVisited ==
    ASSUME NEW n, SpfTyped(n), TheRecord(n) \in Seq(Terms(n))
    PROVE  /\ FirstVisit(n) \in Visits(n)
           /\ FirstVisit(n).ev.lookups = 0 /\ FirstVisit(n).ev.queries = 0
           /\ FirstVisit(n).ev.prefetched <= MaxQueries
<1> DEFINE begun == Prefetch(NothingYet, TheRecord(n))
<1>1. /\ NothingYet \in Evaluations(n) /\ NothingYet.lookups = 0 /\ NothingYet.queries = 0
      /\ NothingYet.prefetched = 0
  <2>1. <<>> \in Seq(Vias(n) \cup {<<>>})
    OBVIOUS
  <2> QED BY <2>1 DEF NothingYet, Evaluations
<1>2. "self" \in Domains(n)
  BY DEF SpfTyped
<1>3. /\ begun \in Evaluations(n) /\ begun.lookups = 0 /\ begun.queries = 0
      /\ begun.prefetched <= MaxQueries
  <2>1. /\ begun \in Evaluations(n) /\ begun.lookups = 0 /\ begun.queries = 0
        /\ begun.prefetched <= 0 + MaxQueries
    BY <1>1, PrefetchTyped
  <2> QED BY <2>1, SpfAssumption
<1> HIDE DEF begun
<1> DEFINE from == Visit(NothingYet, "self", <<>>, {"self"}, TRUE)
<1>4. from \in Visits(n) /\ from.ev = NothingYet
  <2>1. <<>> \in Vias(n) \cup {<<>>} /\ {"self"} \in SUBSET Domains(n) /\ TRUE \in BOOLEAN
    BY <1>2
  <2>2. from \in Visits(n)
    BY <1>1, <1>2, <2>1, VisitTyped
  <2>3. \A e, d, via, stack, top : Visit(e, d, via, stack, top).ev = e
    BY DEF Visit
  <2>4. from.ev = NothingYet
    BY ZenonT(60), <2>3
  <2> QED BY <2>2, <2>4
<1>5. FirstVisit(n) = [from EXCEPT !.ev = begun]
  <2>1. FirstVisit(n) = [from EXCEPT !.ev = Prefetch(@, TheRecord(n))]
    BY DEF FirstVisit
  <2> HIDE DEF from
  <2> QED BY Zenon, <1>4, <2>1 DEF begun
<1> HIDE DEF from
<1>6. [from EXCEPT !.ev = begun] \in Visits(n) /\ [from EXCEPT !.ev = begun].ev = begun
  BY <1>3, <1>4 DEF Visits
<1> QED BY <1>3, <1>5, <1>6

LEMMA EvaluationOf ==
    ASSUME NEW n
    PROVE  Evaluation(n) = WalkOn(n, Follow(n)[MaxDepth], FirstVisit(n), TheRecord(n))
BY WalkBegins DEF Evaluation, Evaluate, FirstVisit

LEMMA EvaluationTyped ==
    ASSUME NEW n, SpfTyped(n), Evaluated(n)
    PROVE  Evaluation(n) \in Evaluations(n)
<1>1. TheRecord(n) \in Seq(Terms(n)) /\ Parses(TheRecord(n))
  BY TheOneRecord DEF Evaluated
<1>2. Follow(n)[MaxDepth] \in Followers(n)
  BY FollowDefined, SpfAssumption
<1>3. Evaluation(n) = WalkOn(n, Follow(n)[MaxDepth], FirstVisit(n), TheRecord(n))
  BY EvaluationOf
<1>4. n.mxCount \in [Domains(n) -> Nat]
  BY DEF SpfTyped
<1> QED BY <1>1, <1>2, <1>3, <1>4, FirstVisited, WalkTyped

LEMMA WalkIsBounded ==
    ASSUME NEW n, SpfTyped(n), Evaluated(n)
    PROVE  /\ Evaluation(n).lookups <= 5 * MaxLookups + 1 + MaxDepth
           /\ Evaluation(n).queries <= MaxQueries + 1 + MaxDepth
<1> DEFINE X == 5 * MaxLookups
           Y == MaxQueries - 1
           A == 5 * MaxLookups + 1 + MaxDepth
           B == MaxQueries + 1 + MaxDepth
           follow == Follow(n)[MaxDepth]
           rec == TheRecord(n)
<1>1. /\ MaxLookups \in Nat /\ MaxDepth \in Nat /\ MaxQueries \in Nat /\ MaxDepth # 0 /\ MaxQueries # 0
      /\ X \in Nat /\ Y \in Nat /\ A \in Nat /\ B \in Nat
      /\ 5 * MaxLookups <= X /\ MaxQueries <= Y + 1 /\ X + 1 <= A /\ Y + 2 <= B
  BY SpfAssumption
<1>2. rec \in Seq(Terms(n)) /\ Parses(rec)
  BY TheOneRecord DEF Evaluated
<1>3. follow \in Followers(n)
  BY <1>1, FollowDefined
<1>4. ASSUME NEW x \in Visits(n), Within(x.ev, X + 1, Y) PROVE Within(follow[x], A, B)
  <2>1. X + 1 \in Nat /\ 5 * MaxLookups <= X + 1
    BY <1>1
  <2>2. Within(follow[x], (X + 1) + MaxDepth, Y + Slack(MaxDepth))
    <3> HIDE DEF X, Y
    <3> QED BY <1>1, <1>4, <2>1, FollowBounded
  <2>3. Slack(MaxDepth) = MaxDepth + 2
    BY <1>1 DEF Slack
  <2>4. Y + Slack(MaxDepth) = B
    BY <1>1, <2>3
  <2> QED BY <2>2, <2>4
<1>5. FirstVisit(n) \in Visits(n) /\ Within(FirstVisit(n).ev, X, Y)
  BY <1>1, <1>2, FirstVisited DEF Within
<1>6. Evaluation(n) = WalkOn(n, follow, FirstVisit(n), rec)
  BY EvaluationOf
<1> HIDE DEF X, Y, A, B, follow, rec
<1>7. Within(WalkOn(n, follow, FirstVisit(n), rec), A, B)
  BY <1>1, <1>2, <1>3, <1>4, <1>5, WalkBounded
<1>8. Within(Evaluation(n), A, B)
  BY <1>6, <1>7
<1> QED BY <1>8 DEF Within, A, B

-----------------------------------------------------------------------------
(* What a walk asks ahead *)

\* What the records so far may have asked ahead, before a visit and once it has
\* begun its walk: the visit has cost a lookup.
Spared(ev) == ev.prefetched <= MaxQueries * ev.lookups
Sparing(ev) == ev.prefetched <= MaxQueries * (ev.lookups + 1)

LEMMA AfterALookup ==
    ASSUME NEW n, NEW ev \in Evaluations(n), NEW next \in Evaluations(n), Sparing(ev),
           next.lookups = ev.lookups + 1, next.prefetched = ev.prefetched
    PROVE  Spared(next) /\ Sparing(next)
<1>1. ev.lookups \in Nat /\ ev.prefetched \in Nat /\ MaxQueries \in Nat
  BY SpfAssumption DEF Evaluations
<1> DEFINE k == ev.lookups + 1
<1>2. k \in Nat /\ next.lookups = k
  BY <1>1
<1>3. ev.prefetched <= MaxQueries * k
  BY DEF Sparing
<1> HIDE DEF k
<1>4. MaxQueries * (k + 1) = MaxQueries * k + MaxQueries /\ MaxQueries * k \in Nat
  BY <1>1, <1>2
<1>5. ev.prefetched <= MaxQueries * (k + 1)
  BY <1>1, <1>3, <1>4
<1> QED BY <1>2, <1>3, <1>5 DEF Spared, Sparing

LEMMA AfterAPrefetch ==
    ASSUME NEW n, NEW ev \in Evaluations(n), NEW next \in Evaluations(n), Spared(ev),
           next.lookups = ev.lookups, next.prefetched <= ev.prefetched + MaxQueries
    PROVE  Sparing(next)
<1>1. ev.lookups \in Nat /\ ev.prefetched \in Nat /\ next.prefetched \in Nat /\ MaxQueries \in Nat
  BY SpfAssumption DEF Evaluations
<1>2. /\ MaxQueries * (ev.lookups + 1) = MaxQueries * ev.lookups + MaxQueries
      /\ MaxQueries * ev.lookups \in Nat
  BY <1>1
<1>3. ev.prefetched <= MaxQueries * ev.lookups
  BY DEF Spared
<1>4. next.prefetched <= MaxQueries * (ev.lookups + 1)
  BY <1>1, <1>2, <1>3
<1> QED BY <1>4 DEF Sparing

LEMMA MechanismSpares ==
    ASSUME NEW n, n.mxCount \in [Domains(n) -> Nat], NEW follow \in Followers(n), NEW v \in Visits(n),
           NEW ev \in Evaluations(n), NEW m \in Terms(n), ValidTerm(m), CountsLookup(m),
           \A x \in Visits(n) : Spared(x.ev) => Sparing(follow[x]),
           Sparing(ev)
    PROVE  Sparing(Mechanism(n, follow, v, ev, m))
<1> DEFINE next == Mechanism(n, follow, v, ev, m)
           to == LeadsTo(v, ev, m)
<1>1. \/ to \in Visits(n) /\ next = follow[to]
      \/ next \in Evaluations(n) /\ next.lookups = ev.lookups + 1 /\ next.prefetched = ev.prefetched
  <2>1. PICK x, y : x = next /\ y = to
    OBVIOUS
  <2> HIDE DEF next, to
  <2> QED BY <2>1, MechanismAsks DEF next, to
<1>2. to.ev.lookups = ev.lookups + 1 /\ to.ev.prefetched = ev.prefetched
  BY IncludePasses
<1> HIDE DEF next, to
<1>3. CASE to \in Visits(n) /\ next = follow[to]
  <2>1. to.ev \in Evaluations(n)
    BY <1>3, VisitFields
  <2>2. Spared(to.ev)
    BY <1>2, <2>1, AfterALookup
  <2> QED BY <1>3, <2>2 DEF next
<1>4. CASE next \in Evaluations(n) /\ next.lookups = ev.lookups + 1 /\ next.prefetched = ev.prefetched
  BY <1>4, AfterALookup DEF next
<1> QED BY <1>1, <1>3, <1>4

LEMMA WalkPrefetches ==
    ASSUME NEW n, SpfTyped(n), NEW follow \in Followers(n), NEW v \in Visits(n),
           NEW rec \in Seq(Terms(n)), Parses(rec),
           \A x \in Visits(n) : Spared(x.ev) => Sparing(follow[x]),
           Sparing(v.ev)
    PROVE  Sparing(WalkOn(n, follow, v, rec))
<1> DEFINE After == Mechanisms(n, follow, v, rec)
           N == Len(rec)
           S == {i \in 0..N : Sparing(After[i])}
<1>1. /\ After \in [0..N -> Evaluations(n)]
      /\ After[0] = [v.ev EXCEPT !.halted = FALSE]
      /\ \A i \in 1..N : After[i] = Advance(n, follow, v, After[i - 1], rec[i])
  <2>1. n.mxCount \in [Domains(n) -> Nat]
    BY DEF SpfTyped
  <2> HIDE DEF After
  <2> QED BY <2>1, MechanismsDefined, SMTT(30) DEF After
<1>2. N \in Nat
  OBVIOUS
<1>3. 0 \in S
  <2>1. v.ev \in Evaluations(n)
    BY VisitFields
  <2>2. After[0].lookups = v.ev.lookups /\ After[0].prefetched = v.ev.prefetched
    BY <1>1, <2>1, RestartedTyped
  <2> QED BY <1>2, <2>2 DEF Sparing
<1> HIDE DEF After, N
<1>4. ASSUME NEW i \in 1..N, i - 1 \in S PROVE i \in S
  <2> DEFINE ev == After[i - 1]
             m == rec[i]
             next == Mechanism(n, follow, v, ev, m)
  <2>1. i \in 0..N /\ i - 1 \in 0..N /\ ev \in Evaluations(n) /\ Sparing(ev)
    BY <1>1, <1>2, <1>4
  <2>2. m \in Terms(n) /\ ValidTerm(m)
    BY <1>2 DEF Parses, N
  <2>3. After[i] = Advance(n, follow, v, ev, m)
    BY <1>1
  <2> HIDE DEF ev, m
  <2>4. CASE ev.halted \/ ev.failed \/ ~CountsLookup(m)
    <3>1. After[i] = ev
      BY <2>3, <2>4 DEF Advance
    <3> QED BY <2>1, <3>1
  <2>5. CASE ~(ev.halted \/ ev.failed \/ ~CountsLookup(m))
    <3>1. next \in Evaluations(n)
      BY <2>1, <2>2, <2>5, AdvanceTyped DEF SpfTyped
    <3>2. n.mxCount \in [Domains(n) -> Nat] /\ CountsLookup(m)
      BY <2>5 DEF SpfTyped
    <3>3. Sparing(next)
      BY <2>1, <2>2, <3>2, MechanismSpares
    <3> HIDE DEF next
    <3>4. Stopped(next) \in BOOLEAN
      BY DEF Stopped
    <3>5. After[i] = [next EXCEPT !.halted = Stopped(next)]
      BY <2>3, <2>5 DEF Advance, next
    <3>6. After[i].lookups = next.lookups /\ After[i].prefetched = next.prefetched
      BY <3>1, <3>4, <3>5, HaltedTyped
    <3> QED BY <2>1, <3>3, <3>6 DEF Sparing
  <2> QED BY <2>4, <2>5
<1>5. N \in S
  <2>1. \A i \in 0..N : i \in S
    <3> HIDE DEF S
    <3> QED BY <1>2, <1>3, <1>4, InductionTo
  <2> QED BY <1>2, <2>1
<1> DEFINE after == After[N]
           result == WalkOn(n, follow, v, rec)
           counted == [after EXCEPT !.lookups = @ + 1]
           to == RedirectsTo(v, after, RedirectOf(rec))
<1>6. after \in Evaluations(n) /\ Sparing(after)
  BY <1>1, <1>2, <1>5
<1>7. after = Mechanisms(n, follow, v, rec)[Len(rec)]
  BY DEF After, N
<1> HIDE DEF after
<1>8. n.mxCount \in [Domains(n) -> Nat]
  BY DEF SpfTyped
<1>9. \/ result.lookups = after.lookups /\ result.prefetched = after.prefetched
      \/ result = counted
      \/ to \in Visits(n) /\ result = follow[to]
  BY <1>7, <1>8, WalkOf
<1>10. CASE result.lookups = after.lookups /\ result.prefetched = after.prefetched
  BY <1>6, <1>10 DEF Sparing
<1>11. CASE result = counted
  <2>1. counted \in Evaluations(n) /\ counted.lookups = after.lookups + 1 /\ counted.prefetched = after.prefetched
    BY <1>6, CountedTyped
  <2> HIDE DEF counted
  <2>2. Sparing(counted)
    BY <1>6, <2>1, AfterALookup
  <2> QED BY <1>11, <2>2
<1>12. CASE to \in Visits(n) /\ result = follow[to]
  <2>1. to.ev.lookups = after.lookups + 1 /\ to.ev.prefetched = after.prefetched
    BY <1>6, RedirectPasses
  <2>2. to.ev \in Evaluations(n)
    BY <1>12, VisitFields
  <2> HIDE DEF to
  <2>3. Spared(to.ev)
    BY <1>6, <2>1, <2>2, AfterALookup
  <2> QED BY <1>12, <2>3
<1> QED BY <1>9, <1>10, <1>11, <1>12

LEMMA FollowPrefetches ==
    ASSUME NEW n, SpfTyped(n)
    PROVE  \A left \in Nat : \A v \in Visits(n) : Spared(v.ev) => Sparing(Follow(n)[left][v])
<1> DEFINE Saves(left) == \A v \in Visits(n) : Spared(v.ev) => Sparing(Follow(n)[left][v])
           S == {left \in Nat : Saves(left)}
<1>1. ASSUME NEW left \in Nat, left # 0 => Saves(left - 1), NEW v \in Visits(n), Spared(v.ev)
      PROVE  Sparing(Follow(n)[left][v])
  <2> DEFINE result == Follow(n)[left][v]
             rec == CHOOSE r \in n.spf[v.target] : TRUE
             follow == Follow(n)[left - 1]
             entered == Entered(n, v)
  <2>1. v.ev \in Evaluations(n) /\ v.via \in Vias(n) \cup {<<>>}
    BY VisitFields
  <2>2. result = Followed(n, Follow(n), left, v)
    BY FollowDefined
  <2>3. Sparing(v.ev)
    <3>1. v.ev.prefetched <= v.ev.prefetched + MaxQueries
      BY <2>1, SpfAssumption DEF Evaluations
    <3> QED BY <1>1, <2>1, <3>1, AfterAPrefetch
  <2> HIDE DEF result, rec, entered
  <2>4. CASE result.lookups = v.ev.lookups /\ result.prefetched = v.ev.prefetched
    BY <2>3, <2>4 DEF Sparing, result
  <2>5. CASE v.target \in v.stack \/ left = 0
    <3>1. result = Problem(v.ev, v.via) \/ result = [v.ev EXCEPT !.incomplete = TRUE]
      BY <2>2, <2>5 DEF Followed
    <3>2. CASE result = Problem(v.ev, v.via)
      BY <2>1, <2>4, <3>2, ProblemTyped
    <3>3. CASE result = [v.ev EXCEPT !.incomplete = TRUE]
      BY <2>1, <2>4, <3>3, IncompleteTyped
    <3> QED BY <3>1, <3>2, <3>3
  <2>6. CASE rec \in Seq(Terms(n)) /\ Parses(rec) /\ left # 0 /\ result = WalkOn(n, follow, entered, rec)
    <3>1. /\ entered \in Visits(n) /\ entered.ev.lookups = v.ev.lookups
          /\ entered.ev.prefetched <= v.ev.prefetched + MaxQueries
      BY <2>6, EnteredTyped DEF entered, rec
    <3>2. entered.ev \in Evaluations(n)
      BY <3>1, VisitFields
    <3>3. Sparing(entered.ev)
      BY <1>1, <2>1, <3>1, <3>2, AfterAPrefetch
    <3>4. follow \in Followers(n) /\ \A x \in Visits(n) : Spared(x.ev) => Sparing(follow[x])
      <4>1. left - 1 \in Nat
        BY <2>6
      <4> QED BY <1>1, <2>6, <4>1, FollowDefined
    <3> HIDE DEF follow
    <3> QED BY <2>6, <3>1, <3>3, <3>4, WalkPrefetches DEF result
  <2>7. CASE v.target \notin v.stack /\ left # 0
    <3>1. left - 1 \in Nat /\ follow \in Followers(n)
      BY <2>7, FollowDefined
    <3>2. result = Enter(n, follow, v)
      BY <2>2, <2>7 DEF Followed
    <3> HIDE DEF follow
    <3>3. \/ result.lookups = v.ev.lookups /\ result.prefetched = v.ev.prefetched
          \/ rec \in Seq(Terms(n)) /\ Parses(rec) /\ result = WalkOn(n, follow, entered, rec)
      BY <3>1, <3>2, EnterOf DEF rec, entered
    <3> QED BY <2>4, <2>6, <2>7, <3>3 DEF follow
  <2> QED BY <2>5, <2>7
<1> HIDE DEF Saves
<1>2. 0 \in S
  BY <1>1 DEF Saves
<1>3. ASSUME NEW left \in S PROVE left + 1 \in S
  <2>1. left + 1 \in Nat /\ (left + 1) - 1 = left /\ Saves(left)
    BY <1>3
  <2> QED BY <1>1, <2>1 DEF Saves
<1>4. S \in SUBSET Nat
  OBVIOUS
<1>5. S = Nat
  <2> HIDE DEF S
  <2> QED BY <1>2, <1>3, <1>4, Induction
<1> QED BY <1>5 DEF Saves

LEMMA WalkAsksAhead ==
    ASSUME NEW n, SpfTyped(n), Evaluated(n)
    PROVE  Evaluation(n).prefetched <= MaxQueries * (Evaluation(n).lookups + 1)
<1> DEFINE follow == Follow(n)[MaxDepth]
           rec == TheRecord(n)
<1>1. rec \in Seq(Terms(n)) /\ Parses(rec)
  BY TheOneRecord DEF Evaluated
<1>2. follow \in Followers(n) /\ \A x \in Visits(n) : Spared(x.ev) => Sparing(follow[x])
  BY FollowDefined, FollowPrefetches, SpfAssumption
<1>3. FirstVisit(n) \in Visits(n) /\ Sparing(FirstVisit(n).ev)
  BY <1>1, FirstVisited, SpfAssumption DEF Sparing
<1> HIDE DEF follow, rec
<1>4. Sparing(WalkOn(n, follow, FirstVisit(n), rec))
  BY <1>1, <1>2, <1>3, WalkPrefetches
<1>5. Evaluation(n) = WalkOn(n, follow, FirstVisit(n), rec)
  BY EvaluationOf DEF follow, rec
<1> QED BY <1>4, <1>5 DEF Sparing

\* The work caps (eval.go): whatever the records include, the walk ends within a
\* few lookups and queries of its caps, and asks at most MaxQueries queries ahead
\* for the first record and for each lookup.
THEOREM WorkStaysBounded == Spec => []WorkIsBounded
<1>1. RunInv => WorkIsBounded
  <2> SUFFICES ASSUME RunInv, Ran, net.family = "spf", Evaluated(net)
               PROVE  /\ Evaluation(net).lookups <= 5 * MaxLookups + 1 + MaxDepth
                      /\ Evaluation(net).queries <= MaxQueries + 1 + MaxDepth
                      /\ Evaluation(net).prefetched <= MaxQueries * (Evaluation(net).lookups + 1)
    BY DEF WorkIsBounded
  <2>1. SpfTyped(net)
    BY RunFacts DEF IsNetwork
  <2> QED BY <2>1, WalkIsBounded, WalkAsksAhead
<1> QED BY <1>1, RunInductive, PTL

-----------------------------------------------------------------------------
(* What a receiver spends *)

Spenders(n) == [Domains(n) \X Nat -> Nat]

\* The lookups after one term of a record, with so many before it.
SpentAt(include, t, k) ==
    IF ~CountsLookup(t) \/ k > MaxLookups THEN k
    ELSE IF t.name = "include" /\ t.to # Macro THEN include[<<t.to, k + 1>>] ELSE k + 1

LEMMA SpentAtTyped ==
    ASSUME NEW n, NEW include \in Spenders(n), NEW t \in Terms(n), ValidTerm(t), NEW k \in Nat
    PROVE  SpentAt(include, t, k) \in Nat
<1>1. CASE t.name = "include" /\ t.to # Macro
  <2>1. t.to \in Domains(n)
    BY <1>1, TermNames
  <2>2. include[<<t.to, k + 1>>] \in Nat
    BY <2>1 DEF Spenders
  <2> QED BY <1>1, <2>2 DEF SpentAt
<1>2. CASE ~(t.name = "include" /\ t.to # Macro)
  BY <1>2 DEF SpentAt
<1> QED BY <1>1, <1>2

LEMMA SpendingDefined ==
    ASSUME NEW n, NEW include \in Spenders(n), NEW rec \in Seq(Terms(n)), Parses(rec), NEW spent \in Nat
    PROVE  /\ Spending(include, rec, spent) \in [0..Len(rec) -> Nat]
           /\ Spending(include, rec, spent)[0] = spent
           /\ \A i \in 1..Len(rec) : Spending(include, rec, spent)[i]
                                       = SpentAt(include, rec[i], Spending(include, rec, spent)[i - 1])
<1> DEFINE N == Len(rec)
           After(F, i) == IF i = 0 THEN spent ELSE SpentAt(include, rec[i], F[i - 1])
           R == CHOOSE F : F = [i \in 0..N |-> After(F, i)]
           step == [i \in 1..N |-> [x \in Nat |-> SpentAt(include, rec[i], x)]]
<1>1. N \in Nat
  OBVIOUS
<1>2. ASSUME NEW i \in 1..N, NEW x \in Nat PROVE SpentAt(include, rec[i], x) \in Nat
  <2>1. rec[i] \in Terms(n) /\ ValidTerm(rec[i])
    BY DEF Parses
  <2> QED BY <2>1, SpentAtTyped
<1>3. step \in [1..N -> [Nat -> Nat]]
  <2> HIDE DEF N
  <2> QED BY <1>2
<1>4. PICK G : Steps(G, N, Nat, spent, step)
  <2> HIDE DEF N, step
  <2> QED BY <1>1, <1>3, BoundedIteration
<1>5. G = [i \in 0..N |-> After(G, i)]
  <2>1. ASSUME NEW i \in 0..N PROVE G[i] = After(G, i)
    <3>1. CASE i = 0
      BY <3>1, <1>4 DEF Steps
    <3>2. CASE i # 0
      <4>1. i \in 1..N /\ i - 1 \in 0..N
        BY <3>2, <1>1
      <4>2. G[i] = step[i][G[i - 1]] /\ G[i - 1] \in Nat
        <5> HIDE DEF step
        <5> QED BY <1>4, <4>1 DEF Steps
      <4>3. G[i] = SpentAt(include, rec[i], G[i - 1])
        BY <4>1, <4>2
      <4> QED BY <3>2, <4>3
    <3> QED BY <3>1, <3>2
  <2>2. G \in [0..N -> Nat]
    BY <1>4 DEF Steps
  <2> HIDE DEF After, N
  <2> QED BY <2>1, <2>2
<1>6. R = [i \in 0..N |-> After(R, i)]
  <2> HIDE DEF After
  <2> QED BY <1>5
<1>7. Spending(include, rec, spent) = R
  BY Zenon DEF Spending, SpentAt
<1> HIDE DEF R
<1>8. R[0] = spent
  BY <1>6, <1>1
<1>9. ASSUME NEW i \in 1..N PROVE R[i] = SpentAt(include, rec[i], R[i - 1])
  <2>1. i \in 0..N /\ i # 0
    BY <1>1
  <2>2. R[i] = After(R, i)
    <3> HIDE DEF After
    <3> QED BY <1>6, <2>1
  <2> QED BY <2>1, <2>2
<1>10. R \in [0..N -> Nat]
  <2> DEFINE S == {i \in 0..N : R[i] \in Nat}
  <2>1. 0 \in S
    BY <1>1, <1>8
  <2>2. ASSUME NEW i \in 1..N, i - 1 \in S PROVE i \in S
    <3>1. i \in 0..N /\ R[i - 1] \in Nat
      BY <1>1, <2>2
    <3>2. R[i] \in Nat
      <4> HIDE DEF N
      <4> QED BY <3>1, <1>2, <1>9
    <3> QED BY <3>1, <3>2
  <2>3. \A i \in 0..N : i \in S
    <3> HIDE DEF S
    <3> QED BY <1>1, <2>1, <2>2, InductionTo
  <2>4. R = [i \in 0..N |-> R[i]]
    <3> HIDE DEF After
    <3> QED BY <1>6
  <2> QED BY <2>3, <2>4
<1> QED BY <1>7, <1>8, <1>9, <1>10

\* What a record that can be evaluated costs a receiver.
LastTerm(rec) == IF Alls(rec) = {} THEN Len(rec) ELSE FirstAll(rec)
Spent(include, rec, spent) ==
    LET after == Spending(include, rec, spent)[LastTerm(rec)]
    IN  IF Alls(rec) # {} \/ Redirects(rec) = {} \/ after > MaxLookups THEN after
        ELSE IF RedirectOf(rec) = Macro THEN after + 1 ELSE include[<<RedirectOf(rec), after + 1>>]

LEMMA LastTyped ==
    ASSUME NEW n, NEW rec \in Seq(Terms(n))
    PROVE  LastTerm(rec) \in 0..Len(rec)
<1>1. Len(rec) \in Nat /\ Len(rec) \in 0..Len(rec) /\ DOMAIN rec = 1..Len(rec)
  OBVIOUS
<1>2. Alls(rec) # {} => FirstAll(rec) \in DOMAIN rec
  BY AllNamed
<1> QED BY <1>1, <1>2 DEF LastTerm

LEMMA SpentTyped ==
    ASSUME NEW n, NEW include \in Spenders(n), NEW rec \in Seq(Terms(n)), Parses(rec), NEW k \in Nat
    PROVE  Spent(include, rec, k) \in Nat
<1> DEFINE after == Spending(include, rec, k)[LastTerm(rec)]
<1>1. after \in Nat
  BY LastTyped, SpendingDefined
<1> HIDE DEF after
<1>2. CASE Alls(rec) # {} \/ Redirects(rec) = {} \/ after > MaxLookups \/ RedirectOf(rec) = Macro
  BY <1>1, <1>2 DEF Spent, after
<1>3. CASE ~(Alls(rec) # {} \/ Redirects(rec) = {} \/ after > MaxLookups \/ RedirectOf(rec) = Macro)
  <2>1. RedirectOf(rec) \in Domains(n)
    BY <1>3, RedirectNamed
  <2>2. include[<<RedirectOf(rec), after + 1>>] \in Nat
    BY <1>1, <2>1 DEF Spenders
  <2> QED BY <1>3, <2>2 DEF Spent, after
<1> QED BY <1>2, <1>3

LEMMA SpentOnOf ==
    ASSUME NEW n, SpfTyped(n), NEW include \in Spenders(n), NEW domain \in Domains(n), NEW k \in Nat
    PROVE  \/ SpentOn(n, include, domain, k) = k
           \/ \E rec \in Seq(Terms(n)) :
                /\ Cardinality(n.spf[domain]) = 1 /\ Parses(rec)
                /\ rec = CHOOSE r \in n.spf[domain] : TRUE
                /\ SpentOn(n, include, domain, k) = Spent(include, rec, k)
<1> DEFINE rec == CHOOSE r \in n.spf[domain] : TRUE
<1>1. CASE Cardinality(n.spf[domain]) # 1 \/ ~Parses(rec) \/ k > MaxLookups
  BY <1>1 DEF SpentOn
<1>2. CASE ~(Cardinality(n.spf[domain]) # 1 \/ ~Parses(rec) \/ k > MaxLookups)
  <2>1. n.spf[domain] # {}
    <3>1. Cardinality({}) = 0
      BY FS_EmptySet
    <3> QED BY <1>2, <3>1
  <2>2. rec \in n.spf[domain]
    BY <2>1
  <2>3. rec \in Seq(Terms(n))
    BY <2>2 DEF SpfTyped
  <2>4. SpentOn(n, include, domain, k) = Spent(include, rec, k)
    BY <1>2 DEF SpentOn, Spent, LastTerm
  <2> QED BY <1>2, <2>3, <2>4
<1> QED BY <1>1, <1>2

LEMMA SpentOnTyped ==
    ASSUME NEW n, SpfTyped(n), NEW include \in Spenders(n), NEW domain \in Domains(n), NEW k \in Nat
    PROVE  SpentOn(n, include, domain, k) \in Nat
BY SpentOnOf, SpentTyped

\* A receiver that goes so many levels down.
Receiver(n) ==
    LET R[left \in Nat] == [at \in Domains(n) \X Nat |->
            IF left = 0 THEN at[2] ELSE SpentOn(n, R[left - 1], at[1], at[2])]
    IN  R

LEMMA ReceiverDefined ==
    ASSUME NEW n, SpfTyped(n)
    PROVE  /\ \A left \in Nat : Receiver(n)[left] \in Spenders(n)
           /\ \A left \in Nat, domain \in Domains(n), k \in Nat :
                Receiver(n)[left][<<domain, k>>]
                  = IF left = 0 THEN k ELSE SpentOn(n, Receiver(n)[left - 1], domain, k)
           /\ ReceiverLookups(n) = Receiver(n)[MaxLookups + 1][<<"self", 0>>]
<1> DEFINE V == Spenders(n)
           Level(F, left) == [at \in Domains(n) \X Nat |->
             IF left = 0 THEN at[2] ELSE SpentOn(n, F[left - 1], at[1], at[2])]
           R == CHOOSE F : F = [left \in Nat |-> Level(F, left)]
<1>1. Receiver(n) = R
  BY Zenon DEF Receiver
<1>0. ReceiverLookups(n) = R[MaxLookups + 1][<<"self", 0>>]
  BY Zenon DEF ReceiverLookups
<1>2. ASSUME NEW F, NEW left \in Nat, left # 0 => F[left - 1] \in V PROVE Level(F, left) \in V
  <2>1. ASSUME NEW at \in Domains(n) \X Nat
        PROVE  (IF left = 0 THEN at[2] ELSE SpentOn(n, F[left - 1], at[1], at[2])) \in Nat
    <3>1. at[1] \in Domains(n) /\ at[2] \in Nat
      OBVIOUS
    <3>2. CASE left = 0
      BY <3>1, <3>2
    <3>3. CASE left # 0
      <4>1. F[left - 1] \in V
        BY <1>2, <3>3
      <4>2. SpentOn(n, F[left - 1], at[1], at[2]) \in Nat
        BY <3>1, <4>1, SpentOnTyped
      <4> QED BY <3>3, <4>2
    <3> QED BY <3>2, <3>3
  <2> QED BY <2>1 DEF Spenders
<1>3. \E F : F = [left \in Nat |-> Level(F, left)]
  <2> DEFINE step == [i \in Nat |-> [G \in V |-> Level([j \in Nat |-> G], i + 1)]]
             base == Level(<<>>, 0)
  <2>1. base \in V
    BY <1>2
  <2>2. step \in [Nat -> [V -> V]]
    <3>1. ASSUME NEW i \in Nat, NEW G \in V PROVE Level([j \in Nat |-> G], i + 1) \in V
      <4>1. i + 1 \in Nat /\ [j \in Nat |-> G][(i + 1) - 1] = G
        OBVIOUS
      <4> HIDE DEF Level, V
      <4> QED BY <1>2, <4>1
    <3> HIDE DEF Level, V
    <3> QED BY <3>1
  <2>3. PICK F : Iterates(F, V, base, step)
    <3> HIDE DEF base, step, V, Level, R
    <3> QED BY <2>1, <2>2, Iteration
  <2>4. ASSUME NEW left \in Nat PROVE F[left] = Level(F, left)
    <3>1. CASE left = 0
      <4>1. Level(F, 0) = Level(<<>>, 0)
        OBVIOUS
      <4> QED BY <3>1, <4>1, <2>3 DEF Iterates
    <3>2. CASE left # 0
      <4>1. left - 1 \in Nat /\ (left - 1) + 1 = left
        BY <3>2
      <4>2. F[left - 1] \in V
        BY <2>3, <4>1 DEF Iterates
      <4>3. F[left] = step[left - 1][F[left - 1]]
        <5> HIDE DEF step
        <5> QED BY <2>3, <4>1 DEF Iterates
      <4>4. F[left] = Level([j \in Nat |-> F[left - 1]], left)
        <5> HIDE DEF Level, V
        <5> QED BY <4>1, <4>2, <4>3
      <4>5. Level([j \in Nat |-> F[left - 1]], left) = Level(F, left)
        BY <4>1
      <4> QED BY <4>4, <4>5
    <3> QED BY <3>1, <3>2
  <2>5. F = [left \in Nat |-> Level(F, left)]
    <3> HIDE DEF Level, V
    <3> QED BY <2>3, <2>4 DEF Iterates
  <2> QED BY <2>5
<1>4. R = [left \in Nat |-> Level(R, left)]
  <2> HIDE DEF Level
  <2> QED BY <1>3
<1> HIDE DEF R
<1>5. \A left \in Nat : R[left] = Level(R, left)
  <2> HIDE DEF Level
  <2> QED BY <1>4
<1>6. \A left \in Nat : R[left] \in V
  <2> DEFINE S == {left \in Nat : R[left] \in V}
  <2> HIDE DEF Level, V
  <2>1. 0 \in S
    BY <1>2, <1>5
  <2>2. ASSUME NEW left \in S PROVE left + 1 \in S
    <3>1. left + 1 \in Nat /\ (left + 1) - 1 = left /\ R[left] \in V
      BY <2>2
    <3> QED BY <3>1, <1>2, <1>5
  <2>3. S \in SUBSET Nat
    OBVIOUS
  <2>4. S = Nat
    <3> HIDE DEF S
    <3> QED BY <2>1, <2>2, <2>3, Induction
  <2> QED BY <2>4
<1>7. ASSUME NEW left \in Nat, NEW domain \in Domains(n), NEW k \in Nat
      PROVE  R[left][<<domain, k>>] = IF left = 0 THEN k ELSE SpentOn(n, R[left - 1], domain, k)
  <2>1. <<domain, k>> \in Domains(n) \X Nat /\ <<domain, k>>[1] = domain /\ <<domain, k>>[2] = k
    OBVIOUS
  <2>2. R[left] = Level(R, left)
    BY <1>5
  <2> QED BY <2>1, <2>2
<1> QED BY <1>0, <1>1, <1>6, <1>7

\* An evaluation that no check has anything to say of.
Healthy(ev) == ~ev.failed /\ ev.problems = {} /\ ev.lookups <= MaxLookups

\* Queries are paid for with lookups, and levels too: a visit has counted the
\* lookup that led to it, and not yet asked anything for it.
Frugal(ev) == ev.queries <= 2 * ev.lookups
Paid(ev) == ev.queries < 2 * ev.lookups
Deep(left, ev) == ev.lookups + left > MaxDepth

LEMMA GrowsThrough ==
    ASSUME NEW n, NEW x \in Evaluations(n), NEW y \in Evaluations(n), NEW z \in Evaluations(n),
           Grows(x, y), Grows(y, z)
    PROVE  Grows(x, z)
<1>1. x.lookups \in Nat /\ y.lookups \in Nat /\ z.lookups \in Nat
  BY DEF Evaluations
<1> QED BY <1>1 DEF Grows

LEMMA GrowsFrom ==
    ASSUME NEW n, NEW x \in Evaluations(n)
    PROVE  Grows(x, x)
BY DEF Grows, Evaluations

LEMMA HealthyBefore ==
    ASSUME NEW n, NEW x \in Evaluations(n), NEW y \in Evaluations(n), Grows(x, y), Healthy(y)
    PROVE  Healthy(x)
<1>1. x.lookups \in Nat /\ y.lookups \in Nat /\ MaxLookups \in Nat
  BY SpfAssumption DEF Evaluations
<1>2. x.lookups <= MaxLookups
  BY <1>1 DEF Grows, Healthy
<1>3. x.problems = {} /\ ~x.failed
  BY DEF Grows, Healthy
<1> QED BY <1>2, <1>3 DEF Healthy

\* What a walk leads to goes on from it, keeps paying for its queries, and if it
\* is healthy a receiver spends no more.
Continues(n, follow) == \A x \in Visits(n) : Paid(x.ev) => Grows(x.ev, follow[x])
Pays(n, follow) == \A x \in Visits(n) : Paid(x.ev) => Frugal(follow[x])
Covered(n, follow, left, include) ==
    \A x \in Visits(n) : Paid(x.ev) /\ Deep(left, x.ev) /\ Healthy(follow[x]) =>
      \A k \in Nat : k <= x.ev.lookups => include[<<x.target, k>>] <= follow[x].lookups

LEMMA AdvanceGrows ==
    ASSUME NEW n, SpfTyped(n), NEW follow \in Followers(n), NEW v \in Visits(n), Continues(n, follow),
           NEW ev \in Evaluations(n), Frugal(ev), NEW m \in Terms(n), ValidTerm(m)
    PROVE  Grows(ev, Advance(n, follow, v, ev, m))
<1> DEFINE next == Mechanism(n, follow, v, ev, m)
<1>1. CASE ev.halted \/ ev.failed \/ ~CountsLookup(m)
  <2>1. Advance(n, follow, v, ev, m) = ev
    BY <1>1 DEF Advance
  <2> QED BY <2>1, GrowsFrom
<1>2. CASE ~(ev.halted \/ ev.failed \/ ~CountsLookup(m))
  <2>1. next \in Evaluations(n)
    BY <1>2, AdvanceTyped DEF SpfTyped
  <2>2. Grows(ev, next)
    <3>1. CASE LeadsTo(v, ev, m) \in Visits(n) /\ next = follow[LeadsTo(v, ev, m)]
      <4>1. /\ Grows(ev, LeadsTo(v, ev, m).ev)
            /\ LeadsTo(v, ev, m).ev.lookups = ev.lookups + 1 /\ LeadsTo(v, ev, m).ev.queries = ev.queries
        BY IncludePasses
      <4>2. ev.lookups \in Nat /\ ev.queries \in Nat
        BY DEF Evaluations
      <4>3. LeadsTo(v, ev, m).ev \in Evaluations(n)
        BY <3>1, VisitFields
      <4>4. Paid(LeadsTo(v, ev, m).ev)
        BY <4>1, <4>2 DEF Paid, Frugal
      <4>5. Grows(LeadsTo(v, ev, m).ev, next)
        <5> HIDE DEF next
        <5> QED BY <3>1, <4>4 DEF Continues
      <4> HIDE DEF next
      <4> QED BY <2>1, <4>1, <4>3, <4>5, GrowsThrough
    <3>2. n.mxCount \in [Domains(n) -> Nat] /\ CountsLookup(m)
      BY <1>2 DEF SpfTyped
    <3>3. \/ LeadsTo(v, ev, m) \in Visits(n) /\ next = follow[LeadsTo(v, ev, m)]
          \/ Grows(ev, next)
      BY <3>2, MechanismOf
    <3> QED BY <3>1, <3>3
  <2>3. Stopped(next) \in BOOLEAN
    BY DEF Stopped
  <2>4. Advance(n, follow, v, ev, m) = [next EXCEPT !.halted = Stopped(next)]
    BY <1>2 DEF Advance
  <2> HIDE DEF next
  <2>5. Grows(next, [next EXCEPT !.halted = Stopped(next)])
    BY <2>1, <2>3, HaltedTyped
  <2>6. [next EXCEPT !.halted = Stopped(next)] \in Evaluations(n)
    BY <2>1, <2>3, HaltedTyped
  <2> QED BY <2>1, <2>2, <2>4, <2>5, <2>6, GrowsThrough
<1> QED BY <1>1, <1>2

\* One mechanism, in figures: it costs one lookup or more, and what it asks is
\* paid for.
LEMMA AdvanceSpends ==
    ASSUME NEW n, SpfTyped(n), NEW follow \in Followers(n), NEW v \in Visits(n), Pays(n, follow),
           NEW ev \in Evaluations(n), Frugal(ev), NEW m \in Terms(n), ValidTerm(m)
    PROVE  /\ Frugal(Advance(n, follow, v, ev, m))
           /\ Healthy(Advance(n, follow, v, ev, m)) /\ ~ev.halted => ~Advance(n, follow, v, ev, m).halted
<1> DEFINE next == Mechanism(n, follow, v, ev, m)
           result == Advance(n, follow, v, ev, m)
<1>1. CASE ev.halted \/ ev.failed \/ ~CountsLookup(m)
  BY <1>1 DEF Advance
<1>2. CASE ~(ev.halted \/ ev.failed \/ ~CountsLookup(m))
  <2>1. next \in Evaluations(n) /\ ev.lookups \in Nat /\ ev.queries \in Nat
    BY <1>2, AdvanceTyped DEF SpfTyped, Evaluations
  <2>2. next.lookups \in Nat /\ next.queries \in Nat
    BY <2>1 DEF Evaluations
  <2>3. Frugal(next)
    <3>1. CASE LeadsTo(v, ev, m) \in Visits(n) /\ next = follow[LeadsTo(v, ev, m)]
      <4>1. LeadsTo(v, ev, m).ev.lookups = ev.lookups + 1 /\ LeadsTo(v, ev, m).ev.queries = ev.queries
        BY IncludePasses
      <4>2. Paid(LeadsTo(v, ev, m).ev)
        BY <2>1, <4>1 DEF Paid, Frugal
      <4> HIDE DEF next
      <4> QED BY <3>1, <4>2 DEF Pays
    <3>2. CASE next.lookups = ev.lookups + 1 /\ next.queries <= ev.queries + 2
      <4> HIDE DEF next
      <4> QED BY <2>1, <2>2, <3>2 DEF Frugal
    <3>3. n.mxCount \in [Domains(n) -> Nat] /\ CountsLookup(m)
      BY <1>2 DEF SpfTyped
    <3>4. \/ LeadsTo(v, ev, m) \in Visits(n) /\ next = follow[LeadsTo(v, ev, m)]
          \/ next.lookups = ev.lookups + 1 /\ next.queries <= ev.queries + 2
      BY ZenonT(60), <3>3, MechanismOf
    <3> QED BY <3>1, <3>2, <3>4
  <2>4. Stopped(next) \in BOOLEAN
    BY DEF Stopped
  <2>5. result = [next EXCEPT !.halted = Stopped(next)]
    BY <1>2 DEF Advance
  <2>6. ~(next.lookups <= MaxLookups) \/ ~Stopped(next)
    BY <2>2, <2>3, SpfAssumption DEF Frugal, Stopped
  <2> HIDE DEF next, result
  <2>7. result.lookups = next.lookups /\ result.queries = next.queries /\ result.halted = Stopped(next)
    BY <2>1, <2>4, <2>5, HaltedTyped
  <2>8. Frugal(result)
    BY <2>3, <2>7 DEF Frugal
  <2>9. Healthy(result) => ~result.halted
    BY <2>6, <2>7 DEF Healthy
  <2> QED BY <2>8, <2>9 DEF result
<1> QED BY <1>1, <1>2

\* One mechanism against the same term at a receiver that has spent no more.
LEMMA AdvanceCovers ==
    ASSUME NEW n, SpfTyped(n), NEW follow \in Followers(n), NEW v \in Visits(n), Continues(n, follow),
           NEW left \in Nat, NEW include \in Spenders(n), Covered(n, follow, left, include),
           NEW ev \in Evaluations(n), Frugal(ev), Deep(left + 1, ev), ~ev.halted,
           NEW m \in Terms(n), ValidTerm(m), Healthy(Advance(n, follow, v, ev, m)),
           NEW k \in Nat, k <= ev.lookups
    PROVE  SpentAt(include, m, k) <= Advance(n, follow, v, ev, m).lookups
<1> DEFINE next == Mechanism(n, follow, v, ev, m)
           result == Advance(n, follow, v, ev, m)
<1>1. result \in Evaluations(n) /\ Grows(ev, result) /\ ev.lookups \in Nat /\ ev.queries \in Nat
  BY AdvanceTyped, AdvanceGrows DEF SpfTyped, Evaluations
<1>2. Healthy(ev) /\ result.lookups \in Nat /\ ev.lookups <= result.lookups
  <2> HIDE DEF result
  <2>1. Healthy(result)
    BY DEF result
  <2> QED BY <1>1, <2>1, HealthyBefore DEF Grows, Evaluations
<1>3. CASE ~CountsLookup(m)
  <2>1. SpentAt(include, m, k) = k
    BY <1>3 DEF SpentAt
  <2> HIDE DEF result
  <2>2. k <= result.lookups
    BY <1>1, <1>2
  <2> QED BY <2>1, <2>2 DEF result
<1>4. CASE CountsLookup(m)
  <2>1. ~ev.failed
    BY <1>2 DEF Healthy
  <2>2. next \in Evaluations(n)
    BY <1>4, AdvanceTyped DEF SpfTyped
  <2>3. Stopped(next) \in BOOLEAN
    BY DEF Stopped
  <2>4. result = [next EXCEPT !.halted = Stopped(next)]
    BY <1>4, <2>1 DEF Advance
  <2>5. next.lookups \in Nat /\ result.lookups = next.lookups
    <3> HIDE DEF next, result
    <3> QED BY <2>2, <2>3, <2>4, HaltedTyped DEF Evaluations
  <2>6. Healthy(next)
    <3>1. Healthy(result)
      OBVIOUS
    <3> HIDE DEF next, result
    <3>2. Grows(next, result)
      BY <2>2, <2>3, <2>4, HaltedTyped
    <3> QED BY <1>1, <2>2, <3>1, <3>2, HealthyBefore
  <2>7. MaxLookups \in Nat /\ ~(k > MaxLookups)
    BY <1>1, <1>2, SpfAssumption DEF Healthy
  <2>8. CASE m.name = "include" /\ m.to # Macro
    <3> DEFINE x == LeadsTo(v, ev, m)
    <3>1. x \in Visits(n) /\ next = follow[x]
      <4>1. n.mxCount \in [Domains(n) -> Nat]
        BY DEF SpfTyped
      <4>2. m.name = "include" /\ m.to # Macro
        BY <2>8
      <4> HIDE DEF x, next
      <4> QED BY ZenonT(60), <1>4, <4>1, <4>2, MechanismOf DEF x, next
    <3>2. x.ev.lookups = ev.lookups + 1 /\ x.ev.queries = ev.queries /\ x.target = m.to
      BY IncludePasses
    <3> HIDE DEF x, next, result
    <3>3. Paid(x.ev) /\ Deep(left, x.ev)
      BY <1>1, <3>2 DEF Paid, Frugal, Deep
    <3>4. k + 1 \in Nat /\ k + 1 <= x.ev.lookups
      BY <1>1, <3>2
    <3>5. include[<<x.target, k + 1>>] <= next.lookups
      BY <2>6, <3>1, <3>3, <3>4 DEF Covered
    <3>6. SpentAt(include, m, k) = include[<<m.to, k + 1>>]
      BY <1>4, <2>7, <2>8 DEF SpentAt
    <3> QED BY <2>5, <3>2, <3>5, <3>6 DEF result
  <2>9. CASE ~(m.name = "include" /\ m.to # Macro)
    <3>1. next.lookups = ev.lookups + 1
      <4>1. n.mxCount \in [Domains(n) -> Nat]
        BY DEF SpfTyped
      <4> QED BY <1>4, <2>9, <4>1, MechanismOf
    <3>2. SpentAt(include, m, k) = k + 1
      BY <1>4, <2>7, <2>9 DEF SpentAt
    <3> HIDE DEF next, result
    <3>3. k + 1 <= result.lookups
      BY <1>1, <2>5, <3>1
    <3> QED BY <3>2, <3>3 DEF result
  <2> QED BY <2>8, <2>9
<1> QED BY <1>3, <1>4

\* The evaluations after each term: nothing is taken back, and all is paid for.
LEMMA MechanismsGrow ==
    ASSUME NEW n, SpfTyped(n), NEW follow \in Followers(n), NEW v \in Visits(n),
           Continues(n, follow), Pays(n, follow),
           NEW rec \in Seq(Terms(n)), Parses(rec), Frugal(v.ev),
           NEW After, After = Mechanisms(n, follow, v, rec)
    PROVE  /\ After \in [0..Len(rec) -> Evaluations(n)]
           /\ \A i \in 0..Len(rec) : Grows(v.ev, After[i]) /\ Frugal(After[i])
           /\ \A i \in 0..Len(rec) : Grows(After[i], After[Len(rec)])
           /\ Healthy(After[Len(rec)]) => \A i \in 0..Len(rec) : ~After[i].halted
<1> DEFINE N == Len(rec)
<1>0. n.mxCount \in [Domains(n) -> Nat]
  BY DEF SpfTyped
<1>1. /\ After \in [0..N -> Evaluations(n)]
      /\ After[0] = [v.ev EXCEPT !.halted = FALSE]
      /\ \A i \in 1..N : After[i] = Advance(n, follow, v, After[i - 1], rec[i])
  BY <1>0, MechanismsDefined
<1>2. N \in Nat
  OBVIOUS
<1>3. \A i \in 1..N : rec[i] \in Terms(n) /\ ValidTerm(rec[i]) /\ i - 1 \in 0..N /\ i \in 0..N
  BY DEF Parses
<1> HIDE DEF N
<1>4. v.ev \in Evaluations(n) /\ \A i \in 0..N : After[i] \in Evaluations(n)
  BY <1>1, VisitFields
<1>5. /\ Grows(v.ev, After[0]) /\ After[0].lookups = v.ev.lookups /\ After[0].queries = v.ev.queries
      /\ ~After[0].halted
  BY <1>1, <1>4, RestartedTyped
<1>6. \A i \in 0..N : Grows(v.ev, After[i]) /\ Frugal(After[i])
  <2> DEFINE S == {i \in 0..N : Grows(v.ev, After[i]) /\ Frugal(After[i])}
  <2>1. 0 \in S
    BY <1>2, <1>5 DEF Frugal
  <2>2. ASSUME NEW i \in 1..N, i - 1 \in S PROVE i \in S
    <3>1. Grows(v.ev, After[i - 1]) /\ Frugal(After[i - 1])
      BY <2>2
    <3>2. Grows(v.ev, After[i])
      <4>1. Grows(After[i - 1], After[i])
        BY <1>1, <1>3, <1>4, <3>1, AdvanceGrows
      <4> QED BY <1>3, <1>4, <3>1, <4>1, GrowsThrough
    <3>3. Frugal(After[i])
      BY <1>1, <1>3, <1>4, <3>1, AdvanceSpends
    <3> QED BY <1>3, <3>2, <3>3
  <2>3. \A i \in 0..N : i \in S
    <3> HIDE DEF S
    <3> QED BY <1>2, <2>1, <2>2, InductionTo
  <2> QED BY <2>3
<1>7. \A i \in 1..N : Grows(After[i - 1], After[i])
  BY <1>1, <1>3, <1>4, <1>6, AdvanceGrows
<1>8. \A i \in 0..N : Grows(After[i], After[N])
  <2> DEFINE S == {j \in 0..N : \A i \in 0..N : i <= j => Grows(After[i], After[j])}
  <2>1. 0 \in S
    BY <1>2, <1>4, GrowsFrom
  <2>2. ASSUME NEW j \in 1..N, j - 1 \in S PROVE j \in S
    <3>1. ASSUME NEW i \in 0..N, i <= j PROVE Grows(After[i], After[j])
      <4>1. CASE i = j
        BY <1>4, <4>1, GrowsFrom
      <4>2. CASE i # j
        <5>1. i <= j - 1
          BY <1>2, <3>1, <4>2
        <5>2. Grows(After[i], After[j - 1])
          BY <2>2, <5>1
        <5> QED BY <1>3, <1>4, <1>7, <5>2, GrowsThrough
      <4> QED BY <4>1, <4>2
    <3> QED BY <1>3, <3>1
  <2>3. \A j \in 0..N : j \in S
    <3> HIDE DEF S
    <3> QED BY <1>2, <2>1, <2>2, InductionTo
  <2>4. N \in S
    <3> HIDE DEF S
    <3> QED BY <1>2, <2>3
  <2>5. \A i \in 0..N : i <= N
    BY <1>2
  <2> QED BY <2>4, <2>5
<1>9. ASSUME Healthy(After[N]) PROVE \A i \in 0..N : ~After[i].halted
  <2> DEFINE S == {i \in 0..N : ~After[i].halted}
  <2>1. 0 \in S
    BY <1>2, <1>5
  <2>2. ASSUME NEW i \in 1..N, i - 1 \in S PROVE i \in S
    <3>1. ~After[i - 1].halted /\ i \in 0..N /\ i - 1 \in 0..N
      BY <1>3, <2>2
    <3>2. Healthy(After[i])
      <4>1. After[N] \in Evaluations(n)
        BY <1>2, <1>4
      <4> QED BY <1>4, <1>8, <1>9, <3>1, <4>1, HealthyBefore
    <3>3. After[i] = Advance(n, follow, v, After[i - 1], rec[i])
      BY <1>1
    <3>4. ~After[i].halted
      BY <1>3, <1>4, <1>6, <3>1, <3>2, <3>3, AdvanceSpends
    <3> QED BY <3>1, <3>4
  <2>3. \A i \in 0..N : i \in S
    <3> HIDE DEF S
    <3> QED BY <1>2, <2>1, <2>2, InductionTo
  <2> QED BY <2>3
<1> QED BY <1>1, <1>6, <1>8, <1>9 DEF N

\* A walk that ends healthy, against a receiver of the same record.
LEMMA WalkGrows ==
    ASSUME NEW n, SpfTyped(n), NEW follow \in Followers(n), NEW v \in Visits(n),
           Continues(n, follow), Pays(n, follow),
           NEW rec \in Seq(Terms(n)), Parses(rec), Frugal(v.ev)
    PROVE  /\ WalkOn(n, follow, v, rec) \in Evaluations(n)
           /\ Grows(v.ev, WalkOn(n, follow, v, rec)) /\ Frugal(WalkOn(n, follow, v, rec))
           /\ Grows(Mechanisms(n, follow, v, rec)[Len(rec)], WalkOn(n, follow, v, rec))
<1> DEFINE result == WalkOn(n, follow, v, rec)
<1>0. n.mxCount \in [Domains(n) -> Nat]
  BY DEF SpfTyped
<1>1. PICK after : after = Mechanisms(n, follow, v, rec)[Len(rec)]
  OBVIOUS
<1>2. Len(rec) \in 0..Len(rec)
  OBVIOUS
<1>3. after \in Evaluations(n) /\ Grows(v.ev, after) /\ Frugal(after)
  BY <1>1, <1>2, MechanismsGrow
<1>4. v.ev \in Evaluations(n) /\ result \in Evaluations(n)
  BY <1>0, VisitFields, WalkTyped
<1>5. ASSUME Grows(after, result), Frugal(result)
      PROVE  /\ Grows(v.ev, result) /\ Frugal(result)
             /\ Grows(Mechanisms(n, follow, v, rec)[Len(rec)], result)
  <2> HIDE DEF result
  <2> QED BY <1>1, <1>3, <1>4, <1>5, GrowsThrough
<1>6. after.lookups \in Nat /\ after.queries \in Nat
  BY <1>3 DEF Evaluations
<1>7. CASE Grows(after, result) /\ result.lookups = after.lookups /\ result.queries = after.queries
  <2>1. Frugal(result)
    <3> HIDE DEF result
    <3> QED BY <1>3, <1>7 DEF Frugal
  <2> QED BY <1>4, <1>5, <1>7, <2>1
<1>8. CASE result = [after EXCEPT !.lookups = @ + 1]
  <2>1. Grows(after, result) /\ result.lookups = after.lookups + 1 /\ result.queries = after.queries
    <3> HIDE DEF result
    <3> QED BY <1>3, <1>8, CountedTyped
  <2>2. Frugal(result)
    <3> HIDE DEF result
    <3> QED BY <1>3, <1>6, <2>1 DEF Frugal
  <2> QED BY <1>4, <1>5, <2>1, <2>2
<1>9. CASE RedirectsTo(v, after, RedirectOf(rec)) \in Visits(n)
           /\ result = follow[RedirectsTo(v, after, RedirectOf(rec))]
  <2> DEFINE x == RedirectsTo(v, after, RedirectOf(rec))
  <2>1. /\ x.ev.lookups = after.lookups + 1 /\ x.ev.queries = after.queries /\ Grows(after, x.ev)
    BY <1>3, RedirectPasses
  <2>2. x.ev \in Evaluations(n)
    BY <1>9, VisitFields
  <2> HIDE DEF x
  <2>3. Paid(x.ev)
    BY <1>3, <1>6, <2>1 DEF Paid, Frugal
  <2>4. x \in Visits(n) /\ result = follow[x]
    BY <1>9 DEF x
  <2> HIDE DEF result
  <2>5. Frugal(result)
    BY <2>3, <2>4 DEF Pays
  <2>6. Grows(x.ev, result)
    BY <2>3, <2>4 DEF Continues
  <2>7. Grows(after, result)
    BY <1>3, <1>4, <2>1, <2>2, <2>6, GrowsThrough
  <2> QED BY <1>4, <1>5, <2>5, <2>7 DEF result
<1>10. \/ Grows(after, result) /\ result.lookups = after.lookups /\ result.queries = after.queries
       \/ result = [after EXCEPT !.lookups = @ + 1]
       \/ RedirectsTo(v, after, RedirectOf(rec)) \in Visits(n)
            /\ result = follow[RedirectsTo(v, after, RedirectOf(rec))]
  BY <1>0, <1>1, WalkOf
<1> QED BY <1>7, <1>8, <1>9, <1>10

LEMMA WalkCovers ==
    ASSUME NEW n, SpfTyped(n), NEW follow \in Followers(n), NEW v \in Visits(n),
           Continues(n, follow), Pays(n, follow),
           NEW left \in Nat, NEW include \in Spenders(n), Covered(n, follow, left, include),
           NEW rec \in Seq(Terms(n)), Parses(rec), Frugal(v.ev), Deep(left + 1, v.ev),
           Healthy(WalkOn(n, follow, v, rec)), NEW k \in Nat, k <= v.ev.lookups
    PROVE  Spent(include, rec, k) <= WalkOn(n, follow, v, rec).lookups
<1> DEFINE result == WalkOn(n, follow, v, rec)
           N == Len(rec)
<1>0. n.mxCount \in [Domains(n) -> Nat]
  BY DEF SpfTyped
<1>1. PICK After : After = Mechanisms(n, follow, v, rec)
  OBVIOUS
<1>2. PICK S : S = Spending(include, rec, k)
  OBVIOUS
<1>3. /\ After \in [0..N -> Evaluations(n)]
      /\ \A i \in 0..N : Grows(v.ev, After[i]) /\ Frugal(After[i])
      /\ \A i \in 0..N : Grows(After[i], After[N])
      /\ Healthy(After[N]) => \A i \in 0..N : ~After[i].halted
  BY <1>1, MechanismsGrow
<1>4. /\ After[0] = [v.ev EXCEPT !.halted = FALSE]
      /\ \A i \in 1..N : After[i] = Advance(n, follow, v, After[i - 1], rec[i])
  BY <1>0, <1>1, MechanismsDefined
<1>5. /\ S \in [0..N -> Nat] /\ S[0] = k
      /\ \A i \in 1..N : S[i] = SpentAt(include, rec[i], S[i - 1])
  BY <1>2, SpendingDefined
<1>6. N \in Nat /\ N \in 0..N
  OBVIOUS
<1>7. \A i \in 1..N : rec[i] \in Terms(n) /\ ValidTerm(rec[i]) /\ i - 1 \in 0..N /\ i \in 0..N
  BY DEF Parses
<1>8. /\ result \in Evaluations(n) /\ Grows(After[N], result) /\ Healthy(result)
  BY <1>1, WalkGrows
<1>9. LastTerm(rec) \in 0..N
  BY LastTyped
<1>10. v.ev \in Evaluations(n) /\ \A i \in 0..N : After[i] \in Evaluations(n)
  BY <1>3, VisitFields
<1>11. After[0].lookups = v.ev.lookups
  BY <1>4, <1>10, RestartedTyped
<1> HIDE DEF N, result
<1>12. Healthy(After[N])
  BY <1>6, <1>8, <1>10, HealthyBefore
<1>13. \A i \in 0..N : Healthy(After[i]) /\ ~After[i].halted
  BY <1>3, <1>6, <1>10, <1>12, HealthyBefore
<1>14. \A i \in 0..N : Deep(left + 1, After[i]) /\ After[i].lookups \in Nat
  <2>1. ASSUME NEW i \in 0..N PROVE Deep(left + 1, After[i]) /\ After[i].lookups \in Nat
    <3>1. v.ev.lookups <= After[i].lookups
      BY <1>3 DEF Grows
    <3>2. v.ev.lookups \in Nat /\ After[i].lookups \in Nat
      BY <1>10 DEF Evaluations
    <3>3. MaxDepth \in Nat /\ v.ev.lookups + (left + 1) > MaxDepth
      BY SpfAssumption DEF Deep
    <3>4. After[i].lookups + (left + 1) > MaxDepth
      BY <3>1, <3>2, <3>3
    <3> QED BY <3>2, <3>4 DEF Deep
  <2> QED BY <2>1
<1>15. \A i \in 0..N : S[i] <= After[i].lookups
  <2> DEFINE T == {i \in 0..N : S[i] <= After[i].lookups}
  <2>1. 0 \in T
    BY <1>5, <1>6, <1>11
  <2>2. ASSUME NEW i \in 1..N, i - 1 \in T PROVE i \in T
    <3>1. i - 1 \in 0..N /\ i \in 0..N /\ rec[i] \in Terms(n) /\ ValidTerm(rec[i])
      BY <1>7
    <3>2. S[i - 1] <= After[i - 1].lookups /\ S[i - 1] \in Nat
      BY <1>5, <2>2, <3>1
    <3>3. After[i - 1] \in Evaluations(n) /\ Frugal(After[i - 1]) /\ Deep(left + 1, After[i - 1])
          /\ ~After[i - 1].halted
      BY <1>3, <1>10, <1>13, <1>14, <3>1
    <3>4. After[i] = Advance(n, follow, v, After[i - 1], rec[i]) /\ Healthy(After[i])
      BY <1>4, <1>13, <3>1
    <3>5. SpentAt(include, rec[i], S[i - 1]) <= After[i].lookups
      BY <3>1, <3>2, <3>3, <3>4, AdvanceCovers
    <3> QED BY <1>5, <3>1, <3>5
  <2>3. \A i \in 0..N : i \in T
    <3> HIDE DEF T
    <3> QED BY <1>6, <2>1, <2>2, InductionTo
  <2> QED BY <2>3
<1>16. result.lookups \in Nat /\ After[N].lookups <= result.lookups
  BY <1>8 DEF Grows, Evaluations
<1>17. S[LastTerm(rec)] <= After[N].lookups /\ S[LastTerm(rec)] \in Nat
  <2>1. After[LastTerm(rec)].lookups <= After[N].lookups
    BY <1>3, <1>9 DEF Grows
  <2> QED BY <1>5, <1>6, <1>9, <1>14, <1>15, <2>1
<1>18. CASE Alls(rec) # {} \/ Redirects(rec) = {} \/ S[LastTerm(rec)] > MaxLookups
  <2>1. Spent(include, rec, k) = S[LastTerm(rec)]
    BY <1>2, <1>18 DEF Spent
  <2>2. S[LastTerm(rec)] <= result.lookups
    BY <1>6, <1>14, <1>16, <1>17
  <2> QED BY <2>1, <2>2 DEF result
<1>19. CASE ~(Alls(rec) # {} \/ Redirects(rec) = {} \/ S[LastTerm(rec)] > MaxLookups)
  <2> DEFINE to == RedirectOf(rec)
             after == After[N]
             x == RedirectsTo(v, after, to)
  <2>1. ~after.halted /\ ~after.failed /\ after \in Evaluations(n) /\ Frugal(after) /\ Deep(left + 1, after)
        /\ after.lookups \in Nat /\ after.queries \in Nat
    <3>1. after \in Evaluations(n)
      BY <1>6, <1>10
    <3>2. after.queries \in Nat
      BY <3>1 DEF Evaluations
    <3> QED BY <1>3, <1>6, <1>12, <1>13, <1>14, <3>1, <3>2 DEF Healthy
  <2>2. after = Mechanisms(n, follow, v, rec)[Len(rec)]
    BY <1>1 DEF N
  <2>3. \/ to = Macro /\ result = [after EXCEPT !.lookups = @ + 1]
        \/ to # Macro /\ x \in Visits(n) /\ result = follow[x]
    <3> HIDE DEF after
    <3>1. \/ after.halted \/ after.failed \/ Alls(rec) # {} \/ Redirects(rec) = {}
          \/ RedirectOf(rec) = Macro /\ WalkOn(n, follow, v, rec) = [after EXCEPT !.lookups = @ + 1]
          \/ /\ RedirectOf(rec) # Macro
             /\ RedirectsTo(v, after, RedirectOf(rec)) \in Visits(n)
             /\ WalkOn(n, follow, v, rec) = follow[RedirectsTo(v, after, RedirectOf(rec))]
      BY <1>0, <2>2, WalkOf
    <3> QED BY <1>19, <2>1, <3>1 DEF result
  <2>4. S[LastTerm(rec)] <= after.lookups
    BY <1>17
  <2>5. /\ x.ev.lookups = after.lookups + 1 /\ x.ev.queries = after.queries /\ x.target = to
    <3> HIDE DEF after
    <3> QED BY <2>1, RedirectPasses
  <2> HIDE DEF after, x
  <2>6. CASE to = Macro
    <3>1. Spent(include, rec, k) = S[LastTerm(rec)] + 1
      BY <1>2, <1>19, <2>6 DEF Spent
    <3>2. result.lookups = after.lookups + 1
      BY <2>1, <2>3, <2>6, CountedTyped
    <3>3. S[LastTerm(rec)] + 1 <= result.lookups
      BY <1>17, <2>1, <2>4, <3>2
    <3> QED BY <3>1, <3>3 DEF result
  <2>7. CASE to # Macro
    <3>1. Spent(include, rec, k) = include[<<to, S[LastTerm(rec)] + 1>>]
      BY <1>2, <1>19, <2>7 DEF Spent
    <3>2. Paid(x.ev) /\ Deep(left, x.ev)
      <4>1. after.queries <= 2 * after.lookups /\ after.lookups + (left + 1) > MaxDepth /\ MaxDepth \in Nat
        BY <2>1, SpfAssumption DEF Frugal, Deep
      <4>2. x.ev.queries < 2 * x.ev.lookups /\ x.ev.lookups + left > MaxDepth
        BY <2>1, <2>5, <4>1
      <4> QED BY <4>2 DEF Paid, Deep
    <3>3. S[LastTerm(rec)] + 1 \in Nat /\ S[LastTerm(rec)] + 1 <= x.ev.lookups
      BY <1>17, <2>1, <2>4, <2>5
    <3>4. x \in Visits(n) /\ result = follow[x]
      BY <2>3, <2>7
    <3>5. include[<<x.target, S[LastTerm(rec)] + 1>>] <= result.lookups
      BY <1>8, <3>2, <3>3, <3>4 DEF Covered
    <3> QED BY <2>5, <3>1, <3>5 DEF result
  <2> QED BY <2>6, <2>7
<1> QED BY <1>18, <1>19

\* One call of follow, by what it comes to.
LEMMA FollowedOf ==
    ASSUME NEW n, SpfTyped(n), NEW left \in Nat, NEW v \in Visits(n),
           NEW rec, rec = CHOOSE r \in n.spf[v.target] : TRUE
    PROVE  /\ Follow(n)[left] \in Followers(n)
           /\ \/ /\ Follow(n)[left][v] \in Evaluations(n)
                 /\ Follow(n)[left][v].lookups = v.ev.lookups
                 /\ Follow(n)[left][v].queries <= v.ev.queries + 1
                 /\ Grows(v.ev, Follow(n)[left][v])
                 /\ \/ Follow(n)[left][v].failed \/ Follow(n)[left][v].problems # {}
                    \/ left = 0
              \/ /\ left # 0 /\ left - 1 \in Nat
                 /\ rec \in Seq(Terms(n)) /\ Parses(rec)
                 /\ Follow(n)[left][v] = WalkOn(n, Follow(n)[left - 1], Entered(n, v), rec)
<1> DEFINE result == Follow(n)[left][v]
           Fine(e) == /\ e \in Evaluations(n) /\ e.lookups = v.ev.lookups
                      /\ e.queries <= v.ev.queries + 1 /\ Grows(v.ev, e)
<1>1. Follow(n)[left] \in Followers(n) /\ result = Followed(n, Follow(n), left, v)
  BY FollowDefined
<1>2. v.ev \in Evaluations(n) /\ v.via \in Vias(n) \cup {<<>>} /\ v.ev.queries \in Nat
  BY VisitFields DEF Evaluations
<1>3. CASE v.target \in v.stack
  <2>1. result = Problem(v.ev, v.via)
    BY <1>1, <1>3 DEF Followed
  <2> HIDE DEF result
  <2>2. Fine(result) /\ v.via \in result.problems
    <3>1. /\ result \in Evaluations(n) /\ Grows(v.ev, result) /\ v.via \in result.problems
          /\ result.lookups = v.ev.lookups /\ result.queries = v.ev.queries
      BY <1>2, <2>1, ProblemTyped
    <3> QED BY <1>2, <3>1
  <2> QED BY <1>1, <2>2 DEF result
<1>4. CASE v.target \notin v.stack /\ left = 0
  <2>1. result = [v.ev EXCEPT !.incomplete = TRUE]
    BY <1>1, <1>4 DEF Followed
  <2> HIDE DEF result
  <2>2. Fine(result)
    <3>1. /\ result \in Evaluations(n) /\ Grows(v.ev, result)
          /\ result.lookups = v.ev.lookups /\ result.queries = v.ev.queries
      BY <1>2, <2>1, IncompleteTyped
    <3> QED BY <1>2, <3>1
  <2> QED BY <1>1, <1>4, <2>2 DEF result
<1>5. CASE v.target \notin v.stack /\ left # 0
  <2>1. left - 1 \in Nat /\ Follow(n)[left - 1] \in Followers(n)
    BY <1>5, FollowDefined
  <2>2. result = Enter(n, Follow(n)[left - 1], v)
    BY <1>1, <1>5 DEF Followed
  <2>3. \/ /\ result \in Evaluations(n) /\ result.lookups = v.ev.lookups
           /\ result.queries = v.ev.queries + 1 /\ Grows(v.ev, result)
           /\ result.failed \/ result.problems # {}
        \/ /\ rec \in Seq(Terms(n)) /\ Parses(rec)
           /\ result = WalkOn(n, Follow(n)[left - 1], Entered(n, v), rec)
    <3> HIDE DEF result
    <3> QED BY <2>1, <2>2, EnterOf
  <2> HIDE DEF result
  <2>4. result.queries = v.ev.queries + 1 => result.queries <= v.ev.queries + 1
    BY <1>2
  <2> QED BY <1>1, <1>5, <2>1, <2>3, <2>4 DEF result
<1> QED BY <1>3, <1>4, <1>5

LEMMA FollowGrows ==
    ASSUME NEW n, SpfTyped(n)
    PROVE  \A left \in Nat : \A v \in Visits(n) :
             Paid(v.ev) => Grows(v.ev, Follow(n)[left][v]) /\ Frugal(Follow(n)[left][v])
<1> DEFINE Going(left) == Continues(n, Follow(n)[left]) /\ Pays(n, Follow(n)[left])
           S == {left \in Nat : Going(left)}
<1>1. ASSUME NEW left \in Nat, left # 0 => Going(left - 1) PROVE Going(left)
  <2>1. ASSUME NEW v \in Visits(n), Paid(v.ev)
        PROVE  Grows(v.ev, Follow(n)[left][v]) /\ Frugal(Follow(n)[left][v])
    <3> DEFINE result == Follow(n)[left][v]
               entered == Entered(n, v)
    <3>1. PICK rec : rec = CHOOSE r \in n.spf[v.target] : TRUE
      OBVIOUS
    <3>2. v.ev \in Evaluations(n) /\ v.ev.lookups \in Nat /\ v.ev.queries \in Nat
      BY VisitFields DEF Evaluations
    <3> SUFFICES Grows(v.ev, result) /\ Frugal(result)
      OBVIOUS
    <3>3. CASE /\ result \in Evaluations(n) /\ result.lookups = v.ev.lookups
               /\ result.queries <= v.ev.queries + 1 /\ Grows(v.ev, result)
      <4> HIDE DEF result
      <4>1. result.queries \in Nat
        BY <3>3 DEF Evaluations
      <4> QED BY <2>1, <3>2, <3>3, <4>1 DEF Paid, Frugal
    <3>4. CASE /\ left # 0 /\ left - 1 \in Nat /\ rec \in Seq(Terms(n)) /\ Parses(rec)
               /\ result = WalkOn(n, Follow(n)[left - 1], entered, rec)
      <4> DEFINE follow == Follow(n)[left - 1]
      <4>1. follow \in Followers(n) /\ Continues(n, follow) /\ Pays(n, follow)
        BY <1>1, <3>4, FollowDefined
      <4>2. /\ entered \in Visits(n) /\ entered.ev.lookups = v.ev.lookups
            /\ entered.ev.queries = v.ev.queries + 1 /\ Grows(v.ev, entered.ev)
        BY <3>1, <3>4, EnteredTyped
      <4>3. result = WalkOn(n, follow, entered, rec)
        BY <3>4
      <4> HIDE DEF result, entered, follow
      <4>4. entered.ev \in Evaluations(n)
        BY <4>2, VisitFields
      <4>5. Frugal(entered.ev)
        BY <2>1, <3>2, <4>2 DEF Paid, Frugal
      <4>6. result \in Evaluations(n) /\ Grows(entered.ev, result) /\ Frugal(result)
        BY <3>4, <4>1, <4>2, <4>3, <4>5, WalkGrows
      <4> QED BY <3>2, <4>2, <4>4, <4>6, GrowsThrough
    <3> QED BY <3>1, <3>3, <3>4, FollowedOf
  <2> QED BY <2>1 DEF Continues, Pays
<1> HIDE DEF Going
<1>2. 0 \in S
  BY <1>1
<1>3. ASSUME NEW left \in S PROVE left + 1 \in S
  <2>1. left + 1 \in Nat /\ (left + 1) - 1 = left /\ Going(left)
    BY <1>3
  <2> QED BY <1>1, <2>1
<1>4. S \in SUBSET Nat
  OBVIOUS
<1>5. S = Nat
  <2> HIDE DEF S
  <2> QED BY <1>2, <1>3, <1>4, Induction
<1> QED BY <1>5 DEF Going, Continues, Pays

LEMMA HealthyFollowed ==
    ASSUME NEW n, SpfTyped(n), NEW left \in Nat, NEW v \in Visits(n), Healthy(Follow(n)[left][v]),
           NEW rec, rec = CHOOSE r \in n.spf[v.target] : TRUE
    PROVE  \/ left = 0
           \/ /\ left # 0 /\ left - 1 \in Nat
              /\ Follow(n)[left][v] = WalkOn(n, Follow(n)[left - 1], Entered(n, v), rec)
<1> DEFINE result == Follow(n)[left][v]
<1>1. ~result.failed /\ result.problems = {}
  BY DEF Healthy
<1>2. \/ result.failed \/ result.problems # {} \/ left = 0
      \/ /\ left # 0 /\ left - 1 \in Nat
         /\ result = WalkOn(n, Follow(n)[left - 1], Entered(n, v), rec)
  BY FollowedOf
<1> QED BY <1>1, <1>2

\* A healthy visit cost a receiver no more, however many levels down it goes.
LEMMA FollowCovers ==
    ASSUME NEW n, SpfTyped(n)
    PROVE  \A left \in Nat : \A fuel \in Nat : Covered(n, Follow(n)[left], left, Receiver(n)[fuel])
<1> DEFINE Going(left) == \A fuel \in Nat : Covered(n, Follow(n)[left], left, Receiver(n)[fuel])
           S == {left \in Nat : Going(left)}
<1>1. ASSUME NEW left \in Nat, left # 0 => Going(left - 1) PROVE Going(left)
  <2>1. ASSUME NEW fuel \in Nat, NEW v \in Visits(n), Paid(v.ev), Deep(left, v.ev),
               Healthy(Follow(n)[left][v]), NEW k \in Nat, k <= v.ev.lookups
        PROVE  Receiver(n)[fuel][<<v.target, k>>] <= Follow(n)[left][v].lookups
    <3> DEFINE result == Follow(n)[left][v]
               entered == Entered(n, v)
               spent == Receiver(n)[fuel][<<v.target, k>>]
    <3>1. PICK rec : rec = CHOOSE r \in n.spf[v.target] : TRUE
      OBVIOUS
    <3>2. /\ v.ev \in Evaluations(n) /\ v.ev.lookups \in Nat /\ v.ev.queries \in Nat
          /\ v.target \in Domains(n) /\ MaxLookups \in Nat /\ MaxDepth \in Nat /\ MaxLookups <= MaxDepth
      BY VisitFields, SpfAssumption DEF Evaluations
    <3>3. v.ev.lookups <= result.lookups /\ result.lookups \in Nat
      <4>1. Follow(n)[left] \in Followers(n)
        BY FollowDefined
      <4>2. result \in Evaluations(n)
        BY <4>1 DEF Followers
      <4>3. Grows(v.ev, result)
        BY <2>1, FollowGrows
      <4> HIDE DEF result
      <4> QED BY <4>2, <4>3 DEF Grows, Evaluations
    <3>4. spent = IF fuel = 0 THEN k ELSE SpentOn(n, Receiver(n)[fuel - 1], v.target, k)
      BY <3>2, ReceiverDefined
    <3> SUFFICES spent <= result.lookups
      OBVIOUS
    <3>5. Healthy(result)
      BY <2>1
    <3>6. CASE spent = k
      <4> HIDE DEF result, spent
      <4> QED BY <2>1, <3>2, <3>3, <3>6
    <3>7. CASE spent # k
      <4>1. fuel # 0 /\ fuel - 1 \in Nat
        <5> HIDE DEF spent
        <5> QED BY <3>4, <3>7
      <4> DEFINE include == Receiver(n)[fuel - 1]
      <4>2. include \in Spenders(n) /\ spent = SpentOn(n, include, v.target, k)
        <5>1. include \in Spenders(n)
          BY <4>1, ReceiverDefined
        <5> HIDE DEF spent
        <5> QED BY <3>4, <4>1, <5>1
      <4>3. rec \in Seq(Terms(n)) /\ Parses(rec) /\ spent = Spent(include, rec, k)
        <5> HIDE DEF spent, include
        <5>1. \/ SpentOn(n, include, v.target, k) = k
              \/ \E r \in Seq(Terms(n)) :
                   /\ Cardinality(n.spf[v.target]) = 1 /\ Parses(r)
                   /\ r = CHOOSE x \in n.spf[v.target] : TRUE
                   /\ SpentOn(n, include, v.target, k) = Spent(include, r, k)
          BY <3>2, <4>2, SpentOnOf
        <5> QED BY <3>1, <3>7, <4>2, <5>1
      <4>4. CASE /\ left # 0 /\ left - 1 \in Nat
                 /\ result = WalkOn(n, Follow(n)[left - 1], entered, rec)
        <5> DEFINE follow == Follow(n)[left - 1]
        <5>1. /\ follow \in Followers(n) /\ Covered(n, follow, left - 1, include)
          BY <1>1, <4>1, <4>4, FollowDefined
        <5>2. Continues(n, follow) /\ Pays(n, follow)
          BY <4>4, FollowGrows DEF Continues, Pays
        <5>3. /\ entered \in Visits(n) /\ entered.ev.lookups = v.ev.lookups
              /\ entered.ev.queries = v.ev.queries + 1
          BY <3>1, <4>3, EnteredTyped
        <5>4. result = WalkOn(n, follow, entered, rec)
          BY <4>4
        <5> HIDE DEF result, entered, follow, include, spent
        <5>5. Frugal(entered.ev) /\ Deep((left - 1) + 1, entered.ev) /\ k <= entered.ev.lookups
          BY <2>1, <3>2, <4>4, <5>3 DEF Paid, Frugal, Deep
        <5>6. Healthy(WalkOn(n, follow, entered, rec))
          BY <3>5, <5>4
        <5> QED BY <4>2, <4>3, <4>4, <5>1, <5>2, <5>3, <5>4, <5>5, <5>6, WalkCovers
      <4>5. CASE left = 0
        <5> HIDE DEF result
        <5>1. v.ev.lookups > MaxDepth
          BY <2>1, <3>2, <4>5 DEF Deep
        <5>2. result.lookups > MaxLookups
          BY <3>2, <3>3, <5>1
        <5> QED BY <3>2, <3>3, <3>5, <5>2 DEF Healthy
      <4>6. \/ left = 0
            \/ /\ left # 0 /\ left - 1 \in Nat
               /\ result = WalkOn(n, Follow(n)[left - 1], entered, rec)
        <5> HIDE DEF spent, include
        <5> QED BY <2>1, <3>1, HealthyFollowed
      <4> HIDE DEF spent, result, entered
      <4> QED BY <4>4, <4>5, <4>6
    <3> QED BY <3>6, <3>7
  <2> QED BY <2>1 DEF Covered
<1> HIDE DEF Going
<1>2. 0 \in S
  BY <1>1
<1>3. ASSUME NEW left \in S PROVE left + 1 \in S
  <2>1. left + 1 \in Nat /\ (left + 1) - 1 = left /\ Going(left)
    BY <1>3
  <2> QED BY <1>1, <2>1
<1>4. S \in SUBSET Nat
  OBVIOUS
<1>5. S = Nat
  <2> HIDE DEF S
  <2> QED BY <1>2, <1>3, <1>4, Induction
<1> QED BY <1>5 DEF Going

\* A receiver spends no more on a record than a healthy evaluation counts.
LEMMA HealthyIsCheap ==
    ASSUME NEW n, SpfTyped(n), Evaluated(n), Healthy(Evaluation(n))
    PROVE  ReceiverLookups(n) <= MaxLookups
<1> DEFINE follow == Follow(n)[MaxDepth]
           include == Receiver(n)[MaxLookups]
           rec == TheRecord(n)
           ev == Evaluation(n)
<1>1. MaxLookups \in Nat /\ MaxDepth \in Nat /\ MaxLookups + 1 \in Nat
      /\ (MaxLookups + 1) - 1 = MaxLookups /\ MaxLookups + 1 # 0
  BY SpfAssumption
<1>2. rec \in Seq(Terms(n)) /\ Parses(rec) /\ Cardinality(n.spf["self"]) = 1 /\ "self" \in Domains(n)
  BY TheOneRecord DEF Evaluated, SpfTyped
<1>3. follow \in Followers(n) /\ Covered(n, follow, MaxDepth, include)
  BY <1>1, FollowDefined, FollowCovers
<1>4. Continues(n, follow) /\ Pays(n, follow)
  BY <1>1, FollowGrows DEF Continues, Pays
<1>5. include \in Spenders(n)
  BY <1>1, ReceiverDefined
<1>6. /\ FirstVisit(n) \in Visits(n) /\ Frugal(FirstVisit(n).ev) /\ Deep(MaxDepth + 1, FirstVisit(n).ev)
      /\ 0 <= FirstVisit(n).ev.lookups
  BY <1>1, <1>2, FirstVisited DEF Frugal, Deep
<1>7. ev = WalkOn(n, follow, FirstVisit(n), rec)
  BY EvaluationOf
<1>8. ReceiverLookups(n) = SpentOn(n, include, "self", 0)
  BY <1>1, <1>2, ReceiverDefined
<1>9. TheRecord(n) = CHOOSE r \in n.spf["self"] : TRUE
  BY DEF TheRecord
<1> HIDE DEF follow, include, rec, ev
<1>10. CASE ReceiverLookups(n) = 0
  BY <1>1, <1>10
<1>11. CASE ReceiverLookups(n) = Spent(include, rec, 0)
  <2>1. Healthy(WalkOn(n, follow, FirstVisit(n), rec))
    BY <1>7 DEF ev
  <2>2. Spent(include, rec, 0) <= WalkOn(n, follow, FirstVisit(n), rec).lookups
    BY <1>1, <1>2, <1>3, <1>4, <1>5, <1>6, <2>1, WalkCovers
  <2>3. WalkOn(n, follow, FirstVisit(n), rec) \in Evaluations(n)
    BY <1>2, <1>3, <1>4, <1>6, WalkGrows
  <2>4. WalkOn(n, follow, FirstVisit(n), rec).lookups \in Nat
    BY <2>3 DEF Evaluations
  <2>5. Spent(include, rec, 0) \in Nat
    BY <1>2, <1>5, SpentTyped
  <2> QED BY <1>1, <1>11, <2>1, <2>2, <2>4, <2>5 DEF Healthy
<1>12. \/ SpentOn(n, include, "self", 0) = 0
       \/ \E r \in Seq(Terms(n)) :
            /\ Cardinality(n.spf["self"]) = 1 /\ Parses(r)
            /\ r = CHOOSE x \in n.spf["self"] : TRUE
            /\ SpentOn(n, include, "self", 0) = Spent(include, r, 0)
  BY <1>2, <1>5, SpentOnOf
<1>13. ReceiverLookups(n) = 0 \/ ReceiverLookups(n) = Spent(include, rec, 0)
  BY <1>8, <1>9, <1>12 DEF rec
<1> QED BY <1>10, <1>11, <1>13

\* A failed question, a record that does not parse, a problem in one it includes
\* or one lookup too many: each is told.
LEMMA LoadedSPF ==
    ASSUME NEW n, NEW verdict
    PROVE  \/ loadSPF(n, verdict) = Error
           \/ /\ loadSPF(n, verdict) = verdict
              /\ Evaluated(n) => ~Evaluation(n).failed
BY DEF loadSPF, loadMX, Ask

\* A record that receivers give up on after MaxLookups lookups never looks
\* healthy: it is over the limit or it cannot be evaluated (eval.go).
THEOREM LimitsAreNoticed == Spec => []LimitIsNoticed
<1>1. RunInv => LimitIsNoticed
  <2> SUFFICES ASSUME RunInv, Ran, net.family = "spf", Cardinality(net.spf["self"]) = 1,
                      ReceiverLookups(net) > MaxLookups
               PROVE  verdicts["spf_lookup_limit"] # {} \/ verdicts["spf_syntax"] # {}
    BY DEF LimitIsNoticed
  <2>1. SpfTyped(net)
    BY RunFacts DEF IsNetwork
  <2>2. verdicts["spf_lookup_limit"] = SPFLookupLimit(net) /\ verdicts["spf_syntax"] = SPFSyntax(net)
    <3>1. verdicts = MailVerdicts(net)
      BY RunFacts DEF Verdicts
    <3> QED BY <3>1 DEF MailVerdicts
  <2> DEFINE over == If(Evaluated(net) /\ Evaluation(net).lookups > MaxLookups, OnTarget)
             wrong == IF Evaluated(net) THEN {About(where) : where \in Evaluation(net).problems}
                      ELSE If(Cardinality(net.spf["self"]) = 1, OnTarget)
  <2>3. SPFLookupLimit(net) = loadSPF(net, over) /\ SPFSyntax(net) = loadSPF(net, wrong)
    BY DEF SPFLookupLimit, SPFSyntax
  <2>4. CASE loadSPF(net, over) = Error \/ loadSPF(net, wrong) = Error
    <3> HIDE DEF over, wrong
    <3> QED BY <2>2, <2>3, <2>4, ErrorAssumption
  <2>5. CASE ~(loadSPF(net, over) = Error \/ loadSPF(net, wrong) = Error)
    <3>1. /\ loadSPF(net, over) = over /\ loadSPF(net, wrong) = wrong
          /\ Evaluated(net) => ~Evaluation(net).failed
      <4> HIDE DEF over, wrong
      <4> QED BY <2>5, LoadedSPF
    <3>2. CASE ~Evaluated(net)
      <4>1. wrong # {}
        BY <3>2 DEF If
      <4> HIDE DEF over, wrong
      <4> QED BY <2>2, <2>3, <3>1, <4>1
    <3>3. CASE Evaluated(net)
      <4>1. ~Healthy(Evaluation(net))
        <5>1. ReceiverLookups(net) \in Nat
          <6>1. MaxLookups + 1 \in Nat /\ "self" \in Domains(net) /\ <<"self", 0>> \in Domains(net) \X Nat
            BY <2>1, SpfAssumption DEF SpfTyped
          <6>2. Receiver(net)[MaxLookups + 1] \in Spenders(net)
            BY <2>1, <6>1, ReceiverDefined
          <6>3. Receiver(net)[MaxLookups + 1][<<"self", 0>>] \in Nat
            BY <6>1, <6>2 DEF Spenders
          <6> QED BY <2>1, <6>3, ReceiverDefined
        <5>2. MaxLookups \in Nat
          BY SpfAssumption
        <5>3. ~(ReceiverLookups(net) <= MaxLookups)
          BY <5>1, <5>2
        <5> QED BY <2>1, <3>3, <5>3, HealthyIsCheap
      <4>2. PICK ev : ev = Evaluation(net)
        OBVIOUS
      <4>3. ev.problems # {} \/ ev.lookups > MaxLookups
        <5>1. ev \in Evaluations(net)
          BY <2>1, <3>3, <4>2, EvaluationTyped
        <5>2. ev.lookups \in Nat /\ MaxLookups \in Nat
          BY <5>1, SpfAssumption DEF Evaluations
        <5> QED BY <3>1, <3>3, <4>1, <4>2, <5>2 DEF Healthy
      <4>4. CASE ev.problems # {}
        <5>1. wrong = {About(where) : where \in ev.problems}
          BY <3>3, <4>2
        <5>2. wrong # {}
          <6> HIDE DEF wrong
          <6> QED BY <4>4, <5>1
        <5> HIDE DEF over, wrong
        <5> QED BY <2>2, <2>3, <3>1, <5>2
      <4>5. CASE ev.lookups > MaxLookups
        <5>1. over # {}
          BY <3>3, <4>2, <4>5 DEF If
        <5> HIDE DEF over, wrong
        <5> QED BY <2>2, <2>3, <3>1, <5>1
      <4> QED BY <4>3, <4>4, <4>5
    <3> QED BY <3>2, <3>3
  <2> QED BY <2>4, <2>5
<1> QED BY <1>1, RunInductive, PTL

-----------------------------------------------------------------------------
(* Failures *)

\* A verdict that is what it would be if nothing failed, or says that something did.
Honest(v, w) == v = Error \/ v = w

LEMMA HonestAsk ==
    ASSUME NEW n, NEW t, t.fails = {}, NEW q, NEW v, NEW w, q \notin n.fails => Honest(v, w)
    PROVE  Honest(Ask(n, q, v), Ask(t, q, w))
BY DEF Ask, Honest

LEMMA HonestWith ==
    ASSUME NEW l, NEW m, Honest(l, m), NEW v, NEW w, l = m /\ l # Error => Honest(v, w)
    PROVE  Honest(With(l, v), With(m, w))
BY DEF With, Honest

LEMMA HonestEach ==
    ASSUME NEW S, NEW f, NEW g, f = [i \in S |-> f[i]], g = [i \in S |-> g[i]],
           \A i \in S : Honest(f[i], g[i])
    PROVE  Honest(Each(f), Each(g))
<1>0. DOMAIN f = S /\ DOMAIN g = S
  OBVIOUS
<1>1. CASE Error \in {f[i] : i \in DOMAIN f}
  BY <1>1 DEF Each, Honest
<1>2. CASE Error \notin {f[i] : i \in DOMAIN f}
  <2>1. \A i \in DOMAIN f : f[i] = g[i]
    BY <1>0, <1>2 DEF Honest
  <2>2. {f[i] : i \in DOMAIN f} = {g[i] : i \in DOMAIN g}
    BY <1>0, <2>1
  <2>3. Each(f) = Each(g)
    BY <2>2 DEF Each
  <2> QED BY <2>3 DEF Honest
<1> QED BY <1>1, <1>2

\* What a network says besides its failures is what it says without them.
LEMMA TruthOf ==
    ASSUME NEW n, IsNetwork(n)
    PROVE  /\ Truth(n).fails = {} /\ Truth(n).family = n.family
           /\ \A f \in Fields[n.family] : f # "fails" => Truth(n)[f] = n[f]
<1>1. {"family", "fails"} \cup Fields[n.family] \subseteq DOMAIN n
  BY DEF IsNetwork
<1> QED BY <1>1 DEF Truth

\* Failures that are never taken for an answer.
LEMMA NoneTaken ==
    ASSUME NEW n, n.family # "starttls", ~TakenForAnswer(n)
    PROVE  \A q \in n.fails : q[1] \notin {"axfr", "resetProbe", "STARTTLS", "connect"}
BY DEF TakenForAnswer

-----------------------------------------------------------------------------
LEMMA NameserverHonest ==
    ASSUME NEW n, NEW t, t.fails = {}, t.apex = n.apex, t.ns = n.ns, t.axfr = n.axfr,
           t.recurses = n.recurses, \A q \in n.fails : q[1] # "axfr"
    PROVE  Honest(AxfrAllowed(n), AxfrAllowed(t)) /\ Honest(OpenResolver(n), OpenResolver(t))
<1>1. ASSUME NEW f, NEW g, Honest(Each(f), Each(g))
      PROVE  Honest(EachNameserver(n, f), EachNameserver(t, g))
  BY <1>1 DEF EachNameserver, Ask, Honest
<1>2. Honest(AxfrAllowed(n), AxfrAllowed(t))
  <2> DEFINE f == [s \in n.ns |-> Ask(n, <<"tcp", s>>, If(s \in n.axfr, About(s)))]
             g == [s \in n.ns |-> Ask(t, <<"tcp", s>>, If(s \in n.axfr, About(s)))]
  <2>1. Honest(Each(f), Each(g))
    <3>1. \A s \in n.ns : Honest(f[s], g[s])
      BY HonestAsk DEF Honest
    <3>2. f = [s \in n.ns |-> f[s]] /\ g = [s \in n.ns |-> g[s]]
      OBVIOUS
    <3> HIDE DEF f, g
    <3> QED BY <3>1, <3>2, HonestEach
  <2>2. {s \in n.axfr : <<"axfr", s>> \notin n.fails} = n.axfr
    BY DEF Honest
  <2>3. {s \in t.axfr : <<"axfr", s>> \notin t.fails} = n.axfr
    OBVIOUS
  <2>4. AxfrAllowed(n) = EachNameserver(n, f) /\ AxfrAllowed(t) = EachNameserver(t, g)
    BY <2>2, <2>3 DEF AxfrAllowed
  <2> HIDE DEF f, g
  <2> QED BY <1>1, <2>1, <2>4
<1>3. Honest(OpenResolver(n), OpenResolver(t))
  <2> DEFINE f == [s \in n.ns |-> Ask(n, <<"udp", s>>, If(s \in n.recurses, About(s)))]
             g == [s \in n.ns |-> Ask(t, <<"udp", s>>, If(s \in n.recurses, About(s)))]
  <2>1. Honest(Each(f), Each(g))
    <3>1. \A s \in n.ns : Honest(f[s], g[s])
      BY HonestAsk DEF Honest
    <3>2. f = [s \in n.ns |-> f[s]] /\ g = [s \in n.ns |-> g[s]]
      OBVIOUS
    <3> HIDE DEF f, g
    <3> QED BY <3>1, <3>2, HonestEach
  <2>2. OpenResolver(n) = EachNameserver(n, f) /\ OpenResolver(t) = EachNameserver(t, g)
    BY DEF OpenResolver
  <2> HIDE DEF f, g
  <2> QED BY <1>1, <2>1, <2>2
<1> QED BY <1>2, <1>3

LEMMA CAAHonest ==
    ASSUME NEW n, NEW t, t.fails = {}, t.caa = n.caa, DOMAIN n.caa \subseteq Nat
    PROVE  Honest(CAAMissing(n), CAAMissing(t)) /\ Honest(CAAInvalid(n), CAAInvalid(t))
<1> DEFINE levels == {i \in DOMAIN n.caa : n.caa[i] # {} \/ <<"CAA", i>> \in n.fails}
           levelsT == {i \in DOMAIN n.caa : n.caa[i] # {}}
           closest == CHOOSE i \in levels : \A j \in levels : i <= j
           closestT == CHOOSE i \in levelsT : \A j \in levelsT : i <= j
<1>1. RelevantCAA(n) = IF levels = {} THEN {} ELSE Ask(n, <<"CAA", closest>>, n.caa[closest])
  BY DEF RelevantCAA
<1>2. RelevantCAA(t) = IF levelsT = {} THEN {} ELSE n.caa[closestT]
  <2>1. {i \in DOMAIN t.caa : t.caa[i] # {} \/ <<"CAA", i>> \in t.fails} = levelsT
    OBVIOUS
  <2> QED BY <2>1 DEF RelevantCAA, Ask
<1>3. levelsT \subseteq levels /\ levels \in SUBSET Nat /\ levelsT \in SUBSET Nat
  OBVIOUS
<1>4. levels # {} => closest \in levels /\ \A j \in levels : closest <= j
  <2> HIDE DEF levels
  <2> QED BY <1>3, Least
<1>5. levelsT # {} => closestT \in levelsT /\ \A j \in levelsT : closestT <= j
  <2> HIDE DEF levelsT
  <2> QED BY <1>3, Least
<1>6. Honest(RelevantCAA(n), RelevantCAA(t))
  <2>1. CASE levels = {}
    BY <1>1, <1>2, <1>3, <2>1 DEF Honest
  <2>2. CASE levels # {} /\ <<"CAA", closest>> \in n.fails
    BY <1>1, <2>2 DEF Honest, Ask
  <2>3. CASE levels # {} /\ <<"CAA", closest>> \notin n.fails
    <3>1. closest \in levelsT
      BY <1>4, <2>3
    <3>2. closest \in Nat /\ closestT \in Nat /\ closest <= closestT /\ closestT <= closest
      <4> HIDE DEF closest, closestT, levels, levelsT
      <4> QED BY <1>3, <1>4, <1>5, <2>3, <3>1
    <3>3. closest = closestT
      <4> HIDE DEF closest, closestT
      <4> QED BY <3>2
    <3> QED BY <1>1, <1>2, <2>3, <3>1, <3>3 DEF Ask, Honest
  <2> QED BY <2>1, <2>2, <2>3
<1> HIDE DEF levels, levelsT, closest, closestT
<1> QED BY <1>6, HonestWith DEF CAAMissing, CAAInvalid, Honest

LEMMA DNSSECHonest ==
    ASSUME NEW n, NEW t, t.fails = {}, t.apex = n.apex, t.keys = n.keys, t.ds = n.ds,
           t.keySigs = n.keySigs, t.soaSigs = n.soaSigs
    PROVE  /\ Honest(DNSSECMissing(n), DNSSECMissing(t))
           /\ Honest(DNSSECInvalid(n), DNSSECInvalid(t))
           /\ Honest(DNSSECWeak(n), DNSSECWeak(t))
<1>1. validate(t) = validate(n)
  BY DEF validate
<1>2. \A v : Honest(loadDNSSEC(n, v), loadDNSSEC(t, v))
  BY DEF loadDNSSEC, Ask, Honest
<1> QED BY <1>1, <1>2 DEF DNSSECMissing, DNSSECInvalid, DNSSECWeak

LEMMA CNameHonest ==
    ASSUME NEW n, NEW t, t.fails = {}, t.cname = n.cname, CNamesTyped(n),
           \A q \in n.fails : q[1] # "connect",
           \A x \in DOMAIN n.cname : <<"cut", x>> \notin n.fails
    PROVE  /\ Honest(TakeoverPossible(n), TakeoverPossible(t))
           /\ Honest(CNAMEDangling(n), CNAMEDangling(t))
<1> DEFINE X == DOMAIN n.cname
<1>1. ASSUME NEW x \in X PROVE Honest(claimable(n, x), claimable(t, x))
  <2>1. Shows(n, x) = Shows(t, x)
    BY DEF Shows
  <2> QED BY <2>1 DEF claimable, Ask, Honest
<1>2. ASSUME NEW x \in X, n.cname[x].dangling PROVE claimable(n, x) = claimable(t, x)
  BY <1>2 DEF claimable, Ask
<1>3. ASSUME NEW f, NEW g, f = [x \in X |-> f[x]], g = [x \in X |-> g[x]], 
             \A x \in X : Honest(f[x], g[x])
      PROVE  Honest(chains(n, f), chains(t, g))
  <2> DEFINE F == [x \in X |-> Ask(n, <<"A", x>>, IF n.cname[x].targets = <<>> THEN {} ELSE f[x])]
             G == [x \in X |-> Ask(t, <<"A", x>>, IF n.cname[x].targets = <<>> THEN {} ELSE g[x])]
  <2>1. F = [x \in X |-> F[x]] /\ G = [x \in X |-> G[x]]
    OBVIOUS
  <2>2. \A x \in X : Honest(F[x], G[x])
    BY <1>3 DEF Ask, Honest
  <2>3. chains(n, f) = Each(F) /\ chains(t, g) = Each(G)
    BY DEF chains
  <2> HIDE DEF F, G
  <2> QED BY <2>1, <2>2, <2>3, HonestEach
<1>4. Honest(TakeoverPossible(n), TakeoverPossible(t))
  <2> DEFINE f == [x \in X |-> With(claimable(n, x), If(claimable(n, x), About(x)))]
             g == [x \in X |-> With(claimable(t, x), If(claimable(t, x), About(x)))]
  <2>1. \A x \in X : Honest(f[x], g[x])
    BY <1>1 DEF Honest, With
  <2>2. f = [x \in X |-> f[x]] /\ g = [x \in X |-> g[x]]
    OBVIOUS
  <2>3. TakeoverPossible(n) = chains(n, f) /\ TakeoverPossible(t) = chains(t, g)
    BY DEF TakeoverPossible
  <2> HIDE DEF f, g
  <2> QED BY <1>3, <2>1, <2>2, <2>3
<1>5. Honest(CNAMEDangling(n), CNAMEDangling(t))
  <2> DEFINE f == [x \in X |-> If(n.cname[x].dangling /\ claimable(n, x) # TRUE, About(x))]
             g == [x \in X |-> If(n.cname[x].dangling /\ claimable(t, x) # TRUE, About(x))]
  <2>1. \A x \in X : Honest(f[x], g[x])
    BY <1>2 DEF Honest, If
  <2>2. f = [x \in X |-> f[x]] /\ g = [x \in X |-> g[x]]
    OBVIOUS
  <2>3. CNAMEDangling(n) = chains(n, f) /\ CNAMEDangling(t) = chains(t, g)
    BY DEF CNAMEDangling
  <2> HIDE DEF f, g
  <2> QED BY <1>3, <2>1, <2>2, <2>3
<1> QED BY <1>4, <1>5

LEMMA MailHonest ==
    ASSUME NEW n, NEW t, t.fails = {}, t.exists = n.exists, t.mx = n.mx, NEW v, NEW w, Honest(v, w)
    PROVE  Honest(loadMX(n, v), loadMX(t, w)) /\ Honest(Inbound(n, v), Inbound(t, w))
<1>1. ASSUME NEW x, NEW y, Honest(x, y) PROVE Honest(loadMX(n, x), loadMX(t, y))
  BY <1>1 DEF loadMX, Ask, Honest
<1>2. ReceivesMail(t) = ReceivesMail(n)
  BY DEF ReceivesMail, NullMX, MXHosts
<1>3. Honest(IF ReceivesMail(n) THEN v ELSE {}, IF ReceivesMail(t) THEN w ELSE {})
  BY <1>2 DEF Honest
<1> QED BY <1>1, <1>3 DEF Inbound

LEMMA DMARCHonest ==
    ASSUME NEW n, NEW t, t.fails = {}, t.exists = n.exists, t.mx = n.mx, t.isOrg = n.isOrg,
           t.dmarc = n.dmarc, t.authorized = n.authorized
    PROVE  /\ Honest(DMARCMissing(n), DMARCMissing(t)) /\ Honest(DMARCSyntax(n), DMARCSyntax(t))
           /\ Honest(DMARCPolicyNone(n), DMARCPolicyNone(t))
           /\ Honest(DMARCNoReporting(n), DMARCNoReporting(t))
           /\ Honest(DMARCExternalAuth(n), DMARCExternalAuth(t))
<1>1. dmarcInfo(t) = dmarcInfo(n)
  BY DEF dmarcInfo
<1>2. ASSUME NEW v, NEW w, Honest(v, w) PROVE Honest(loadDMARC(n, v), loadDMARC(t, w))
  <2> DEFINE x == Ask(n, <<"_dmarc">>, IF dmarcInfo(n).at = "self" THEN v ELSE Ask(n, <<"_dmarc.org">>, v))
             y == Ask(t, <<"_dmarc">>, IF dmarcInfo(t).at = "self" THEN w ELSE Ask(t, <<"_dmarc.org">>, w))
  <2>1. Honest(x, y)
    BY <1>1, <1>2 DEF Ask, Honest
  <2> HIDE DEF x, y
  <2>2. loadDMARC(n, v) = loadMX(n, x) /\ loadDMARC(t, w) = loadMX(t, y)
    BY DEF loadDMARC, x, y
  <2> QED BY <2>1, <2>2, MailHonest
<1>3. Honest(DMARCMissing(n), DMARCMissing(t))
  BY <1>1, <1>2 DEF DMARCMissing, Honest
<1>4. Honest(DMARCSyntax(n), DMARCSyntax(t))
  BY <1>1, <1>2 DEF DMARCSyntax, Honest
<1>5. Honest(DMARCPolicyNone(n), DMARCPolicyNone(t))
  BY <1>1, <1>2 DEF DMARCPolicyNone, Honest
<1>6. Honest(DMARCNoReporting(n), DMARCNoReporting(t))
  BY <1>1, <1>2 DEF DMARCNoReporting, Honest
<1>7. Honest(DMARCExternalAuth(n), DMARCExternalAuth(t))
  <2> DEFINE info == dmarcInfo(n)
             r == info.records[1]
             outside == (ReportsTo(r, "rua") \cup ReportsTo(r, "ruf")) \ {"self", "org"}
             f == [dest \in outside |->
                     Ask(n, <<"_report", dest>>, If(<<info.at, dest>> \notin n.authorized, About(dest)))]
             g == [dest \in outside |->
                     Ask(t, <<"_report", dest>>, If(<<info.at, dest>> \notin n.authorized, About(dest)))]
  <2>1. \A x \in outside : Honest(f[x], g[x])
    BY HonestAsk DEF Honest
  <2>2. f = [x \in outside |-> f[x]] /\ g = [x \in outside |-> g[x]]
    OBVIOUS
  <2>3. DMARCExternalAuth(n) = loadDMARC(n, OfDMARC(info, Each(f)))
        /\ DMARCExternalAuth(t) = loadDMARC(t, OfDMARC(info, Each(g)))
    BY <1>1 DEF DMARCExternalAuth
  <2> HIDE DEF f, g, outside, r
  <2>4. Honest(Each(f), Each(g))
    BY <2>1, <2>2, HonestEach
  <2>5. Honest(OfDMARC(info, Each(f)), OfDMARC(info, Each(g)))
    BY <2>4 DEF OfDMARC, Honest
  <2> QED BY <1>2, <2>3, <2>5
<1> QED BY <1>3, <1>4, <1>5, <1>6, <1>7

LEMMA MTASTSHonest ==
    ASSUME NEW n, NEW t, t.fails = {}, t.exists = n.exists, t.mx = n.mx, t.sts = n.sts,
           t.policy = n.policy, t.rpt = n.rpt, <<"policy", "refused">> \notin n.fails
    PROVE  /\ Honest(MTASTSMissing(n), MTASTSMissing(t)) /\ Honest(MTASTSInvalid(n), MTASTSInvalid(t))
           /\ Honest(MTASTSTesting(n), MTASTSTesting(t)) /\ Honest(TLSRPTMissing(n), TLSRPTMissing(t))
<1>1. STSRecords(t) = STSRecords(n)
  BY DEF STSRecords
<1>2. PolicyAsked(t) = PolicyAsked(n) /\ PolicyBroken(t) = PolicyBroken(n) /\ MXHosts(t) = MXHosts(n)
  BY <1>1 DEF PolicyAsked, PolicyBroken, MXHosts
<1>3. ASSUME NEW v PROVE Honest(loadMTASTS(n, v), loadMTASTS(t, v))
  <2> DEFINE x == Ask(n, <<"_mta-sts">>, IF PolicyAsked(n) THEN Ask(n, <<"policy", "timeout">>, v) ELSE v)
             y == Ask(t, <<"_mta-sts">>, IF PolicyAsked(t) THEN Ask(t, <<"policy", "timeout">>, v) ELSE v)
  <2>1. Honest(x, y)
    BY <1>2 DEF Ask, Honest
  <2> HIDE DEF x, y
  <2>2. loadMTASTS(n, v) = Inbound(n, x) /\ loadMTASTS(t, v) = Inbound(t, y)
    BY DEF loadMTASTS, x, y
  <2> QED BY <2>1, <2>2, MailHonest
<1>4. Honest(MTASTSMissing(n), MTASTSMissing(t))
  BY <1>1, <1>3 DEF MTASTSMissing
<1>5. Honest(MTASTSInvalid(n), MTASTSInvalid(t))
  BY <1>1, <1>2, <1>3 DEF MTASTSInvalid
<1>6. Honest(MTASTSTesting(n), MTASTSTesting(t))
  BY <1>2, <1>3 DEF MTASTSTesting
<1>7. Honest(TLSRPTMissing(n), TLSRPTMissing(t))
  <2> DEFINE records == SelectSeq(n.rpt, IsTLSRPT)
             v == If(~(Len(records) = 1 /\ rptParses(records[1])), OnTarget)
  <2>1. SelectSeq(t.rpt, IsTLSRPT) = records
    OBVIOUS
  <2>2. TLSRPTMissing(n) = Inbound(n, Ask(n, <<"_smtp._tls">>, v))
        /\ TLSRPTMissing(t) = Inbound(t, Ask(t, <<"_smtp._tls">>, v))
    BY <2>1 DEF TLSRPTMissing
  <2> HIDE DEF v
  <2>3. Honest(Ask(n, <<"_smtp._tls">>, v), Ask(t, <<"_smtp._tls">>, v))
    BY DEF Ask, Honest
  <2> QED BY <2>2, <2>3, MailHonest
<1> QED BY <1>4, <1>5, <1>6, <1>7

LEMMA STARTTLSHonest ==
    ASSUME NEW n, NEW t, t.fails = {}, t.exists = n.exists, t.mx = n.mx, t.smtp = n.smtp,
           \A q \in n.fails : q[1] # "STARTTLS"
    PROVE  /\ Honest(StarttlsUnsupported(n), StarttlsUnsupported(t))
           /\ Honest(StarttlsCertInvalid(n), StarttlsCertInvalid(t))
           /\ Honest(StarttlsCertExpiring(n), StarttlsCertExpiring(t))
<1>1. MXHosts(t) = MXHosts(n)
  BY DEF MXHosts
<1>2. \A h : TLSBroken(t, h) = TLSBroken(n, h) /\ Secured(t, h) = Secured(n, h)
  BY DEF TLSBroken, Secured
<1>3. ASSUME NEW judged PROVE Honest(probeAll(n, judged), probeAll(t, judged))
  <2> DEFINE f == [h \in MXHosts(n) |-> Ask(n, <<"connect", h>>, Ask(n, <<"EHLO", h>>, judged[h]))]
             g == [h \in MXHosts(n) |-> Ask(t, <<"connect", h>>, Ask(t, <<"EHLO", h>>, judged[h]))]
  <2>1. \A h \in MXHosts(n) : Honest(f[h], g[h])
    BY DEF Ask, Honest
  <2>2. f = [x \in MXHosts(n) |-> f[x]] /\ g = [x \in MXHosts(n) |-> g[x]]
    OBVIOUS
  <2>3. probeAll(n, judged) = Inbound(n, Each(f)) /\ probeAll(t, judged) = Inbound(t, Each(g))
    BY <1>1 DEF probeAll
  <2> HIDE DEF f, g
  <2>4. Honest(Each(f), Each(g))
    BY <2>1, <2>2, HonestEach
  <2> QED BY <2>3, <2>4, MailHonest
<1>4. Honest(StarttlsUnsupported(n), StarttlsUnsupported(t))
  BY <1>1, <1>2, <1>3 DEF StarttlsUnsupported
<1>5. Honest(StarttlsCertInvalid(n), StarttlsCertInvalid(t))
  BY <1>1, <1>2, <1>3 DEF StarttlsCertInvalid
<1>6. Honest(StarttlsCertExpiring(n), StarttlsCertExpiring(t))
  BY <1>1, <1>2, <1>3 DEF StarttlsCertExpiring
<1> QED BY <1>4, <1>5, <1>6

\* No name has one family of addresses that fails and another that answers.
LEMMA AddressesHonest ==
    ASSUME NEW n, NEW t, t.fails = {}, t.addrs = n.addrs, AddressesTyped(n), HalfAnswered(n) = {},
           NEW name \in DOMAIN n.addrs
    PROVE  /\ Honest(LookupAddrs(n, name), LookupAddrs(t, name))
           /\ LookupAddrs(t, name) = n.addrs[name]
<1>1. LookupAddrs(t, name) = n.addrs[name]
  BY DEF LookupAddrs
<1>2. \A a \in n.addrs[name] : a.family \in Families
  BY DEF AddressesTyped
<1>3. CASE \E f \in Families : <<f, name>> \in n.fails
  <2>1. LookupAddrs(n, name) \in {Error, {}}
    BY <1>3 DEF HalfAnswered
  <2>2. CASE LookupAddrs(n, name) # Error
    <3>1. LookupAddrs(n, name) = {}
      BY <2>1, <2>2
    <3>2. {a \in n.addrs[name] : <<a.family, name>> \notin n.fails} # {}
      BY <1>3, <2>2 DEF LookupAddrs
    <3>3. LookupAddrs(n, name) = {a \in n.addrs[name] : <<a.family, name>> \notin n.fails}
      BY <2>2 DEF LookupAddrs
    <3> QED BY <3>1, <3>2, <3>3
  <2> QED BY <1>1, <2>2 DEF Honest
<1>4. CASE \A f \in Families : <<f, name>> \notin n.fails
  BY <1>1, <1>2, <1>4 DEF LookupAddrs, Honest
<1> QED BY <1>1, <1>3, <1>4

\* What a family of mail checks is told of a network whose MX hosts have addresses.
LEMMA MXHonest ==
    ASSUME NEW n, NEW t, t.fails = {}, t.exists = n.exists, t.mx = n.mx, t.literals = n.literals,
           t.ptr = n.ptr, t.addrs = n.addrs, t.expected = n.expected, t.zones = n.zones,
           t.refuses = n.refuses, t.lists = n.lists, MXTyped(n), HalfAnswered(n) = {}
    PROVE  /\ Honest(MXMissing(n), MXMissing(t)) /\ Honest(MXUnresolvable(n), MXUnresolvable(t))
           /\ Honest(MXUnexpected(n), MXUnexpected(t)) /\ Honest(FCrDNS(n), FCrDNS(t))
           /\ Honest(DNSBLListed(n), DNSBLListed(t))
<1> DEFINE listed == NamedMX(n)
           answered == \A h \in listed : LookupAddrs(n, h) # Error
<1>1. MXHosts(t) = MXHosts(n) /\ NamedMX(t) = listed /\ NullMX(t) = NullMX(n)
  BY DEF MXHosts, NamedMX, NullMX
<1>2. AddressesTyped(n) /\ listed \subseteq DOMAIN n.addrs
  BY DEF MXTyped
<1>3. \A x \in DOMAIN n.addrs : Honest(LookupAddrs(n, x), LookupAddrs(t, x)) /\ LookupAddrs(t, x) = n.addrs[x]
  BY <1>2, AddressesHonest
<1>4. answered => \A h \in listed : LookupAddrs(n, h) = n.addrs[h] /\ LookupAddrs(t, h) = n.addrs[h] 
  BY <1>2, <1>3 DEF Honest
<1>5. ASSUME NEW v, NEW w, answered => Honest(v, w)
      PROVE  Honest(AfterMXAddrs(n, v), AfterMXAddrs(t, w))
  <2> DEFINE x == IF \E h \in listed : LookupAddrs(n, h) = Error THEN Error ELSE v
             y == IF \E h \in listed : LookupAddrs(t, h) = Error THEN Error ELSE w
  <2>1. Honest(x, y)
    BY <1>4, <1>5 DEF Honest
  <2>2. AfterMXAddrs(n, v) = Inbound(n, x) /\ AfterMXAddrs(t, w) = Inbound(t, y)
    BY <1>1 DEF AfterMXAddrs
  <2> HIDE DEF x, y
  <2> QED BY <2>1, <2>2, MailHonest
<1>6. Honest(MXMissing(n), MXMissing(t))
  BY <1>1, MailHonest DEF MXMissing, Honest
<1>7. Honest(MXUnresolvable(n), MXUnresolvable(t))
  <2> DEFINE v == {About(h) : h \in {x \in MXHosts(n) : x \in n.literals \/ LookupAddrs(n, x) = {}}}
             w == {About(h) : h \in {x \in MXHosts(n) : x \in n.literals \/ LookupAddrs(t, x) = {}}}
  <2>1. answered => v = w
    BY <1>4 DEF NamedMX
  <2>2. MXUnresolvable(n) = AfterMXAddrs(n, v) /\ MXUnresolvable(t) = AfterMXAddrs(t, w)
    BY <1>1 DEF MXUnresolvable
  <2> HIDE DEF v, w
  <2> QED BY <1>5, <2>1, <2>2 DEF Honest
<1>8. Honest(MXUnexpected(n), MXUnexpected(t))
  BY <1>1, MailHonest DEF MXUnexpected, Honest
<1>9. Honest(FCrDNS(n), FCrDNS(t))
  <2> DEFINE C(m, a, h) == With(confirmed(m, a), If(~confirmed(m, a), About(h)))
             F == [h \in listed |-> Each([a \in LookupAddrs(n, h) |-> C(n, a, h)])]
             G == [h \in listed |-> Each([a \in LookupAddrs(t, h) |-> C(t, a, h)])]
  <2>1. FCrDNS(n) = AfterMXAddrs(n, Each(F)) /\ FCrDNS(t) = AfterMXAddrs(t, Each(G))
    BY <1>1 DEF FCrDNS
  <2>2. ASSUME NEW h \in listed, NEW a \in n.addrs[h] PROVE Honest(C(n, a, h), C(t, a, h))
    <3> DEFINE names == n.ptr[a]
               ends == {i \in DOMAIN names : LET back == LookupAddrs(n, names[i])
                                             IN  IF back = Error THEN TRUE ELSE a \in back}
               endsT == {i \in DOMAIN names : LET back == LookupAddrs(t, names[i])
                                              IN  IF back = Error THEN TRUE ELSE a \in back}
    <3>1. DOMAIN names \subseteq Nat /\ \A i \in DOMAIN names : names[i] \in DOMAIN n.addrs
      BY DEF MXTyped
    <3>2. \A i \in DOMAIN names : Honest(LookupAddrs(n, names[i]), LookupAddrs(t, names[i]))
      BY <1>3, <3>1
    <3>3. confirmed(n, a) = Ask(n, <<"PTR", a>>, IF ends = {} THEN FALSE
                                                 ELSE With(LookupAddrs(n, names[Min(ends)]), TRUE))
      BY DEF confirmed
    <3>4. confirmed(t, a) = IF endsT = {} THEN FALSE ELSE With(LookupAddrs(t, names[Min(endsT)]), TRUE)
      BY DEF confirmed, Ask
    <3>5. ends \in SUBSET Nat /\ endsT \in SUBSET Nat
      BY <3>1
    <3>6. \A S \in SUBSET Nat : S # {} => Min(S) \in S /\ \A x \in S : Min(S) <= x
      BY Least DEF Min
    <3>7. ASSUME NEW i \in DOMAIN names, LookupAddrs(n, names[i]) # Error
          PROVE  LookupAddrs(n, names[i]) = LookupAddrs(t, names[i])
      BY <3>2, <3>7 DEF Honest
    <3>8. endsT \subseteq ends \/ \E i \in DOMAIN names : LookupAddrs(t, names[i]) = Error
      BY <3>7
    <3>9. \A i \in endsT : i \in ends
      BY <3>7
    <3>10. \A i \in ends : LookupAddrs(n, names[i]) # Error => i \in endsT
      BY <3>7
    <3> HIDE DEF ends, endsT, names
    <3>11. Honest(confirmed(n, a), confirmed(t, a))
      <4>1. CASE ends = {}
        BY <3>3, <3>4, <3>9, <4>1 DEF Ask, Honest
      <4>2. CASE ends # {} /\ LookupAddrs(n, names[Min(ends)]) = Error
        BY <3>3, <4>2 DEF Ask, With, Honest
      <4>3. CASE ends # {} /\ LookupAddrs(n, names[Min(ends)]) # Error
        <5>1. Min(ends) \in ends /\ Min(ends) \in endsT
          BY <3>5, <3>6, <3>10, <4>3
        <5>2. Min(endsT) \in endsT /\ \A x \in endsT : Min(endsT) <= x
          BY <3>5, <3>6, <5>1
        <5>3. \A x \in ends : Min(ends) <= x
          BY <3>5, <3>6, <4>3
        <5>4. Min(ends) <= Min(endsT) /\ Min(endsT) <= Min(ends)
          BY <3>9, <5>1, <5>2, <5>3
        <5>5. Min(ends) \in Nat /\ Min(endsT) \in Nat
          BY <3>5, <5>1, <5>2
        <5>6. Min(endsT) = Min(ends)
          BY <5>4, <5>5
        <5>7. Min(ends) \in DOMAIN names
          BY <5>1 DEF ends
        <5>8. LookupAddrs(t, names[Min(ends)]) # Error
          BY <3>7, <4>3, <5>7
        <5> QED BY <3>3, <3>4, <4>3, <5>1, <5>6, <5>8 DEF Ask, With, Honest
      <4> QED BY <4>1, <4>2, <4>3
    <3> QED BY <3>11, HonestWith DEF Honest
  <2>3. ASSUME answered, NEW h \in listed PROVE Honest(F[h], G[h])
    <3> DEFINE f == [a \in n.addrs[h] |-> C(n, a, h)]
               g == [a \in n.addrs[h] |-> C(t, a, h)]
    <3>1. F[h] = Each(f) /\ G[h] = Each(g)
      BY <1>4, <2>3
    <3>2. \A a \in n.addrs[h] : Honest(f[a], g[a])
      BY <2>2
    <3>3. f = [x \in n.addrs[h] |-> f[x]] /\ g = [x \in n.addrs[h] |-> g[x]]
      OBVIOUS
    <3> HIDE DEF f, g, F, G
    <3> QED BY <3>1, <3>2, <3>3, HonestEach
  <2>4. F = [x \in listed |-> F[x]] /\ G = [x \in listed |-> G[x]]
    OBVIOUS
  <2> HIDE DEF F, G
  <2>5. answered => Honest(Each(F), Each(G))
    BY <2>3, <2>4, HonestEach
  <2> QED BY <1>5, <2>1, <2>5
<1>10. Honest(DNSBLListed(n), DNSBLListed(t))
  <2> DEFINE ips(m) == UNION {{a \in LookupAddrs(m, h) : a.family = "A"} : h \in listed}
             C(m, p) == With(dnsblQuery(m, p[1], p[2]), If(dnsblQuery(m, p[1], p[2]), About(p)))
             v == IF \E zone \in n.zones : ~checkList(n, zone) THEN Error
                  ELSE Each([p \in n.zones \X ips(n) |-> C(n, p)])
             w == IF \E zone \in n.zones : ~checkList(t, zone) THEN Error
                  ELSE Each([p \in n.zones \X ips(t) |-> C(t, p)])
  <2>1. DNSBLListed(n) = AfterMXAddrs(n, v) /\ DNSBLListed(t) = AfterMXAddrs(t, w)
    BY <1>1 DEF DNSBLListed
  <2>2. \A z, a : /\ Honest(dnsblQuery(n, z, a), dnsblQuery(t, z, a))
                  /\ <<"list", z>> \notin n.fails => dnsblQuery(n, z, a) = dnsblQuery(t, z, a)
                  /\ <<"list", z>> \in n.fails => dnsblQuery(n, z, a) = Error
    BY DEF dnsblQuery, Ask, Honest
  <2>3. \A z : checkList(n, z) => checkList(t, z)
    BY <2>2 DEF checkList
  <2>4. answered => ips(n) = ips(t)
    BY <1>4
  <2>5. ASSUME answered, \A zone \in n.zones : checkList(n, zone) PROVE Honest(v, w)
    <3> DEFINE I == n.zones \X ips(n)
               f == [p \in I |-> C(n, p)]
               g == [p \in I |-> C(t, p)]
    <3>1. v = Each(f) /\ w = Each(g)
      BY <2>3, <2>4, <2>5
    <3>2. ASSUME NEW p \in I PROVE Honest(f[p], g[p])
      <4>1. Honest(dnsblQuery(n, p[1], p[2]), dnsblQuery(t, p[1], p[2]))
        BY <2>2
      <4>2. f[p] = C(n, p) /\ g[p] = C(t, p)
        OBVIOUS
      <4> QED BY <4>1, <4>2, HonestWith DEF Honest
    <3>3. f = [x \in I |-> f[x]] /\ g = [x \in I |-> g[x]]
      OBVIOUS
    <3> HIDE DEF f, g, I, v, w
    <3> QED BY <3>1, <3>2, <3>3, HonestEach
  <2>6. answered => Honest(v, w)
    BY <2>5 DEF Honest
  <2> HIDE DEF v, w
  <2> QED BY <1>5, <2>1, <2>6
<1> QED BY <1>6, <1>7, <1>8, <1>9, <1>10

-----------------------------------------------------------------------------
(* Failing connections *)

\* Two networks with the same names and servers, of which only the first fails.
SameServers(n, t) ==
    /\ t.fails = {} /\ t.addrs = n.addrs /\ t.reach = n.reach
    /\ AddressesTyped(n) /\ HalfAnswered(n) = {} /\ {"www", "probe"} \subseteq DOMAIN n.addrs

\* A refusal says nothing false of a host that somebody declared.
Unrefused(n, h) == h.explicit \/ ~Refuses(n, h.name)
PlainServed(n) == \A q \in n.fails : ~(q[1] \in {"refused", "silent"} /\ q[2][2] = 80)

LEMMA DialHonest ==
    ASSUME NEW n, NEW t, SameServers(n, t), NEW h, h.name \in DOMAIN n.addrs
    PROVE  /\ Unrefused(n, h) => Dial(n, h, 443) \in {"error", "unreachable", Dial(t, h, 443)}
           /\ PlainServed(n) => Dial(n, h, 80) \in {"error", Dial(t, h, 80)}
<1> DEFINE art(m) == IF h.explicit THEN FALSE ELSE wildcardArtifact(m, h.name)
           addrs == LookupAddrs(n, h.name)
<1>1. \A x \in DOMAIN n.addrs : Honest(LookupAddrs(n, x), LookupAddrs(t, x))
  BY AddressesHonest DEF SameServers
<1>2. LookupAddrs(n, h.name) # Error => Honest(art(n), art(t))
  <2>1. CASE h.explicit \/ h.name # "www"
    BY <2>1 DEF wildcardArtifact, Honest
  <2>2. CASE ~h.explicit /\ h.name = "www"
    <3> DEFINE p(m) == LookupAddrs(m, "probe")
               w(m) == LookupAddrs(m, h.name)
    <3>1. \A m : art(m) = With(p(m), p(m) # {} /\ w(m) = p(m))
      BY <2>2 DEF wildcardArtifact
    <3>2. Honest(p(n), p(t)) /\ Honest(w(n), w(t))
      BY <1>1 DEF SameServers
    <3> HIDE DEF p, art
    <3> QED BY <3>1, <3>2 DEF With, Honest
  <2> QED BY <2>1, <2>2
<1>3. Honest(addrs, LookupAddrs(t, h.name))
  BY <1>1
<1>4. \A port : Reached(t, <<h.name, port>>) = n.reach[<<h.name, port>>]
  BY DEF Reached, SameServers
<1>5. \A port : \/ Reached(n, <<h.name, port>>) = n.reach[<<h.name, port>>]
                \/ <<"refused", <<h.name, port>>>> \in n.fails /\ Reached(n, <<h.name, port>>) = "refused"
                \/ <<"silent", <<h.name, port>>>> \in n.fails /\ Reached(n, <<h.name, port>>) = "silent"
  <2> TAKE port
  <2> DEFINE there == <<h.name, port>>
             failing == {how \in {"refused", "silent"} : <<how, there>> \in n.fails}
  <2>1. CASE failing = {}
    BY <2>1 DEF Reached
  <2>2. CASE failing # {}
    <3>1. (CHOOSE how \in failing : TRUE) \in failing
      BY <2>2
    <3>2. Reached(n, there) = CHOOSE how \in failing : TRUE
      BY <2>2 DEF Reached
    <3> QED BY <3>1, <3>2
  <2> QED BY <2>1, <2>2
<1>6. \A m, port : Dial(m, h, port) =
        IF art(m) = Error \/ LookupAddrs(m, h.name) = Error THEN "error"
        ELSE IF art(m) = TRUE \/ (~h.explicit /\ (LookupAddrs(m, h.name) = {} \/ Reached(m, <<h.name, port>>) = "refused")) THEN "absent"
        ELSE IF LookupAddrs(m, h.name) = {} THEN "error"
        ELSE IF Reached(m, <<h.name, port>>) = "open" THEN "ok" ELSE "unreachable"
  BY DEF Dial
<1> HIDE DEF art, addrs
<1>7. ASSUME Unrefused(n, h) PROVE Dial(n, h, 443) \in {"error", "unreachable", Dial(t, h, 443)}
  <2> DEFINE a == art(n)
             b == art(t)
             c == LookupAddrs(n, h.name)
             d == LookupAddrs(t, h.name)
             r == Reached(n, <<h.name, 443>>)
             R == Reached(t, <<h.name, 443>>)
  <2>1. (c = Error \/ c = d) /\ (c # Error => a = Error \/ a = b)
    BY <1>2, <1>3 DEF Honest, addrs
  <2>2. r = R \/ r = "silent" \/ (r = "refused" /\ h.explicit)
    <3>1. r = R \/ r = "silent" \/ (r = "refused" /\ <<"refused", <<h.name, 443>>>> \in n.fails)
      <4>1. R = n.reach[<<h.name, 443>>]
        BY <1>4
      <4>2. \/ r = n.reach[<<h.name, 443>>]
            \/ <<"refused", <<h.name, 443>>>> \in n.fails /\ r = "refused"
            \/ <<"silent", <<h.name, 443>>>> \in n.fails /\ r = "silent"
        BY <1>5
      <4> HIDE DEF r, R
      <4> QED BY <4>1, <4>2
    <3> HIDE DEF r, R
    <3> QED BY <3>1, <1>7 DEF Unrefused, Refuses
  <2>3. Dial(n, h, 443) = IF a = Error \/ c = Error THEN "error"
          ELSE IF a = TRUE \/ (~h.explicit /\ (c = {} \/ r = "refused")) THEN "absent"
          ELSE IF c = {} THEN "error" ELSE IF r = "open" THEN "ok" ELSE "unreachable"
    BY <1>6
  <2>4. Dial(t, h, 443) = IF b = Error \/ d = Error THEN "error"
          ELSE IF b = TRUE \/ (~h.explicit /\ (d = {} \/ R = "refused")) THEN "absent"
          ELSE IF d = {} THEN "error" ELSE IF R = "open" THEN "ok" ELSE "unreachable"
    BY <1>6
  <2> HIDE DEF a, b, c, d, r, R
  <2>5. CASE r = R
    BY <2>1, <2>3, <2>4, <2>5
  <2>6. CASE r = "silent"
    BY <2>1, <2>3, <2>4, <2>6
  <2>7. CASE r = "refused" /\ h.explicit
    BY <2>1, <2>3, <2>4, <2>7
  <2> QED BY <2>2, <2>5, <2>6, <2>7
<1>8. ASSUME PlainServed(n) PROVE Dial(n, h, 80) \in {"error", Dial(t, h, 80)}
  <2>1. <<"refused", <<h.name, 80>>>> \notin n.fails /\ <<"silent", <<h.name, 80>>>> \notin n.fails
    BY <1>8 DEF PlainServed
  <2> QED BY <2>1, <1>2, <1>3, <1>4, <1>5, <1>6 DEF Honest, addrs
<1> QED BY <1>7, <1>8

LEMMA ConnectHonest ==
    ASSUME NEW n, NEW t, SameServers(n, t), t.tls = n.tls, NEW h, h.name \in DOMAIN n.addrs, Unrefused(n, h),
           NEW versions, NEW suites
    PROVE  /\ Connect(n, h, versions, suites) \in {"error", "unreachable", Connect(t, h, versions, suites)}
           /\ Dial(n, h, 443) = "ok" => Connect(n, h, versions, suites) = Connect(t, h, versions, suites)
BY DialHonest DEF Connect

\* Judging hosts after a handshake, when the judgement of those it succeeds for is honest.
LEMMA HandshakesHonest ==
    ASSUME NEW n, NEW t, SameServers(n, t), t.tls = n.tls, TLSHosts(t) = TLSHosts(n),
           \A h \in TLSHosts(n) : h.name \in DOMAIN n.addrs /\ Unrefused(n, h),
           NEW f, NEW g, \A h \in TLSHosts(n) : Dial(n, h, 443) = "ok" => Honest(f[h], g[h])
    PROVE  Honest(OfHandshake(n, f), OfHandshake(t, g))
<1> DEFINE F == [h \in TLSHosts(n) |-> Handshaken(n, h, f[h])]
           G == [h \in TLSHosts(n) |-> Handshaken(t, h, g[h])]
<1>1. ASSUME NEW h \in TLSHosts(n) PROVE Honest(F[h], G[h])
  <2> DEFINE out(m) == IF <<"reset", h.name>> \in m.fails THEN "rejected"
                       ELSE Connect(m, h, AllVersions, AllSuites)
  <2>1. out(n) \in {"error", "unreachable", "rejected", out(t)}
    BY ConnectHonest DEF SameServers
  <2>2. out(n) = "ok" => Dial(n, h, 443) = "ok"
    BY DEF Connect
  <2>3. \A m, v : Handshaken(m, h, v) = CASE out(m) = "ok" -> v
                                         [] out(m) = "absent" -> Absent
                                         [] OTHER -> Error
    BY DEF Handshaken
  <2> HIDE DEF out
  <2>4. Honest(Handshaken(n, h, f[h]), Handshaken(t, h, g[h]))
    BY <2>1, <2>2, <2>3 DEF Honest
  <2> QED BY <2>4
<1>2. F = [h \in TLSHosts(n) |-> F[h]] /\ G = [h \in TLSHosts(n) |-> G[h]]
  OBVIOUS
<1>3. OfHandshake(n, f) = Each(F) /\ OfHandshake(t, g) = Each(G)
  BY DEF OfHandshake
<1> HIDE DEF F, G
<1> QED BY <1>1, <1>2, <1>3, HonestEach

LEMMA TLSHonest ==
    ASSUME NEW n, NEW t, SameServers(n, t), t.tls = n.tls, t.declared = n.declared, t.urls = n.urls,
           \A h \in TLSHosts(n) : h.name \in DOMAIN n.addrs /\ Unrefused(n, h),
           \A q \in n.fails : q[1] # "resetProbe"
    PROVE  /\ Honest(CertInvalid(n), CertInvalid(t)) /\ Honest(HostnameMismatch(n), HostnameMismatch(t))
           /\ Honest(CertExpiring(n), CertExpiring(t)) /\ Honest(NoModernTLS(n), NoModernTLS(t))
           /\ Honest(DeprecatedTLS(n), DeprecatedTLS(t)) /\ Honest(WeakCiphers(n), WeakCiphers(t))
<1> DEFINE H == TLSHosts(n)
<1>1. TLSHosts(t) = H
  BY DEF TLSHosts, WebHosts
<1>2. ASSUME NEW f PROVE Honest(OfHandshake(n, f), OfHandshake(t, f))
  BY <1>1, HandshakesHonest DEF Honest
<1>3. \A h : Leaf(t, h) = Leaf(n, h)
  BY DEF Leaf
<1>4. Honest(CertInvalid(n), CertInvalid(t))
  BY <1>1, <1>2, <1>3 DEF CertInvalid
<1>5. Honest(HostnameMismatch(n), HostnameMismatch(t))
  BY <1>1, <1>2, <1>3 DEF HostnameMismatch
<1>6. Honest(CertExpiring(n), CertExpiring(t))
  BY <1>1, <1>2, <1>3 DEF CertExpiring
<1>7. Honest(NoModernTLS(n), NoModernTLS(t))
  BY <1>1, <1>2 DEF NoModernTLS
<1>8. ASSUME NEW h \in H, Dial(n, h, 443) = "ok"
      PROVE  \A versions, suites : accepts(n, h, versions, suites) = accepts(t, h, versions, suites)
  <2>1. <<"resetProbe", h.name>> \notin n.fails /\ <<"resetProbe", h.name>> \notin t.fails
    BY DEF SameServers
  <2> QED BY <1>8, <2>1, ConnectHonest DEF accepts
<1>9. Honest(DeprecatedTLS(n), DeprecatedTLS(t))
  <2> DEFINE J(m, h) == If(\E v \in {10, 11} : accepts(m, h, {v}, AllSuites), About(h.name))
             f == [h \in H |-> Ask(n, <<"dialProbe", h.name>>, J(n, h))]
             g == [h \in H |-> Ask(t, <<"dialProbe", h.name>>, J(t, h))]
  <2>1. DeprecatedTLS(n) = OfHandshake(n, f) /\ DeprecatedTLS(t) = OfHandshake(t, g)
    BY <1>1 DEF DeprecatedTLS
  <2>2. ASSUME NEW h \in H, Dial(n, h, 443) = "ok" PROVE Honest(f[h], g[h])
    <3>1. \A versions, suites : accepts(n, h, versions, suites) = accepts(t, h, versions, suites)
      BY <1>8, <2>2
    <3>2. J(n, h) = J(t, h)
      BY <3>1
    <3> HIDE DEF J
    <3> QED BY <3>2, HonestAsk DEF Honest, SameServers
  <2> HIDE DEF f, g
  <2> QED BY <1>1, <2>1, <2>2, HandshakesHonest
<1>10. Honest(WeakCiphers(n), WeakCiphers(t))
  <2> DEFINE taken(m, h) == {s \in InsecureSuites : accepts(m, h, {10, 11, 12}, {s})}
             J(m, h) == If(taken(m, h) # {}, Finding(h.name, IF "rc4" \in taken(m, h) THEN "default" ELSE "low"))
             f == [h \in H |-> Ask(n, <<"dialProbe", h.name>>, J(n, h))]
             g == [h \in H |-> Ask(t, <<"dialProbe", h.name>>, J(t, h))]
  <2>1. WeakCiphers(n) = OfHandshake(n, f) /\ WeakCiphers(t) = OfHandshake(t, g)
    BY <1>1 DEF WeakCiphers
  <2>2. ASSUME NEW h \in H, Dial(n, h, 443) = "ok" PROVE Honest(f[h], g[h])
    <3>1. taken(n, h) = taken(t, h)
      BY <1>8, <2>2
    <3>2. J(n, h) = J(t, h)
      BY <3>1
    <3> HIDE DEF J
    <3> QED BY <3>2, HonestAsk DEF Honest, SameServers
  <2> HIDE DEF f, g
  <2> QED BY <1>1, <2>1, <2>2, HandshakesHonest
<1> QED BY <1>4, <1>5, <1>6, <1>7, <1>9, <1>10

-----------------------------------------------------------------------------
(* Failing fetches *)

\* A response that is what it would be if nothing failed, or one of the bad ones.
Beside(bad, r, s) == r.out \in bad \/ r = s

LEMMA GetBeside ==
    ASSUME NEW n, NEW t, SameServers(n, t), t.tls = n.tls, NEW h, h.name \in DOMAIN n.addrs,
           PlainServed(n), NEW u, u.scheme = "https" => Unrefused(n, h)
    PROVE  /\ Beside({"error", "unreachable"}, get(n, h, u), get(t, h, u))
           /\ u.scheme # "https" => Beside({"error"}, get(n, h, u), get(t, h, u))
<1>1. \A m, d : /\ Request(m, u, d).url = u
                /\ Request(m, u, d).out = IF d = "rejected" \/ (d = "ok" /\ <<"answer", u>> \in m.fails)
                                          THEN "error" ELSE d
  BY DEF Request
<1>2. \A d : Request(n, u, d).out = "error" \/ Request(n, u, d) = Request(t, u, d)
  BY DEF Request, SameServers
<1>3. CASE u.scheme = "https"
  <2> DEFINE c(m) == Connect(m, h, AllVersions, AllSuites)
  <2>1. c(n) \in {"error", "unreachable", c(t)}
    BY <1>3, ConnectHonest
  <2>2. \A m : get(m, h, u) = Request(m, u, c(m))
    BY <1>3 DEF get
  <2> HIDE DEF c
  <2> QED BY <1>1, <1>2, <1>3, <2>1, <2>2 DEF Beside
<1>4. CASE u.scheme # "https"
  <2>1. Dial(n, h, 80) \in {"error", Dial(t, h, 80)}
    BY DialHonest
  <2>2. \A m : get(m, h, u) = Request(m, u, Dial(m, h, 80))
    BY <1>4 DEF get
  <2> QED BY <1>1, <1>2, <2>1, <2>2 DEF Beside
<1> QED BY <1>3, <1>4

\* Redirects keep to that.
LEMMA FollowingBeside ==
    ASSUME NEW n, NEW t, SameServers(n, t), t.tls = n.tls, t.page = n.page, PlainServed(n),
           \A u \in DOMAIN n.page : u.host \in DOMAIN n.addrs,
           NEW follow \in SUBSET (DOMAIN n.page), NEW bad, "ok" \notin bad, "error" \in bad,
           "unreachable" \in bad \/ \A u \in follow : u.scheme # "https",
           NEW r \in Responses(n), NEW s \in Responses(n), Beside(bad, r, s)
    PROVE  Beside(bad, Following(n, follow)[MaxRedirects][r], Following(t, follow)[MaxRedirects][s])
<1> DEFINE F == Following(n, follow)
           G == Following(t, follow)
           Kept == {left \in Nat : \A x, y \in Responses(n) :
                      Beside(bad, x, y) => Beside(bad, F[left][x], G[left][y])}
<1>1. Responses(t) = Responses(n)
  BY DEF Responses
<1>2. \A left \in Nat, x \in Responses(n) :
        /\ F[left][x] = Redirected(n, follow, F, left, x)
        /\ G[left][x] = Redirected(t, follow, G, left, x)
  BY <1>1, FollowingDefined
<1>3. \A x : Location(t, x) = Location(n, x)
  BY DEF Location
<1>4. ASSUME NEW u \in follow
      PROVE  /\ Beside(bad, get(n, Host(u.host, TRUE), u), get(t, Host(u.host, TRUE), u))
             /\ get(n, Host(u.host, TRUE), u) \in Responses(n) /\ get(t, Host(u.host, TRUE), u) \in Responses(n)
  <2>1. Host(u.host, TRUE).name \in DOMAIN n.addrs /\ Unrefused(n, Host(u.host, TRUE))
    BY DEF Host, Unrefused
  <2> DEFINE h == Host(u.host, TRUE)
  <2>2. /\ Beside({"error", "unreachable"}, get(n, h, u), get(t, h, u))
        /\ u.scheme # "https" => Beside({"error"}, get(n, h, u), get(t, h, u))
    <3> HIDE DEF h
    <3> QED BY <2>1, GetBeside DEF h
  <2>3. Beside(bad, get(n, h, u), get(t, h, u))
    BY <2>2 DEF Beside
  <2>4. get(n, h, u) \in Responses(n) /\ get(t, h, u) \in Responses(t)
    BY RequestEnds
  <2> QED BY <1>1, <2>3, <2>4
<1>5. ASSUME NEW left \in Nat, left = 0 \/ left - 1 \in Kept PROVE left \in Kept
  <2> SUFFICES ASSUME NEW x \in Responses(n), NEW y \in Responses(n), Beside(bad, x, y)
               PROVE  Beside(bad, F[left][x], G[left][y])
    OBVIOUS
  <2> DEFINE next == Location(n, x.url)
  <2>1. CASE x.out # "ok" \/ next \notin follow
    <3>1. F[left][x] = x
      BY <1>2, <2>1 DEF Redirected
    <3>2. x = y => G[left][y] = y
      BY <1>2, <1>3, <2>1 DEF Redirected
    <3> QED BY <3>1, <3>2 DEF Beside
  <2>2. CASE x.out = "ok" /\ next \in follow
    <3>1. x = y
      BY <2>2 DEF Beside
    <3>2. CASE left = 0
      <4>1. F[left][x] = [x EXCEPT !.out = "error"] /\ G[left][y] = [x EXCEPT !.out = "error"]
        <5> HIDE DEF F, G
        <5>1. y.out = "ok" /\ Location(t, y.url) = next
          BY <1>3, <2>2, <3>1
        <5>2. F[left][x] = Redirected(n, follow, F, left, x) /\ G[left][y] = Redirected(t, follow, G, left, y)
          BY <1>2
        <5> QED BY <2>2, <3>1, <3>2, <5>1, <5>2 DEF Redirected
      <4> QED BY <4>1 DEF Beside
    <3>3. CASE left # 0
      <4>1. /\ F[left][x] = F[left - 1][get(n, Host(next.host, TRUE), next)]
            /\ G[left][y] = G[left - 1][get(t, Host(next.host, TRUE), next)]
        <5> HIDE DEF F, G
        <5>1. y.out = "ok" /\ Location(t, y.url) = next
          BY <1>3, <2>2, <3>1
        <5>2. F[left][x] = F[left - 1][get(n, Host(next.host, TRUE), next)]
          BY <1>2, <2>2, <3>3 DEF Redirected
        <5>3. G[left][y] = G[left - 1][get(t, Host(next.host, TRUE), next)]
          <6>1. G[left][y] = Redirected(t, follow, G, left, y)
            BY <1>2
          <6> QED BY <2>2, <3>3, <5>1, <6>1 DEF Redirected
        <5> QED BY <5>2, <5>3
      <4>2. left - 1 \in Kept
        BY <1>5, <3>3
      <4> HIDE DEF F, G, next
      <4> QED BY <1>4, <2>2, <4>1, <4>2
    <3> QED BY <3>2, <3>3
  <2> QED BY <2>1, <2>2
<1>6. Kept = Nat
  <2> HIDE DEF F, G
  <2>1. 0 \in Kept /\ \A left \in Kept : left + 1 \in Kept
    <3> HIDE DEF Kept
    <3>1. Kept \subseteq Nat
      BY DEF Kept
    <3>2. \A left \in Nat : (left + 1) \in Nat /\ (left + 1) - 1 = left
      OBVIOUS
    <3> QED BY <1>5, <3>1, <3>2
  <2> QED BY <2>1, Induction
<1>7. MaxRedirects \in Kept
  BY <1>6, RedirectsAssumption
<1> HIDE DEF F, G
<1>8. Beside(bad, F[MaxRedirects][r], G[MaxRedirects][s])
  BY <1>7
<1> QED BY <1>8 DEF F, G

-----------------------------------------------------------------------------
(* The http checks *)

\* What the fetches of a run take for an answer, and whom they ask first.
SameSite(n, t, g) ==
    /\ SameServers(n, t) /\ t.tls = n.tls /\ t.page = n.page
    /\ t.declared = n.declared /\ t.urls = n.urls
    /\ PlainServed(n) /\ PagesTyped(n)
    /\ \A h \in TLSHosts(n) : h.name \in DOMAIN n.addrs /\ Unrefused(n, h)
    /\ g.name = "apex" /\ Unrefused(n, g) /\ "apex" \in DOMAIN n.addrs

LEMMA FetchBeside ==
    ASSUME NEW n, NEW t, NEW g, SameSite(n, t, g), NEW h, h.name \in DOMAIN n.addrs,
           NEW u \in DOMAIN n.page, NEW name,
           u.scheme = "https" /\ Key(u, name) # ApexHome => Unrefused(n, h),
           NEW follow \in SUBSET (DOMAIN n.page)
    PROVE  /\ Beside({"error", "unreachable"}, Get(n, FetchedFor(g), h, u, name, follow),
                                               Get(t, FetchedFor(g), h, u, name, follow))
           /\ u.scheme # "https" /\ (\A x \in follow : x.scheme # "https") =>
                Beside({"error"}, Get(n, FetchedFor(g), h, u, name, follow),
                                  Get(t, FetchedFor(g), h, u, name, follow))
<1> DEFINE asked == FetchedFor(g)
           first == IF Key(u, name) \in DOMAIN asked THEN asked[Key(u, name)] ELSE h
           r == get(n, first, u)
           s == get(t, first, u)
<1>1. /\ Get(n, asked, h, u, name, follow) = Following(n, follow)[MaxRedirects][r]
      /\ Get(t, asked, h, u, name, follow) = Following(t, follow)[MaxRedirects][s]
  BY DEF Get
<1>2. first.name \in DOMAIN n.addrs /\ (u.scheme = "https" => Unrefused(n, first))
  <2>1. DOMAIN asked = {ApexHome} /\ asked[ApexHome] = g
    BY MemoOf
  <2> HIDE DEF asked
  <2> QED BY <2>1 DEF SameSite
<1> HIDE DEF first
<1>3. /\ Beside({"error", "unreachable"}, r, s)
      /\ u.scheme # "https" => Beside({"error"}, r, s)
  BY <1>2, GetBeside DEF SameSite
<1>4. Responses(t) = Responses(n) /\ u \in DOMAIN t.page
  BY DEF Responses, SameSite
<1>5. r \in Responses(n) /\ s \in Responses(n)
  <2>1. r \in Responses(n) /\ s \in Responses(t)
    BY <1>4, RequestEnds
  <2> QED BY <1>4, <2>1
<1>6. /\ SameServers(n, t) /\ t.tls = n.tls /\ t.page = n.page /\ PlainServed(n)
      /\ \A x \in DOMAIN n.page : x.host \in DOMAIN n.addrs
  BY DEF SameSite, PagesTyped
<1> HIDE DEF asked, r, s
<1>7. Beside({"error", "unreachable"}, Following(n, follow)[MaxRedirects][r], Following(t, follow)[MaxRedirects][s])
  <2> DEFINE bad == {"error", "unreachable"}
  <2>1. "ok" \notin bad /\ "error" \in bad /\ "unreachable" \in bad /\ Beside(bad, r, s)
    BY <1>3
  <2> HIDE DEF bad
  <2>2. Beside(bad, Following(n, follow)[MaxRedirects][r], Following(t, follow)[MaxRedirects][s])
    BY <1>5, <1>6, <2>1, FollowingBeside
  <2> QED BY <2>2 DEF bad
<1>8. u.scheme # "https" /\ (\A x \in follow : x.scheme # "https") =>
        Beside({"error"}, Following(n, follow)[MaxRedirects][r], Following(t, follow)[MaxRedirects][s])
  BY <1>3, <1>5, <1>6, FollowingBeside
<1> QED BY <1>1, <1>7, <1>8 DEF asked

-----------------------------------------------------------------------------
LEMMA FetchedHonest ==
    ASSUME NEW r, NEW s, Beside({"error", "unreachable"}, r, s), NEW v, NEW w, r = s => Honest(v, w)
    PROVE  Honest(Fetched(r, v), Fetched(s, w))
BY DEF Fetched, Beside, Honest

\* A web host is fetched on behalf of itself, or of the apex.
LEMMA WebHostBeside ==
    ASSUME NEW n, NEW t, NEW g, SameSite(n, t, g), NEW h \in TLSHosts(n), NEW u \in DOMAIN n.page,
           NEW name, NEW follow \in SUBSET (DOMAIN n.page)
    PROVE  Beside({"error", "unreachable"}, Get(n, FetchedFor(g), h, u, name, follow),
                                            Get(t, FetchedFor(g), h, u, name, follow))
<1>1. h.name \in DOMAIN n.addrs /\ Unrefused(n, h)
  BY DEF SameSite
<1> QED BY <1>1, FetchBeside

LEMMA SameHosts ==
    ASSUME NEW n, NEW t, NEW g, SameSite(n, t, g)
    PROVE  /\ TLSHosts(t) = TLSHosts(n) /\ Pages(t) = Pages(n) /\ InScope(t) = InScope(n)
           /\ \A u : Location(t, u) = Location(n, u)
           /\ DOMAIN t.page = DOMAIN n.page /\ t.page = n.page
BY DEF SameSite, TLSHosts, WebHosts, Pages, InScope, Hosts, Location

LEMMA JudgeableBeside ==
    ASSUME NEW n, NEW t, t.page = n.page, NEW first, NEW firstT, NEW landed, NEW landedT, NEW sameHost,
           Beside({"error", "unreachable"}, first, firstT), Beside({"error", "unreachable"}, landed, landedT)
    PROVE  Beside({"error", "unreachable"}, Judgeable(n, first, landed, sameHost),
                                            Judgeable(t, firstT, landedT, sameHost))
<1>1. \A u : Location(t, u) = Location(n, u)
  BY DEF Location
<1>2. CASE first.out \in {"error", "unreachable"}
  BY <1>2 DEF Judgeable, Beside
<1>3. CASE first = firstT
  <2>1. CASE landed = landedT
    BY <1>1, <1>3, <2>1 DEF Judgeable, Beside
  <2>2. CASE landed.out \in {"error", "unreachable"} /\ Location(n, first.url) \in sameHost
    BY <1>1, <1>3, <2>2 DEF Judgeable, Beside
  <2>3. CASE Location(n, first.url) \notin sameHost
    BY <1>1, <1>3, <2>3 DEF Judgeable, Beside
  <2> QED BY <2>1, <2>2, <2>3 DEF Beside
<1> QED BY <1>2, <1>3 DEF Beside

LEMMA HSTSHonest ==
    ASSUME NEW n, NEW t, NEW g, SameSite(n, t, g)
    PROVE  /\ Honest(HSTSMissing(n, FetchedFor(g)), HSTSMissing(t, FetchedFor(g)))
           /\ Honest(HSTSWeak(n, FetchedFor(g)), HSTSWeak(t, FetchedFor(g)))
<1> DEFINE H == TLSHosts(n)
           asked == FetchedFor(g)
           same(h) == {u \in DOMAIN n.page : u.scheme = "https" /\ u.host = h.name}
           J(m, h) == Judgeable(m, Get(m, asked, h, Home("https", h.name), "", {}),
                                Get(m, asked, h, Home("https", h.name), "same-host", same(h)), same(h))
<1>1. TLSHosts(t) = H /\ t.page = n.page
  BY SameHosts
<1>2. httpsResponses(n, asked) = [h \in H |-> J(n, h)] /\ httpsResponses(t, asked) = [h \in H |-> J(t, h)]
  BY <1>1 DEF httpsResponses
<1>3. ASSUME NEW h \in H PROVE Beside({"error", "unreachable"}, J(n, h), J(t, h))
  <2>1. Home("https", h.name) \in DOMAIN n.page /\ same(h) \in SUBSET (DOMAIN n.page) /\ {} \in SUBSET (DOMAIN n.page)
    BY DEF SameSite, PagesTyped
  <2> HIDE DEF same
  <2> QED BY <1>1, <2>1, WebHostBeside, JudgeableBeside
<1> HIDE DEF J
<1>4. ASSUME NEW bad
      PROVE  Honest(OfHSTS(n, httpsResponses(n, asked), bad), OfHSTS(t, httpsResponses(t, asked), bad))
  <2> DEFINE v(m, h) == Fetched(J(m, h), If(m.page[J(m, h).url].hsts \in bad, About(h.name)))
             f == [h \in H |-> v(n, h)]
             k == [h \in H |-> v(t, h)]
  <2>1. OfHSTS(n, httpsResponses(n, asked), bad) = Each(f) /\ OfHSTS(t, httpsResponses(t, asked), bad) = Each(k)
    BY <1>2 DEF OfHSTS
  <2>2. ASSUME NEW h \in H PROVE Honest(v(n, h), v(t, h))
    BY <1>1, <1>3, FetchedHonest DEF Honest
  <2>3. \A h \in H : Honest(f[h], k[h])
    BY <2>2
  <2>4. f = [h \in H |-> f[h]] /\ k = [h \in H |-> k[h]]
    OBVIOUS
  <2> HIDE DEF f, k, v
  <2> QED BY <2>1, <2>3, <2>4, HonestEach
<1>5. {t.page[u].hsts : u \in DOMAIN t.page} = {n.page[u].hsts : u \in DOMAIN n.page}
  BY <1>1
<1> QED BY <1>4, <1>5 DEF HSTSMissing, HSTSWeak

LEMMA PreloadHonest ==
    ASSUME NEW n, NEW t, NEW g, SameSite(n, t, g)
    PROVE  Honest(PreloadNotReady(n, FetchedFor(g)), PreloadNotReady(t, FetchedFor(g)))
<1> DEFINE apex == Host("apex", FALSE)
           r(m) == Get(m, FetchedFor(g), apex, Home("https", "apex"), "", {})
           plain(m) == Get(m, FetchedFor(g), apex, Home("http", "apex"), "", {})
<1>1. /\ apex.name \in DOMAIN n.addrs /\ {} \in SUBSET (DOMAIN n.page)
      /\ Home("https", "apex") \in DOMAIN n.page /\ Home("http", "apex") \in DOMAIN n.page
      /\ Home("http", "apex").scheme # "https" /\ Key(Home("https", "apex"), "") = ApexHome
  BY DEF SameSite, PagesTyped, Host, Home, URL, ApexHome
<1> HIDE DEF apex
<1>2. Beside({"error", "unreachable"}, r(n), r(t))
  BY <1>1, FetchBeside
<1>3. Beside({"error"}, plain(n), plain(t))
  BY <1>1, FetchBeside
<1>4. PreloadNotReady(n, FetchedFor(g)) = PreloadOf(n, r(n), plain(n))
      /\ PreloadNotReady(t, FetchedFor(g)) = PreloadOf(t, r(t), plain(t))
  BY DEF PreloadNotReady, apex
<1> HIDE DEF r, plain
<1>5. CASE r(n).out \in {"error", "unreachable"}
  BY <1>4, <1>5 DEF PreloadOf, Honest
<1>6. CASE r(n) = r(t)
  <2>1. t.page = n.page /\ \A u : Location(t, u) = Location(n, u)
    BY SameHosts
  <2>2. CASE plain(n) = plain(t)
    BY <1>4, <1>6, <2>1, <2>2 DEF PreloadOf, Honest
  <2>3. CASE plain(n).out = "error"
    BY <1>4, <1>6, <2>1, <2>3 DEF PreloadOf, Honest
  <2> QED BY <1>3, <2>2, <2>3 DEF Beside
<1> QED BY <1>2, <1>5, <1>6 DEF Beside

LEMMA RedirectHonest ==
    ASSUME NEW n, NEW t, NEW g, SameSite(n, t, g)
    PROVE  Honest(RedirectMissing(n, FetchedFor(g)), RedirectMissing(t, FetchedFor(g)))
<1> DEFINE H == TLSHosts(n)
           plain == {u \in DOMAIN n.page : u.scheme = "http"}
           r(m, h) == Get(m, FetchedFor(g), Host(h.name, FALSE), Home("http", h.name), "plain", plain)
           f == [h \in H |-> ToHTTPS(n, h, r(n, h))]
           k == [h \in H |-> ToHTTPS(t, h, r(t, h))]
<1>1. TLSHosts(t) = H /\ t.page = n.page /\ \A u : Location(t, u) = Location(n, u)
  BY SameHosts
<1>2. RedirectMissing(n, FetchedFor(g)) = Each(f) /\ RedirectMissing(t, FetchedFor(g)) = Each(k)
  BY <1>1 DEF RedirectMissing
<1>3. ASSUME NEW h \in H PROVE Beside({"error"}, r(n, h), r(t, h))
  <2> DEFINE x == Host(h.name, FALSE)
             u == Home("http", h.name)
  <2>1. x.name \in DOMAIN n.addrs /\ u \in DOMAIN n.page /\ u.scheme # "https"
    BY DEF SameSite, PagesTyped, Host, Home, URL
  <2>2. plain \in SUBSET (DOMAIN n.page) /\ \A y \in plain : y.scheme # "https"
    OBVIOUS
  <2> HIDE DEF x, u, plain
  <2>3. Beside({"error"}, Get(n, FetchedFor(g), x, u, "plain", plain), Get(t, FetchedFor(g), x, u, "plain", plain))
    BY <2>1, <2>2, FetchBeside
  <2> QED BY <2>3 DEF x, u
<1> HIDE DEF r
<1>4. \A h \in H : Honest(ToHTTPS(n, h, r(n, h)), ToHTTPS(t, h, r(t, h)))
  BY <1>1, <1>3 DEF ToHTTPS, Fetched, Beside, Honest
<1>5. \A h \in H : Honest(f[h], k[h])
  BY <1>4
<1>6. f = [h \in H |-> f[h]] /\ k = [h \in H |-> k[h]]
  OBVIOUS
<1> HIDE DEF f, k
<1> QED BY <1>2, <1>5, <1>6, HonestEach

LEMMA HeadersHonest ==
    ASSUME NEW n, NEW t, NEW g, SameSite(n, t, g), NEW htmlOnly, NEW headers
    PROVE  Honest(headerCheck(n, FetchedFor(g), htmlOnly, headers), headerCheck(t, FetchedFor(g), htmlOnly, headers))
<1> DEFINE P == Pages(n)
           r(m, p) == Get(m, FetchedFor(g), p.host, p.url, "in-scope", InScope(n))
           f == [p \in P |-> Landed(n, p, r(n, p))]
           k == [p \in P |-> Landed(t, p, r(t, p))]
<1>1. /\ Pages(t) = P /\ InScope(t) = InScope(n) /\ t.page = n.page
  BY SameHosts
<1>2. pages(n, FetchedFor(g)) = Each(f) /\ pages(t, FetchedFor(g)) = Each(k)
  BY <1>1 DEF pages
<1>3. ASSUME NEW p \in P PROVE Beside({"error", "unreachable"}, r(n, p), r(t, p))
  <2>1. p.host.name \in DOMAIN n.addrs /\ p.url \in DOMAIN n.page /\ Unrefused(n, p.host)
    <3>1. CASE n.urls = {}
      <4>1. p.host \in WebHosts(n) /\ p.url = Home("https", p.host.name)
        BY <3>1 DEF Pages
      <4>2. p.host \in TLSHosts(n)
        BY <4>1 DEF TLSHosts
      <4> QED BY <4>1, <4>2 DEF SameSite, PagesTyped
    <3>2. CASE n.urls # {}
      <4>1. p.url \in n.urls /\ p.host = Host(p.url.host, TRUE)
        <5>1. PICK u \in n.urls : p = [url |-> u, host |-> Host(u.host, TRUE)]
          BY <3>2 DEF Pages
        <5> QED BY <5>1
      <4> QED BY <4>1 DEF SameSite, PagesTyped, Host, Unrefused
    <3> QED BY <3>1, <3>2
  <2>2. InScope(n) \in SUBSET (DOMAIN n.page)
    BY DEF InScope
  <2> QED BY <2>1, <2>2, FetchBeside
<1> HIDE DEF r
<1>4. \A p \in P : Honest(Landed(n, p, r(n, p)), Landed(t, p, r(t, p)))
  <2> TAKE p \in P
  <2> QED BY <1>1, <1>3, FetchedHonest DEF Landed, Honest
<1>5. \A p \in P : Honest(f[p], k[p])
  BY <1>4
<1>6. f = [p \in P |-> f[p]] /\ k = [p \in P |-> k[p]]
  OBVIOUS
<1> HIDE DEF f, k
<1>7. Honest(pages(n, FetchedFor(g)), pages(t, FetchedFor(g)))
  BY <1>2, <1>5, <1>6, HonestEach
<1>8. \A l : WithoutHeader(t, l, htmlOnly, headers) = WithoutHeader(n, l, htmlOnly, headers)
  BY <1>1 DEF WithoutHeader
<1>9. ASSUME NEW l, NEW m, Honest(l, m)
      PROVE  Honest(WithoutHeader(n, l, htmlOnly, headers), WithoutHeader(n, m, htmlOnly, headers))
  BY <1>9 DEF WithoutHeader, With, Honest
<1> QED BY <1>7, <1>8, <1>9 DEF headerCheck

LEMMA FilesHonest ==
    ASSUME NEW n, NEW t, NEW g, SameSite(n, t, g),
           \A u \in DOMAIN n.page : u.path \in sensitivePaths => <<"cut", u>> \notin n.fails
    PROVE  Honest(SensitivePath(n, FetchedFor(g)), SensitivePath(t, FetchedFor(g)))
<1> DEFINE P == TLSHosts(n) \X sensitivePaths
           U(p) == URL("https", p[1].name, p[2])
           page(p) == n.page[U(p)]
           found(p) == If(page(p).status = 200 /\ ~page(p).html /\ page(p).file = p[2],
                          Finding(U(p), IF p[2] = "/.env" THEN "critical" ELSE "high"))
           r(m, p) == Get(m, FetchedFor(g), p[1], U(p), "", {})
           f == [p \in P |-> Fetched(r(n, p), found(p))]
           k == [p \in P |-> Fetched(r(t, p), found(p))]
<1>1. TLSHosts(t) = TLSHosts(n) /\ t.page = n.page
  BY SameHosts
<1>2. SensitivePath(n, FetchedFor(g)) = Each(f) /\ SensitivePath(t, FetchedFor(g)) = Each(k)
  <2>1. ASSUME NEW p \in P
        PROVE  ReadBody(n, U(p)) = page(p).file /\ ReadBody(t, U(p)) = page(p).file
    <3>1. U(p) \in DOMAIN n.page /\ U(p).path \in sensitivePaths
      BY DEF SameSite, PagesTyped, URL
    <3>2. t.fails = {}
      BY DEF SameSite, SameServers
    <3> HIDE DEF U
    <3> QED BY <1>1, <3>1, <3>2 DEF ReadBody
  <2> DEFINE file(m, p) == If(m.page[U(p)].status = 200 /\ ~m.page[U(p)].html /\ ReadBody(m, U(p)) = p[2],
                              Finding(U(p), IF p[2] = "/.env" THEN "critical" ELSE "high"))
             files(m) == [p \in TLSHosts(m) \X sensitivePaths |-> Fetched(r(m, p), file(m, p))]
  <2>2. \A m : SensitivePath(m, FetchedFor(g)) = Each(files(m))
    BY DEF SensitivePath
  <2>3. \A p \in P : file(n, p) = found(p) /\ file(t, p) = found(p)
    BY <1>1, <2>1
  <2>4. files(n) = f /\ files(t) = k
    <3> HIDE DEF file, found, r
    <3> QED BY <1>1, <2>3
  <2> HIDE DEF files, f, k
  <2> QED BY <2>2, <2>4
<1>3. ASSUME NEW p \in P PROVE Beside({"error", "unreachable"}, r(n, p), r(t, p))
  <2>1. p[1] \in TLSHosts(n) /\ U(p) \in DOMAIN n.page /\ {} \in SUBSET (DOMAIN n.page)
    BY DEF SameSite, PagesTyped
  <2> HIDE DEF U
  <2> QED BY <2>1, WebHostBeside
<1> HIDE DEF r, found
<1>4. \A p \in P : Honest(f[p], k[p])
  BY <1>3, FetchedHonest DEF Honest
<1>5. f = [p \in P |-> f[p]] /\ k = [p \in P |-> k[p]]
  OBVIOUS
<1> HIDE DEF f, k
<1> QED BY <1>2, <1>4, <1>5, HonestEach

-----------------------------------------------------------------------------
(* Failing walks *)

\* An evaluation that is what it would be if nothing failed, or knows that something did.
Untold(e, f) == e.failed \/ e = f

\* Two networks with the same SPF records, of which only the first fails.
SameRecords(n, t) ==
    /\ SpfTyped(n) /\ t.fails = {} /\ t.spf = n.spf /\ t.otherTxt = n.otherTxt
    /\ t.answers = n.answers /\ t.mxCount = n.mxCount

LEMMA SameTypes ==
    ASSUME NEW n, NEW t, SameRecords(n, t)
    PROVE  /\ Domains(t) = Domains(n) /\ Visits(t) = Visits(n) /\ Evaluations(t) = Evaluations(n)
           /\ Followers(t) = Followers(n) /\ Terms(t) = Terms(n) /\ SpfTyped(t)
           /\ n.mxCount \in [Domains(n) -> Nat] /\ t.mxCount \in [Domains(t) -> Nat]
<1>1. Domains(t) = Domains(n) /\ Terms(t) = Terms(n) /\ Vias(t) = Vias(n)
  BY DEF SameRecords, Domains, Terms, Vias
<1>2. Evaluations(t) = Evaluations(n)
  BY <1>1 DEF Evaluations
<1>3. Visits(t) = Visits(n) /\ Followers(t) = Followers(n)
  BY <1>1, <1>2 DEF Visits, Followers
<1>4. SpfTyped(t) /\ n.mxCount \in [Domains(n) -> Nat]
  BY <1>1 DEF SameRecords, SpfTyped
<1> QED BY <1>1, <1>2, <1>3, <1>4 DEF SameRecords

LEMMA QueryUntold ==
    ASSUME NEW n, NEW t, SameRecords(n, t), NEW ev \in Evaluations(n), NEW target, NEW types
    PROVE  Untold(Query(n, ev, target, types), Query(t, ev, target, types))
<1> DEFINE counted == [ev EXCEPT !.queries = @ + Cardinality(types)]
           nothing(m) == IF types = {"MX"} THEN m.mxCount[target] = 0
                         ELSE \A type \in types : <<target, type>> \notin m.answers
<1>1. nothing(t) = nothing(n)
  BY DEF SameRecords
<1>2. [counted EXCEPT !.failed = TRUE].failed = TRUE
  BY DEF Evaluations
<1>3. \A m : Query(m, ev, target, types) =
        IF \E type \in types : <<type, target>> \in m.fails THEN [counted EXCEPT !.failed = TRUE]
        ELSE IF nothing(m) THEN [counted EXCEPT !.voids = @ + 1] ELSE counted
  BY DEF Query
<1> HIDE DEF counted, nothing
<1> QED BY <1>1, <1>2, <1>3 DEF Untold, SameRecords

\* What the visits one level deeper come to, with and without failures.
Tells(n, f, g) == \A x \in Visits(n) : Untold(f[x], g[x])

LEMMA MechanismUntold ==
    ASSUME NEW n, NEW t, SameRecords(n, t), NEW f \in Followers(n), NEW g \in Followers(n), Tells(n, f, g),
           NEW v \in Visits(n), NEW ev \in Evaluations(n), NEW m \in Terms(n), ValidTerm(m), CountsLookup(m)
    PROVE  Untold(Mechanism(n, f, v, ev, m), Mechanism(t, g, v, ev, m))
<1> DEFINE counted == [ev EXCEPT !.lookups = @ + 1]
           target == IF m.to = "" THEN v.target ELSE m.to
           types == IF m.name = "mx" THEN {"MX"} ELSE IF m.name = "exists" THEN {"A"} ELSE Families
           queried(k) == Query(k, counted, target, types)
<1>1. CASE m.name = "include" /\ m.to # Macro
  <2>1. LeadsTo(v, ev, m) \in Visits(n)
    <3>1. n.mxCount \in [Domains(n) -> Nat]
      BY SameTypes
    <3> HIDE DEF counted, target, types, queried
    <3> QED BY <1>1, <3>1, MechanismOf
  <2>2. \A k, h : Mechanism(k, h, v, ev, m) = h[LeadsTo(v, ev, m)]
    <3>1. m.to # "" /\ m.name # "ptr"
      BY <1>1 DEF ValidTerm, Named, NotDomains
    <3> QED BY <1>1, <3>1 DEF Mechanism, LeadsTo
  <2> QED BY <2>1, <2>2 DEF Tells
<1>2. CASE ~(m.name = "include" /\ m.to # Macro)
  <2>1. counted \in Evaluations(n)
    BY CountedTyped
  <2>2. Untold(queried(n), queried(t))
    <3> HIDE DEF counted, target, types
    <3> QED BY <2>1, QueryUntold
  <2>3. \A k, h : Mechanism(k, h, v, ev, m) =
          IF m.to = Macro \/ m.name = "ptr" THEN counted
          ELSE IF m.name = "mx" /\ ~queried(k).failed /\ k.mxCount[target] > MaxMXNames
            THEN Problem(queried(k), v.via) ELSE queried(k)
    BY <1>2 DEF Mechanism
  <2>4. t.mxCount = n.mxCount
    BY DEF SameRecords
  <2> HIDE DEF counted, target, types, queried
  <2> QED BY <2>2, <2>3, <2>4 DEF Untold
<1> QED BY <1>1, <1>2

LEMMA AdvanceUntold ==
    ASSUME NEW n, NEW t, SameRecords(n, t), NEW f \in Followers(n), NEW g \in Followers(n), Tells(n, f, g),
           NEW v \in Visits(n), NEW e \in Evaluations(n), NEW ev \in Evaluations(n), Untold(e, ev),
           NEW m \in Terms(n), ValidTerm(m)
    PROVE  Untold(Advance(n, f, v, e, m), Advance(t, g, v, ev, m))
<1>1. CASE e.failed \/ e.halted \/ ~CountsLookup(m)
  BY <1>1 DEF Advance, Untold
<1>2. CASE ~(e.failed \/ e.halted \/ ~CountsLookup(m))
  <2> DEFINE next == Mechanism(n, f, v, e, m)
             nextT == Mechanism(t, g, v, e, m)
  <2>1. e = ev /\ Untold(next, nextT)
    BY <1>2, MechanismUntold DEF Untold
  <2>2. /\ Advance(n, f, v, e, m) = [next EXCEPT !.halted = Stopped(next)]
        /\ Advance(t, g, v, ev, m) = [nextT EXCEPT !.halted = Stopped(nextT)]
    BY <1>2, <2>1 DEF Advance
  <2>3. next \in Evaluations(n)
    BY <1>2, SameTypes, AdvanceTyped
  <2>4. Stopped(next) \in BOOLEAN
    BY DEF Stopped
  <2> HIDE DEF next, nextT
  <2>5. [next EXCEPT !.halted = Stopped(next)].failed = next.failed
    BY <2>3, <2>4, HaltedTyped
  <2> QED BY <2>1, <2>2, <2>5 DEF Untold
<1> QED BY <1>1, <1>2

LEMMA WalkUntold ==
    ASSUME NEW n, NEW t, SameRecords(n, t), NEW f \in Followers(n), NEW g \in Followers(n), Tells(n, f, g),
           NEW v \in Visits(n), NEW rec \in Seq(Terms(n)), Parses(rec)
    PROVE  Untold(WalkOn(n, f, v, rec), WalkOn(t, g, v, rec))
<1> DEFINE F == Mechanisms(n, f, v, rec)
           G == Mechanisms(t, g, v, rec)
           Kept == {i \in 0..Len(rec) : Untold(F[i], G[i])}
           e == F[Len(rec)]
           ev == G[Len(rec)]
<1>1. /\ n.mxCount \in [Domains(n) -> Nat] /\ t.mxCount \in [Domains(t) -> Nat]
      /\ Evaluations(t) = Evaluations(n) /\ Visits(t) = Visits(n)
      /\ rec \in Seq(Terms(t)) /\ g \in Followers(t) /\ v \in Visits(t)
  BY SameTypes
<1>2. /\ F \in [0..Len(rec) -> Evaluations(n)] /\ F[0] = [v.ev EXCEPT !.halted = FALSE]
      /\ \A i \in 1..Len(rec) : F[i] = Advance(n, f, v, F[i - 1], rec[i])
  <2> HIDE DEF F
  <2>1. n.mxCount \in [Domains(n) -> Nat]
    BY <1>1
  <2> QED BY <2>1, MechanismsDefined DEF F
<1>3. /\ G \in [0..Len(rec) -> Evaluations(n)] /\ G[0] = [v.ev EXCEPT !.halted = FALSE]
      /\ \A i \in 1..Len(rec) : G[i] = Advance(t, g, v, G[i - 1], rec[i])
  <2>1. /\ G \in [0..Len(rec) -> Evaluations(t)] /\ G[0] = [v.ev EXCEPT !.halted = FALSE]
        /\ \A i \in 1..Len(rec) : G[i] = Advance(t, g, v, G[i - 1], rec[i])
    <3> HIDE DEF G
    <3>1. t.mxCount \in [Domains(t) -> Nat] /\ g \in Followers(t) /\ v \in Visits(t) /\ rec \in Seq(Terms(t))
      BY <1>1
    <3> QED BY <3>1, MechanismsDefined DEF G
  <2> QED BY <1>1, <2>1
<1>4. Len(rec) \in Nat /\ Len(rec) \in 0..Len(rec)
  OBVIOUS
<1>5. \A i \in 1..Len(rec) : rec[i] \in Terms(n) /\ ValidTerm(rec[i]) /\ i - 1 \in 0..Len(rec) /\ i \in 0..Len(rec)
  BY DEF Parses
<1> HIDE DEF F, G
<1>6. 0 \in Kept
  <2>1. 0 \in 0..Len(rec) /\ F[0] = G[0]
    BY <1>2, <1>3, <1>4
  <2> QED BY <2>1 DEF Untold
<1>7. ASSUME NEW i \in 1..Len(rec), i - 1 \in Kept PROVE i \in Kept
  <2>1. F[i - 1] \in Evaluations(n) /\ G[i - 1] \in Evaluations(n) /\ Untold(F[i - 1], G[i - 1])
    BY <1>2, <1>3, <1>5, <1>7
  <2>2. Untold(Advance(n, f, v, F[i - 1], rec[i]), Advance(t, g, v, G[i - 1], rec[i]))
    BY <1>5, <2>1, AdvanceUntold
  <2> QED BY <1>2, <1>3, <1>5, <2>2
<1>8. \A i \in 0..Len(rec) : i \in Kept
  <2> HIDE DEF Kept
  <2> QED BY <1>4, <1>6, <1>7, InductionTo
<1>9. e \in Evaluations(n) /\ ev \in Evaluations(n) /\ Untold(e, ev)
  BY <1>2, <1>3, <1>4, <1>8
<1>10. WalkOn(n, f, v, rec) = Ended(n, f, v, rec)[e] /\ WalkOn(t, g, v, rec) = Ended(t, g, v, rec)[ev]
  BY DEF WalkOn, F, G
<1> HIDE DEF e, ev
<1>11. /\ e.failed => Ended(n, f, v, rec)[e] = [e EXCEPT !.incomplete = @ \/ e.halted]
       /\ [e EXCEPT !.incomplete = @ \/ e.halted].failed = e.failed
  BY <1>9 DEF Ended, Evaluations
<1>12. CASE e.failed
  BY <1>10, <1>11, <1>12 DEF Untold
<1>13. CASE ~e.failed
  <2>1. e = ev
    BY <1>9, <1>13 DEF Untold
  <2>2. \A k, h : Evaluations(k) = Evaluations(n) => Ended(k, h, v, rec)[e] =
          IF e.halted THEN [e EXCEPT !.incomplete = @ \/ e.halted]
          ELSE IF Alls(rec) # {}
            THEN IF v.top THEN [e EXCEPT !.effective = AllOf(rec).qualifier] ELSE e
          ELSE IF Redirects(rec) = {} THEN e
          ELSE Redirect(h, v, e, RedirectOf(rec))
    BY <1>9, <1>13 DEF Ended
  <2>3. CASE e.halted \/ Alls(rec) # {} \/ Redirects(rec) = {}
    BY <1>1, <1>10, <2>1, <2>2, <2>3 DEF Untold
  <2>4. CASE ~(e.halted \/ Alls(rec) # {} \/ Redirects(rec) = {})
    <3>1. /\ WalkOn(n, f, v, rec) = Redirect(f, v, e, RedirectOf(rec))
          /\ WalkOn(t, g, v, rec) = Redirect(g, v, e, RedirectOf(rec))
      BY <1>1, <1>10, <2>1, <2>2, <2>4
    <3>2. CASE RedirectOf(rec) = Macro
      BY <3>1, <3>2 DEF Redirect, Untold
    <3>3. CASE RedirectOf(rec) # Macro
      <4>1. RedirectsTo(v, e, RedirectOf(rec)) \in Visits(n)
        BY <1>1, <1>13, <2>4, <3>3, WalkOf DEF e, F
      <4>2. \A h : Redirect(h, v, e, RedirectOf(rec)) = h[RedirectsTo(v, e, RedirectOf(rec))]
        BY <3>3 DEF Redirect, RedirectsTo
      <4> QED BY <3>1, <4>1, <4>2 DEF Tells
    <3> QED BY <3>2, <3>3
  <2> QED BY <2>3, <2>4
<1> QED BY <1>12, <1>13

\* Every level keeps to that.
LEMMA FollowUntold ==
    ASSUME NEW n, NEW t, SameRecords(n, t)
    PROVE  \A left \in Nat : Tells(n, Follow(n)[left], Follow(t)[left])
<1> DEFINE F == Follow(n)
           G == Follow(t)
           S == {left \in Nat : Tells(n, F[left], G[left])}
<1>1. /\ Visits(t) = Visits(n) /\ Followers(t) = Followers(n) /\ SpfTyped(t) /\ SpfTyped(n)
      /\ Evaluations(t) = Evaluations(n)
  BY SameTypes DEF SameRecords
<1>2. \A left \in Nat : /\ F[left] \in Followers(n) /\ G[left] \in Followers(n)
                        /\ \A v \in Visits(n) : /\ F[left][v] = Followed(n, F, left, v)
                                                /\ G[left][v] = Followed(t, G, left, v)
  BY <1>1, FollowDefined
<1> HIDE DEF F, G
<1>3. ASSUME NEW left \in Nat, left = 0 \/ left - 1 \in S, NEW v \in Visits(n)
      PROVE  Untold(Followed(n, F, left, v), Followed(t, G, left, v))
  <2>1. CASE v.target \in v.stack \/ left = 0
    BY <2>1 DEF Followed, Untold
  <2>2. CASE v.target \notin v.stack /\ left # 0
    <3> DEFINE f == F[left - 1]
               g == G[left - 1]
    <3>1. /\ Followed(n, F, left, v) = Enter(n, f, v) /\ Followed(t, G, left, v) = Enter(t, g, v)
      BY <2>2 DEF Followed
    <3>2. f \in Followers(n) /\ g \in Followers(n) /\ Tells(n, f, g)
      BY <1>2, <1>3, <2>2
    <3>3. v.ev \in Evaluations(n) /\ v.target \in Domains(n)
      BY VisitFields
    <3> HIDE DEF f, g
    <3> DEFINE asked == [v.ev EXCEPT !.queries = @ + 1]
               records == n.spf[v.target]
               voids == IF v.target \in n.otherTxt THEN asked.voids ELSE asked.voids + 1
    <3>4. PICK rec : rec = CHOOSE r \in n.spf[v.target] : TRUE
      OBVIOUS
    <3>5. \A m, h : m.spf = n.spf /\ m.otherTxt = n.otherTxt => Enter(m, h, v) =
            IF <<"TXT", v.target>> \in m.fails THEN [asked EXCEPT !.failed = TRUE]
            ELSE IF records = {} THEN Problem([asked EXCEPT !.voids = voids], v.via)
            ELSE IF Cardinality(records) > 1 \/ ~Parses(rec) THEN Problem(asked, v.via)
            ELSE WalkOn(m, h, Entered(n, v), rec)
      <4>1. \A m : m.spf = n.spf => (CHOOSE r \in m.spf[v.target] : TRUE) = rec
        BY <3>4
      <4> DEFINE passes == ~v.top /\ Alls(rec) # {} /\ AllOf(rec).qualifier = "+"
                 entered == IF passes THEN [asked EXCEPT !.permissive = Append(@, v.via)] ELSE asked
                 next(e) == [v EXCEPT !.ev = e, !.stack = @ \cup {v.target}]
      <4>2. Entered(n, v) = next(Prefetch(entered, rec))
        BY <3>4 DEF Entered
      <4>3. \A m, h : m.spf = n.spf /\ m.otherTxt = n.otherTxt => Enter(m, h, v) =
              IF <<"TXT", v.target>> \in m.fails THEN [asked EXCEPT !.failed = TRUE]
              ELSE IF records = {} THEN Problem([asked EXCEPT !.voids = voids], v.via)
              ELSE IF Cardinality(records) > 1 \/ ~Parses(rec) THEN Problem(asked, v.via)
              ELSE Walk(m, h, next(entered), rec)
        BY <3>4, <4>1 DEF Enter
      <4> HIDE DEF entered, asked, records, voids
      <4>4. \A e, f1 : next(e).ev = e /\ [next(e) EXCEPT !.ev = f1] = next(f1)
        BY DEF Visits
      <4>5. [next(entered) EXCEPT !.ev = Prefetch(@, rec)] = next(Prefetch(entered, rec))
        BY Zenon, <4>4
      <4> HIDE DEF next
      <4>6. \A m, h : Walk(m, h, next(entered), rec) = WalkOn(m, h, Entered(n, v), rec)
        BY <4>2, <4>5, WalkBegins
      <4> QED BY Zenon, <4>3, <4>6
    <3>6. [asked EXCEPT !.failed = TRUE].failed
      BY <3>3 DEF Evaluations
    <3>7. t.spf = n.spf /\ t.otherTxt = n.otherTxt /\ t.fails = {}
      BY DEF SameRecords
    <3>8. CASE records # {} /\ Parses(rec)
      <4>1. rec \in Seq(Terms(n)) /\ Entered(n, v) \in Visits(n)
        BY <1>1, <3>3, <3>4, <3>8, EnteredTyped DEF SpfTyped
      <4>2. Untold(WalkOn(n, f, Entered(n, v), rec), WalkOn(t, g, Entered(n, v), rec))
        BY <3>2, <3>8, <4>1, WalkUntold
      <4> HIDE DEF asked, records, voids
      <4> QED BY <3>1, <3>5, <3>6, <3>7, <4>2 DEF Untold
    <3>9. CASE ~(records # {} /\ Parses(rec))
      <4> HIDE DEF asked, records, voids
      <4> QED BY <3>1, <3>5, <3>6, <3>7, <3>9 DEF Untold
    <3> QED BY <3>8, <3>9
  <2> QED BY <2>1, <2>2
<1>4. ASSUME NEW left \in Nat, left = 0 \/ left - 1 \in S PROVE left \in S
  <2>1. \A v \in Visits(n) : Untold(F[left][v], G[left][v])
    BY <1>2, <1>3, <1>4
  <2> QED BY <2>1 DEF Tells
<1>5. S = Nat
  <2>1. S \in SUBSET Nat /\ \A left \in Nat : left + 1 \in Nat /\ (left + 1) - 1 = left
    OBVIOUS
  <2> HIDE DEF S
  <2>2. 0 \in S /\ \A left \in S : left + 1 \in S
    BY <1>4, <2>1
  <2> QED BY <2>1, <2>2, Induction
<1> QED BY <1>5 DEF F, G

LEMMA EvaluationUntold ==
    ASSUME NEW n, NEW t, SameRecords(n, t)
    PROVE  /\ Evaluated(t) = Evaluated(n) /\ TheRecord(t) = TheRecord(n)
           /\ Evaluated(n) => Untold(Evaluation(n), Evaluation(t))
<1>1. TheRecord(t) = TheRecord(n) /\ Evaluated(t) = Evaluated(n)
  BY DEF TheRecord, Evaluated, SameRecords
<1>2. ASSUME Evaluated(n) PROVE Untold(Evaluation(n), Evaluation(t))
  <2> DEFINE f == Follow(n)[MaxDepth]
             g == Follow(t)[MaxDepth]
             rec == TheRecord(n)
  <2>1. SpfTyped(n) /\ SpfTyped(t) /\ Followers(t) = Followers(n) /\ MaxDepth \in Nat
    BY SameTypes, SpfAssumption DEF SameRecords
  <2>2. f \in Followers(n) /\ g \in Followers(n) /\ Tells(n, f, g)
    BY <2>1, FollowDefined, FollowUntold
  <2>3. rec \in Seq(Terms(n)) /\ Parses(rec) /\ FirstVisit(n) \in Visits(n)
    BY <1>2, <2>1, TheOneRecord, FirstVisited DEF Evaluated
  <2>4. Evaluation(n) = WalkOn(n, f, FirstVisit(n), rec) /\ Evaluation(t) = WalkOn(t, g, FirstVisit(n), rec)
    BY <1>1, EvaluationOf DEF FirstVisit
  <2> HIDE DEF f, g, rec
  <2> QED BY <2>2, <2>3, <2>4, WalkUntold
<1> QED BY <1>1, <1>2

\* A check that loads the SPF record judges the evaluation that nothing failed in.
LEMMA LoadHonest ==
    ASSUME NEW n, NEW t, SameRecords(n, t), t.exists = n.exists, t.mx = n.mx, NEW v, NEW w,
           (Evaluated(n) => Evaluation(n) = Evaluation(t)) => Honest(v, w)
    PROVE  Honest(loadSPF(n, v), loadSPF(t, w))
<1> DEFINE x == Ask(n, <<"TXT", "self">>, IF Evaluated(n) /\ Evaluation(n).failed THEN Error ELSE v)
           y == Ask(t, <<"TXT", "self">>, IF Evaluated(t) /\ Evaluation(t).failed THEN Error ELSE w)
<1>1. t.fails = {}
  BY DEF SameRecords
<1>2. Honest(x, y)
  BY <1>1, EvaluationUntold DEF Ask, Honest, Untold
<1>3. loadSPF(n, v) = loadMX(n, x) /\ loadSPF(t, w) = loadMX(t, y)
  BY DEF loadSPF
<1> HIDE DEF x, y
<1> QED BY <1>1, <1>2, <1>3, MailHonest

LEMMA SPFHonest ==
    ASSUME NEW n, NEW t, SameRecords(n, t), t.exists = n.exists, t.mx = n.mx
    PROVE  /\ Honest(SPFMissing(n), SPFMissing(t)) /\ Honest(SPFMultiple(n), SPFMultiple(t))
           /\ Honest(SPFSyntax(n), SPFSyntax(t)) /\ Honest(SPFLookupLimit(n), SPFLookupLimit(t))
           /\ Honest(SPFVoidLookups(n), SPFVoidLookups(t)) /\ Honest(SPFPermissiveAll(n), SPFPermissiveAll(t))
<1>1. t.spf = n.spf /\ Evaluated(t) = Evaluated(n) /\ TheRecord(t) = TheRecord(n)
  BY EvaluationUntold DEF SameRecords
<1>2. Honest(SPFMissing(n), SPFMissing(t)) /\ Honest(SPFMultiple(n), SPFMultiple(t))
  BY <1>1, LoadHonest DEF SPFMissing, SPFMultiple, Honest
<1>3. Honest(SPFSyntax(n), SPFSyntax(t))
  <2> DEFINE v(m) == IF Evaluated(m) THEN {About(where) : where \in Evaluation(m).problems}
                     ELSE If(Cardinality(m.spf["self"]) = 1, OnTarget)
  <2>1. (Evaluated(n) => Evaluation(n) = Evaluation(t)) => v(n) = v(t)
    BY <1>1
  <2>2. SPFSyntax(n) = loadSPF(n, v(n)) /\ SPFSyntax(t) = loadSPF(t, v(t))
    BY DEF SPFSyntax
  <2> HIDE DEF v
  <2> QED BY <2>1, <2>2, LoadHonest DEF Honest
<1>4. Honest(SPFLookupLimit(n), SPFLookupLimit(t))
  <2> DEFINE v(m) == If(Evaluated(m) /\ Evaluation(m).lookups > MaxLookups, OnTarget)
  <2>1. (Evaluated(n) => Evaluation(n) = Evaluation(t)) => v(n) = v(t)
    BY <1>1
  <2>2. SPFLookupLimit(n) = loadSPF(n, v(n)) /\ SPFLookupLimit(t) = loadSPF(t, v(t))
    BY DEF SPFLookupLimit
  <2> HIDE DEF v
  <2> QED BY <2>1, <2>2, LoadHonest DEF Honest
<1>5. Honest(SPFVoidLookups(n), SPFVoidLookups(t))
  <2> DEFINE v(m) == If(Evaluated(m) /\ Evaluation(m).voids > MaxVoidLookups, OnTarget)
  <2>1. (Evaluated(n) => Evaluation(n) = Evaluation(t)) => v(n) = v(t)
    BY <1>1
  <2>2. SPFVoidLookups(n) = loadSPF(n, v(n)) /\ SPFVoidLookups(t) = loadSPF(t, v(t))
    BY DEF SPFVoidLookups
  <2> HIDE DEF v
  <2> QED BY <2>1, <2>2, LoadHonest DEF Honest
<1>6. Honest(SPFPermissiveAll(n), SPFPermissiveAll(t))
  <2> DEFINE severity(ev) == CASE ev.effective = "+" -> "default" [] OTHER -> "low"
             open(ev) == \/ ev.effective \in {"+", "?"}
                         \/ ev.effective = "none" /\ Redirects(TheRecord(n)) = {}
             judged(ev) == IF ~IsInjective(ev.permissive) THEN Error
                           ELSE If(open(ev), Finding(<<>>, severity(ev)))
                                  \cup {About(via) : via \in ToSet(ev.permissive)}
             v(m) == IF ~Evaluated(n) THEN {} ELSE judged(Evaluation(m))
  <2>1. (Evaluated(n) => Evaluation(n) = Evaluation(t)) => v(n) = v(t)
    <3> HIDE DEF judged
    <3> QED OBVIOUS
  <2>2. SPFPermissiveAll(n) = loadSPF(n, v(n))
    BY DEF SPFPermissiveAll
  <2>3. SPFPermissiveAll(t) = loadSPF(t, v(t))
    BY <1>1 DEF SPFPermissiveAll
  <2> HIDE DEF v
  <2> QED BY <2>1, <2>2, <2>3, LoadHonest DEF Honest
<1> QED BY <1>2, <1>3, <1>4, <1>5, <1>6

LEMMA DKIMHonest ==
    ASSUME NEW n, NEW t, SameRecords(n, t), t.exists = n.exists, t.mx = n.mx,
           t.selectors = n.selectors, t.guessed = n.guessed, t.dkim = n.dkim
    PROVE  Honest(DKIMMissing(n), DKIMMissing(t)) /\ Honest(DKIMWeakKey(n), DKIMWeakKey(t))
<1>1. /\ Selectors(t) = Selectors(n) /\ Guessed(t) = Guessed(n) /\ t.fails = {}
      /\ \A s : keyOf(t, s) = keyOf(n, s)
  BY DEF Selectors, Guessed, keyOf, SameRecords
<1>2. ASSUME NEW v, NEW w, Honest(v, w) PROVE Honest(loadDKIM(n, v), loadDKIM(t, w))
  <2> DEFINE x == IF \E s \in Selectors(n) : <<"DKIM", s>> \in n.fails THEN Error ELSE v
             y == IF \E s \in Selectors(t) : <<"DKIM", s>> \in t.fails THEN Error ELSE w
  <2>1. Honest(x, y)
    BY <1>1, <1>2 DEF Honest
  <2>2. loadDKIM(n, v) = loadMX(n, x) /\ loadDKIM(t, w) = loadMX(t, y)
    BY DEF loadDKIM
  <2> HIDE DEF x, y
  <2> QED BY <1>1, <2>1, <2>2, MailHonest
<1>3. Honest(DKIMMissing(n), DKIMMissing(t))
  <2> DEFINE none == {About(s) : s \in {x \in Selectors(n) : keyOf(n, x).state # "key"}}
             found == If(/\ ~sendsNoMail(n) /\ \A s \in Selectors(n) : keyOf(n, s).state # "key",
                         Finding("common-selectors", "info"))
             v(m) == IF ~Guessed(n) THEN none ELSE loadSPF(m, found)
  <2>1. sendsNoMail(t) = sendsNoMail(n)
    BY EvaluationUntold DEF sendsNoMail
  <2>2. Honest(loadSPF(n, found), loadSPF(t, found))
    <3> HIDE DEF found
    <3> QED BY LoadHonest DEF Honest
  <2>3. DKIMMissing(n) = loadDKIM(n, v(n)) /\ DKIMMissing(t) = loadDKIM(t, v(t))
    <3> DEFINE noneT == {About(s) : s \in {x \in Selectors(t) : keyOf(t, x).state # "key"}}
               foundT == If(/\ ~sendsNoMail(t) /\ \A s \in Selectors(t) : keyOf(t, s).state # "key",
                            Finding("common-selectors", "info"))
    <3>1. DKIMMissing(n) = loadDKIM(n, v(n))
      BY DEF DKIMMissing
    <3>2. DKIMMissing(t) = loadDKIM(t, IF ~Guessed(t) THEN noneT ELSE loadSPF(t, foundT))
      BY DEF DKIMMissing
    <3>3. noneT = none
      BY <1>1
    <3>4. foundT = found
      BY <1>1, <2>1
    <3> HIDE DEF none, noneT, found, foundT
    <3> QED BY <1>1, <3>1, <3>2, <3>3, <3>4
  <2>4. Honest(v(n), v(t))
    <3> HIDE DEF none, found
    <3> QED BY <2>2 DEF Honest
  <2> HIDE DEF v
  <2> QED BY <1>2, <2>3, <2>4
<1>4. Honest(DKIMWeakKey(n), DKIMWeakKey(t))
  <2>1. DKIMWeakKey(t) = loadDKIM(t, {Finding(s, IF keyOf(n, s).bits < 1024 THEN "critical" ELSE "default") :
          s \in {x \in Selectors(n) : LET k == keyOf(n, x)
                                      IN  k.state = "key" /\ k.type = "rsa" /\ k.bits < 2048}})
    BY <1>1 DEF DKIMWeakKey
  <2> QED BY <1>2, <2>1 DEF DKIMWeakKey, Honest
<1> QED BY <1>3, <1>4

\* No check takes a failure for an answer, whatever its network and memo.
LEMMA VerdictsHonest ==
    ASSUME NEW n, IsNetwork(n), NEW t, t = Truth(n), NEW asked,
           ~TakenForAnswer(n),
           n.family = "http" => \E g : asked = FetchedFor(g) /\ g.name = "apex" /\ Unrefused(n, g),
           NEW c \in FamilyChecks[n.family]
    PROVE  Honest(Verdicts(n, asked)[c], Verdicts(t, asked)[c])
<1> DEFINE family == n.family
<1>1. t.fails = {} /\ t.family = family /\ \A f \in Fields[family] : f # "fails" => t[f] = n[f]
  BY TruthOf
<1>2. family \in DOMAIN Fields
  BY DEF IsNetwork
<1>3. family # "starttls" => \A q \in n.fails : q[1] \notin {"axfr", "resetProbe", "STARTTLS", "connect"}
  BY NoneTaken
<1>4. family \in {"nameserver", "caa", "dnssec", "cname"} =>
        Verdicts(n, asked) = DnsVerdicts(n) /\ Verdicts(t, asked) = DnsVerdicts(t)
  BY <1>1 DEF Verdicts
<1>5. family \in {"mx", "spf", "dmarc", "dkim", "mtasts", "starttls"} =>
        Verdicts(n, asked) = MailVerdicts(n) /\ Verdicts(t, asked) = MailVerdicts(t)
  BY <1>1 DEF Verdicts
<1>6. CASE family = "nameserver"
  <2>1. t.apex = n.apex /\ t.ns = n.ns /\ t.axfr = n.axfr /\ t.recurses = n.recurses
    BY <1>1, <1>6 DEF Fields
  <2>2. Honest(AxfrAllowed(n), AxfrAllowed(t)) /\ Honest(OpenResolver(n), OpenResolver(t))
    BY <1>1, <1>3, <1>6, <2>1, NameserverHonest
  <2>3. c \in {"axfr_allowed", "open_resolver"}
    BY <1>6 DEF FamilyChecks
  <2>4. \A m : m.family = "nameserver" =>
          DnsVerdicts(m).axfr_allowed = AxfrAllowed(m) /\ DnsVerdicts(m).open_resolver = OpenResolver(m)
    BY DEF DnsVerdicts
  <2> QED BY <1>1, <1>4, <1>6, <2>2, <2>3, <2>4
<1>7. CASE family = "caa"
  <2>1. t.caa = n.caa /\ DOMAIN n.caa \subseteq Nat
    BY <1>1, <1>7 DEF Fields, IsNetwork
  <2>2. Honest(CAAMissing(n), CAAMissing(t)) /\ Honest(CAAInvalid(n), CAAInvalid(t))
    BY <1>1, <2>1, CAAHonest
  <2>3. c \in {"caa_missing", "caa_invalid"}
    BY <1>7 DEF FamilyChecks
  <2>4. \A m : m.family = "caa" =>
          DnsVerdicts(m).caa_missing = CAAMissing(m) /\ DnsVerdicts(m).caa_invalid = CAAInvalid(m)
    BY DEF DnsVerdicts
  <2> QED BY <1>1, <1>4, <1>7, <2>2, <2>3, <2>4
<1>8. CASE family = "dnssec"
  <2>1. t.apex = n.apex /\ t.keys = n.keys /\ t.ds = n.ds /\ t.keySigs = n.keySigs /\ t.soaSigs = n.soaSigs
    BY <1>1, <1>8 DEF Fields
  <2>2. /\ Honest(DNSSECMissing(n), DNSSECMissing(t)) /\ Honest(DNSSECInvalid(n), DNSSECInvalid(t))
        /\ Honest(DNSSECWeak(n), DNSSECWeak(t))
    BY <1>1, <2>1, DNSSECHonest
  <2>3. c \in {"dnssec_missing", "dnssec_invalid", "dnssec_weak"}
    BY <1>8 DEF FamilyChecks
  <2>4. \A m : m.family = "dnssec" =>
          /\ DnsVerdicts(m).dnssec_missing = DNSSECMissing(m) /\ DnsVerdicts(m).dnssec_invalid = DNSSECInvalid(m)
          /\ DnsVerdicts(m).dnssec_weak = DNSSECWeak(m)
    BY DEF DnsVerdicts
  <2> QED BY <1>1, <1>4, <1>8, <2>2, <2>3, <2>4
<1>9. CASE family = "cname"
  <2>1. t.cname = n.cname /\ CNamesTyped(n)
    BY <1>1, <1>9 DEF Fields, IsNetwork
  <2>2. \A x \in DOMAIN n.cname : <<"cut", x>> \notin n.fails
    BY <1>9 DEF TakenForAnswer
  <2>3. Honest(TakeoverPossible(n), TakeoverPossible(t)) /\ Honest(CNAMEDangling(n), CNAMEDangling(t))
    BY <1>1, <1>3, <1>9, <2>1, <2>2, CNameHonest
  <2>4. c \in {"takeover_possible", "cname_dangling"}
    BY <1>9 DEF FamilyChecks
  <2>5. \A m : m.family = "cname" =>
          DnsVerdicts(m).takeover_possible = TakeoverPossible(m) /\ DnsVerdicts(m).cname_dangling = CNAMEDangling(m)
    BY DEF DnsVerdicts
  <2> QED BY <1>1, <1>4, <1>9, <2>3, <2>4, <2>5
<1>10. CASE family = "mx"
  <2>1. /\ t.exists = n.exists /\ t.mx = n.mx /\ t.literals = n.literals /\ t.ptr = n.ptr /\ t.addrs = n.addrs
        /\ t.expected = n.expected /\ t.zones = n.zones /\ t.refuses = n.refuses /\ t.lists = n.lists
    BY <1>1, <1>10 DEF Fields, MailFields
  <2>2. MXTyped(n) /\ HalfAnswered(n) = {}
    BY <1>10 DEF IsNetwork, TakenForAnswer
  <2>3. /\ Honest(MXMissing(n), MXMissing(t)) /\ Honest(MXUnresolvable(n), MXUnresolvable(t))
        /\ Honest(MXUnexpected(n), MXUnexpected(t)) /\ Honest(FCrDNS(n), FCrDNS(t))
        /\ Honest(DNSBLListed(n), DNSBLListed(t))
    BY <1>1, <2>1, <2>2, MXHonest
  <2>4. c \in {"mx_missing", "mx_unresolvable", "mx_unexpected", "fcrdns", "dnsbl_listed"}
    BY <1>10 DEF FamilyChecks
  <2>5. \A m : m.family = "mx" =>
          /\ MailVerdicts(m).mx_missing = MXMissing(m) /\ MailVerdicts(m).mx_unresolvable = MXUnresolvable(m)
          /\ MailVerdicts(m).mx_unexpected = MXUnexpected(m) /\ MailVerdicts(m).fcrdns = FCrDNS(m)
          /\ MailVerdicts(m).dnsbl_listed = DNSBLListed(m)
    BY DEF MailVerdicts
  <2> QED BY <1>1, <1>5, <1>10, <2>3, <2>4, <2>5
<1>11. CASE family = "spf"
  <2>1. t.exists = n.exists /\ t.mx = n.mx /\ SameRecords(n, t)
    BY <1>1, <1>11 DEF Fields, MailFields, SpfFields, SameRecords, IsNetwork
  <2>2. /\ Honest(SPFMissing(n), SPFMissing(t)) /\ Honest(SPFMultiple(n), SPFMultiple(t))
        /\ Honest(SPFSyntax(n), SPFSyntax(t)) /\ Honest(SPFLookupLimit(n), SPFLookupLimit(t))
        /\ Honest(SPFVoidLookups(n), SPFVoidLookups(t)) /\ Honest(SPFPermissiveAll(n), SPFPermissiveAll(t))
    BY <2>1, SPFHonest
  <2>3. c \in {"spf_missing", "spf_multiple", "spf_syntax", "spf_lookup_limit", "spf_void_lookups", "spf_permissive_all"}
    BY <1>11 DEF FamilyChecks
  <2>4. \A m : m.family = "spf" =>
          /\ MailVerdicts(m).spf_missing = SPFMissing(m) /\ MailVerdicts(m).spf_multiple = SPFMultiple(m)
          /\ MailVerdicts(m).spf_syntax = SPFSyntax(m) /\ MailVerdicts(m).spf_lookup_limit = SPFLookupLimit(m)
          /\ MailVerdicts(m).spf_void_lookups = SPFVoidLookups(m)
          /\ MailVerdicts(m).spf_permissive_all = SPFPermissiveAll(m)
    BY DEF MailVerdicts
  <2> QED BY <1>1, <1>5, <1>11, <2>2, <2>3, <2>4
<1>12. CASE family = "dmarc"
  <2>1. t.exists = n.exists /\ t.mx = n.mx /\ t.isOrg = n.isOrg /\ t.dmarc = n.dmarc /\ t.authorized = n.authorized
    BY <1>1, <1>12 DEF Fields, MailFields
  <2>2. /\ Honest(DMARCMissing(n), DMARCMissing(t)) /\ Honest(DMARCSyntax(n), DMARCSyntax(t))
        /\ Honest(DMARCPolicyNone(n), DMARCPolicyNone(t)) /\ Honest(DMARCNoReporting(n), DMARCNoReporting(t))
        /\ Honest(DMARCExternalAuth(n), DMARCExternalAuth(t))
    BY <1>1, <2>1, DMARCHonest
  <2>3. c \in {"dmarc_missing", "dmarc_syntax", "dmarc_policy_none", "dmarc_no_reporting", "dmarc_external_auth"}
    BY <1>12 DEF FamilyChecks
  <2>4. \A m : m.family = "dmarc" =>
          /\ MailVerdicts(m).dmarc_missing = DMARCMissing(m) /\ MailVerdicts(m).dmarc_syntax = DMARCSyntax(m)
          /\ MailVerdicts(m).dmarc_policy_none = DMARCPolicyNone(m)
          /\ MailVerdicts(m).dmarc_no_reporting = DMARCNoReporting(m)
          /\ MailVerdicts(m).dmarc_external_auth = DMARCExternalAuth(m)
    BY DEF MailVerdicts
  <2> QED BY <1>1, <1>5, <1>12, <2>2, <2>3, <2>4
<1>13. CASE family = "dkim"
  <2>1. /\ t.exists = n.exists /\ t.mx = n.mx /\ SameRecords(n, t)
        /\ t.selectors = n.selectors /\ t.guessed = n.guessed /\ t.dkim = n.dkim
    BY <1>1, <1>13 DEF Fields, MailFields, SpfFields, SameRecords, IsNetwork
  <2>2. Honest(DKIMMissing(n), DKIMMissing(t)) /\ Honest(DKIMWeakKey(n), DKIMWeakKey(t))
    BY <2>1, DKIMHonest
  <2>3. c \in {"dkim_missing", "dkim_weak_key"}
    BY <1>13 DEF FamilyChecks
  <2>4. \A m : m.family = "dkim" =>
          MailVerdicts(m).dkim_missing = DKIMMissing(m) /\ MailVerdicts(m).dkim_weak_key = DKIMWeakKey(m)
    BY DEF MailVerdicts
  <2> QED BY <1>1, <1>5, <1>13, <2>2, <2>3, <2>4
<1>14. CASE family = "mtasts"
  <2>1. t.exists = n.exists /\ t.mx = n.mx /\ t.sts = n.sts /\ t.policy = n.policy /\ t.rpt = n.rpt
    BY <1>1, <1>14 DEF Fields, MailFields
  <2>2. <<"policy", "refused">> \notin n.fails
    BY <1>14 DEF TakenForAnswer
  <2>3. /\ Honest(MTASTSMissing(n), MTASTSMissing(t)) /\ Honest(MTASTSInvalid(n), MTASTSInvalid(t))
        /\ Honest(MTASTSTesting(n), MTASTSTesting(t)) /\ Honest(TLSRPTMissing(n), TLSRPTMissing(t))
    BY <1>1, <2>1, <2>2, MTASTSHonest
  <2>4. c \in {"mtasts_missing", "mtasts_invalid", "mtasts_testing", "tlsrpt_missing"}
    BY <1>14 DEF FamilyChecks
  <2>5. \A m : m.family = "mtasts" =>
          /\ MailVerdicts(m).mtasts_missing = MTASTSMissing(m) /\ MailVerdicts(m).mtasts_invalid = MTASTSInvalid(m)
          /\ MailVerdicts(m).mtasts_testing = MTASTSTesting(m) /\ MailVerdicts(m).tlsrpt_missing = TLSRPTMissing(m)
    BY DEF MailVerdicts
  <2> QED BY <1>1, <1>5, <1>14, <2>3, <2>4, <2>5
<1>15. CASE family = "starttls"
  <2>1. t.exists = n.exists /\ t.mx = n.mx /\ t.smtp = n.smtp
    BY <1>1, <1>15 DEF Fields, MailFields
  <2>2. \A q \in n.fails : q[1] # "STARTTLS"
    BY <1>15 DEF TakenForAnswer
  <2>3. /\ Honest(StarttlsUnsupported(n), StarttlsUnsupported(t)) /\ Honest(StarttlsCertInvalid(n), StarttlsCertInvalid(t))
        /\ Honest(StarttlsCertExpiring(n), StarttlsCertExpiring(t))
    BY <1>1, <2>1, <2>2, STARTTLSHonest
  <2>4. c \in {"starttls_unsupported", "starttls_cert_invalid", "starttls_cert_expiring"}
    BY <1>15 DEF FamilyChecks
  <2>5. \A m : m.family = "starttls" =>
          /\ MailVerdicts(m).starttls_unsupported = StarttlsUnsupported(m)
          /\ MailVerdicts(m).starttls_cert_invalid = StarttlsCertInvalid(m)
          /\ MailVerdicts(m).starttls_cert_expiring = StarttlsCertExpiring(m)
    BY DEF MailVerdicts
  <2> QED BY <1>1, <1>5, <1>15, <2>3, <2>4, <2>5
<1>16. ASSUME family \in {"tls", "http"}
       PROVE  /\ SameServers(n, t) /\ t.tls = n.tls /\ t.declared = n.declared /\ t.urls = n.urls
              /\ \A h \in TLSHosts(n) : h.name \in DOMAIN n.addrs /\ Unrefused(n, h)
              /\ WebTyped(n)
  <2>1. t.tls = n.tls /\ t.declared = n.declared /\ t.urls = n.urls /\ t.addrs = n.addrs /\ t.reach = n.reach
    BY <1>1, <1>16 DEF Fields, WebFields
  <2>2. WebTyped(n)
    BY <1>16 DEF IsNetwork
  <2>3. HalfAnswered(n) = {} /\ \A h \in TLSHosts(n) : h.explicit \/ ~Refuses(n, h.name)
    BY <1>16 DEF TakenForAnswer
  <2>4. SameServers(n, t)
    BY <1>1, <2>1, <2>2, <2>3 DEF SameServers, WebTyped
  <2> QED BY <2>1, <2>2, <2>3, <2>4 DEF WebTyped, Unrefused
<1>17. CASE family = "tls"
  <2>1. \A q \in n.fails : q[1] # "resetProbe"
    BY <1>3, <1>17
  <2>2. /\ Honest(CertInvalid(n), CertInvalid(t)) /\ Honest(HostnameMismatch(n), HostnameMismatch(t))
        /\ Honest(CertExpiring(n), CertExpiring(t)) /\ Honest(NoModernTLS(n), NoModernTLS(t))
        /\ Honest(DeprecatedTLS(n), DeprecatedTLS(t)) /\ Honest(WeakCiphers(n), WeakCiphers(t))
    BY <1>16, <1>17, <2>1, TLSHonest
  <2>3. c \in {"cert_invalid", "hostname_mismatch", "cert_expiring", "no_modern_tls", "deprecated_tls", "weak_ciphers"}
    BY <1>17 DEF FamilyChecks
  <2>4. Verdicts(n, asked) = TlsVerdicts(n) /\ Verdicts(t, asked) = TlsVerdicts(t)
    BY <1>1, <1>17 DEF Verdicts
  <2>5. \A m : /\ TlsVerdicts(m).cert_invalid = CertInvalid(m) /\ TlsVerdicts(m).hostname_mismatch = HostnameMismatch(m)
               /\ TlsVerdicts(m).cert_expiring = CertExpiring(m) /\ TlsVerdicts(m).no_modern_tls = NoModernTLS(m)
               /\ TlsVerdicts(m).deprecated_tls = DeprecatedTLS(m) /\ TlsVerdicts(m).weak_ciphers = WeakCiphers(m)
    BY DEF TlsVerdicts
  <2> QED BY <2>2, <2>3, <2>4, <2>5
<1>18. CASE family = "http"
  <2>1. PICK g : asked = FetchedFor(g) /\ g.name = "apex" /\ Unrefused(n, g)
    BY <1>18
  <2>2. t.page = n.page /\ PagesTyped(n)
    BY <1>1, <1>18 DEF Fields, IsNetwork
  <2>3. PlainServed(n)
    BY <1>18 DEF TakenForAnswer, PlainServed
  <2>4. "apex" \in DOMAIN n.addrs
    BY <1>16, <1>18 DEF WebTyped
  <2>5. SameSite(n, t, g)
    BY <1>16, <1>18, <2>1, <2>2, <2>3, <2>4 DEF SameSite
  <2>6. \A m : Verdicts(m, asked) = HttpVerdicts(m, FetchedFor(g)) \/ m.family # "http"
    BY <2>1 DEF Verdicts
  <2>7. c \in {"hsts_missing", "hsts_weak", "preload_not_ready", "redirect_missing", "csp_missing",
               "frame_missing", "nosniff_missing", "referrer_missing", "sensitive_path"}
    BY <1>18 DEF FamilyChecks
  <2>8. \A m, a : /\ HttpVerdicts(m, a).hsts_missing = HSTSMissing(m, a) /\ HttpVerdicts(m, a).hsts_weak = HSTSWeak(m, a)
                  /\ HttpVerdicts(m, a).preload_not_ready = PreloadNotReady(m, a)
                  /\ HttpVerdicts(m, a).redirect_missing = RedirectMissing(m, a)
                  /\ HttpVerdicts(m, a).csp_missing = CSPMissing(m, a)
                  /\ HttpVerdicts(m, a).frame_missing = FrameProtectionMissing(m, a)
                  /\ HttpVerdicts(m, a).nosniff_missing = NosniffMissing(m, a)
                  /\ HttpVerdicts(m, a).referrer_missing = ReferrerPolicyMissing(m, a)
                  /\ HttpVerdicts(m, a).sensitive_path = SensitivePath(m, a)
    BY DEF HttpVerdicts
  <2>9. \A u \in DOMAIN n.page : u.path \in sensitivePaths => <<"cut", u>> \notin n.fails
    BY <1>18 DEF TakenForAnswer
  <2> DEFINE a == FetchedFor(g)
  <2>10. /\ Honest(HSTSMissing(n, a), HSTSMissing(t, a)) /\ Honest(HSTSWeak(n, a), HSTSWeak(t, a))
         /\ Honest(PreloadNotReady(n, a), PreloadNotReady(t, a)) /\ Honest(RedirectMissing(n, a), RedirectMissing(t, a))
         /\ Honest(SensitivePath(n, a), SensitivePath(t, a))
    BY <2>5, <2>9, HSTSHonest, PreloadHonest, RedirectHonest, FilesHonest
  <2>11. /\ Honest(CSPMissing(n, a), CSPMissing(t, a))
         /\ Honest(FrameProtectionMissing(n, a), FrameProtectionMissing(t, a))
         /\ Honest(NosniffMissing(n, a), NosniffMissing(t, a))
         /\ Honest(ReferrerPolicyMissing(n, a), ReferrerPolicyMissing(t, a))
    BY <2>5, HeadersHonest DEF CSPMissing, FrameProtectionMissing, NosniffMissing, ReferrerPolicyMissing
  <2> HIDE DEF a
  <2> QED BY <1>1, <1>18, <2>6, <2>7, <2>8, <2>10, <2>11 DEF a
<1> QED BY <1>2, <1>6, <1>7, <1>8, <1>9, <1>10, <1>11, <1>12, <1>13, <1>14, <1>15, <1>17, <1>18 DEF Fields

\* A check whose questions failed says so, or says what it would have said had
\* none failed (checks, "a check that could not reach a verdict returns an error").
THEOREM FailuresAreNoVerdicts == Spec => []FailureIsNoVerdict
<1>1. RunInv => FailureIsNoVerdict
  <2> SUFFICES ASSUME RunInv, Ran, ~TakenForAnswer(net), NEW c \in DOMAIN verdicts
               PROVE  verdicts[c] \in {Error, Verdicts(Truth(net), memo)[c]}
    BY DEF FailureIsNoVerdict, HonestBeside
  <2>1. IsNetwork(net) /\ verdicts = Verdicts(net, memo) /\ net.family \in DOMAIN Fields
    BY RunFacts DEF IsNetwork
  <2>2. c \in FamilyChecks[net.family]
    BY <2>1, ChecksOf
  <2>3. ASSUME net.family = "http"
        PROVE  \E g : memo = FetchedFor(g) /\ g.name = "apex" /\ Unrefused(net, g)
    <3>1. PICK g \in FirstAskers : memo = FetchedFor(g)
      BY <2>3, RunFacts
    <3>2. g.name = "apex"
      BY DEF FirstAskers, Host
    <3>3. CASE g.explicit
      BY <3>1, <3>2, <3>3 DEF Unrefused
    <3>4. CASE ~g.explicit
      <4>1. UndeclaredFirst
        <5>1. DOMAIN memo = {ApexHome} /\ memo[ApexHome] = g
          BY <3>1, MemoOf
        <5>2. memo # <<>>
          BY <2>3 DEF RunInv, Ran
        <5> QED BY <3>4, <5>1, <5>2 DEF UndeclaredFirst
      <4>2. ~Refuses(net, "apex")
        BY <2>3, <4>1 DEF TakenForAnswer
      <4> QED BY <3>1, <3>2, <4>2 DEF Unrefused
    <3> QED BY <3>3, <3>4
  <2>4. Honest(Verdicts(net, memo)[c], Verdicts(Truth(net), memo)[c])
    BY <2>1, <2>2, <2>3, VerdictsHonest
  <2> QED BY <2>1, <2>4 DEF Honest
<1> QED BY <1>1, RunInductive, PTL

=============================================================================
