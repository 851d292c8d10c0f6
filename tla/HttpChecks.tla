----------------------------- MODULE HttpChecks ----------------------------
(***************************************************************************)
(* The fetches of a run and the http checks (web.Get and                   *)
(* checks/http/http.go).  A fetch is shared by all who ask for the URL     *)
(* with the same redirects; memo says for which host each was made first.  *)
(***************************************************************************)
EXTENDS WebChecks

(* n.page gives for every URL the response: its status, where it points    *)
(* (NoURL: nowhere), its HSTS directives, its other headers, whether it is *)
(* HTML, which file its body is, and which file the start of the body,     *)
(* taken for the whole, would be.  A request fails before its header       *)
(* ("answer") or while its body is read ("cut").                           *)

CONSTANTS
    MaxRedirects,  \* redirects that Get follows
    NoURL

ASSUME RedirectsAssumption == MaxRedirects \in Nat

Location(n, u) == IF n.page[u].status = 301 THEN n.page[u].location ELSE NoURL

\* One request.  A failed TLS handshake is an error of the request.
Request(n, u, dialed) ==
    LET failed == dialed = "rejected" \/ (dialed = "ok" /\ <<"answer", u>> \in n.fails)
    IN  [out |-> IF failed THEN "error" ELSE dialed, url |-> u]
get(n, h, u) ==
    Request(n, u, IF u.scheme = "https" THEN Connect(n, h, AllVersions, AllSuites) ELSE Dial(n, h, 80))

(***************************************************************************)
(* CheckRedirect: response r, or where it leads as long as that is one of  *)
(* the URLs to follow and redirects are left.                              *)
(***************************************************************************)
Responses(n) == [out : {"ok", "absent", "unreachable", "error"}, url : DOMAIN n.page]

Following(n, follow) ==
    LET F[left \in Nat] == [r \in Responses(n) |->
            LET next == Location(n, r.url)
            IN  IF r.out # "ok" \/ next \notin follow THEN r
                ELSE IF left = 0 THEN [r EXCEPT !.out = "error"]
                ELSE F[left - 1][get(n, Host(next.host, TRUE), next)]]
    IN  F

(***************************************************************************)
(* web.Get: the key of the memo is the URL and the name of the redirects   *)
(* to follow.  Whether the host was declared is not part of it, so the     *)
(* first asker's host decides what a refused connection is.                *)
(***************************************************************************)
Key(u, name) == <<u, name>>
Get(n, memo, h, u, name, follow) ==
    LET key == Key(u, name)
        first == IF key \in DOMAIN memo THEN memo[key] ELSE h
    IN  Following(n, follow)[MaxRedirects][get(n, first, u)]

\* What web.Each makes of an item by how its fetch went.
Fetched(r, verdict) ==
    CASE r.out = "ok" -> verdict
      [] r.out = "absent" -> Absent
      [] OTHER -> Error

-----------------------------------------------------------------------------
(* HSTS: a header is a sequence of directives <<name, value>>, where a     *)
(* max-age is a number or NotANumber.                                      *)

hstsMinAge == 180
hstsPreloadAge == 365
NotANumber == -1

Directives(v, name) == {i \in DOMAIN v : v[i][1] = name}
MaxAge(v) ==
    LET good == {i \in Directives(v, "max-age") : v[i][2] # NotANumber}
    IN  IF good = {} THEN -1 ELSE v[CHOOSE i \in good : \A j \in good : j <= i][2]
Invalid(v) ==
    \/ \E i, j \in DOMAIN v : i # j /\ v[i][1] = v[j][1]
    \/ \E i \in Directives(v, "max-age") : v[i][2] = NotANumber
    \/ Directives(v, "max-age") = {}

(***************************************************************************)
(* httpsResponses: the first response with the header is judged; a host    *)
(* that only sends visitors elsewhere is not.                              *)
(***************************************************************************)
Judgeable(n, first, landed, sameHost) ==
    LET to == Location(n, first.url)
        elsewhere == \/ to \notin sameHost
                     \/ /\ landed.out = "ok"
                        /\ Location(n, landed.url) # NoURL
                        /\ n.page[landed.url].hsts = <<>>
    IN  IF first.out # "ok" \/ n.page[first.url].hsts # <<>> \/ to = NoURL THEN first
        ELSE IF elsewhere THEN [first EXCEPT !.out = "absent"]
        ELSE landed

httpsResponses(n, memo) ==
    LET sameHost(h) == {u \in DOMAIN n.page : u.scheme = "https" /\ u.host = h.name}
    IN  [h \in TLSHosts(n) |->
            Judgeable(n, Get(n, memo, h, Home("https", h.name), "", {}),
                      Get(n, memo, h, Home("https", h.name), "same-host", sameHost(h)), sameHost(h))]

\* The hosts whose header is among the bad ones.
OfHSTS(n, responses, bad) ==
    Each([h \in DOMAIN responses |->
        Fetched(responses[h], If(n.page[responses[h].url].hsts \in bad, About(h.name)))])

Weak(v) == v # <<>> /\ (Invalid(v) \/ MaxAge(v) < hstsMinAge)

HSTSMissing(n, memo) == OfHSTS(n, httpsResponses(n, memo), {<<>>})
HSTSWeak(n, memo) == OfHSTS(n, httpsResponses(n, memo), {v \in {n.page[u].hsts : u \in DOMAIN n.page} : Weak(v)})

(***************************************************************************)
(* The apex is asked as a host nobody declared, for its header and, when   *)
(* that asks for preloading, for the redirect of its plain page.           *)
(***************************************************************************)
PreloadOf(n, r, plain) ==
    LET v == n.page[r.url].hsts
        to == Location(n, plain.url)
        redirects == to # NoURL /\ to.scheme = "https" /\ to.host = "apex"
        ready == /\ MaxAge(v) >= hstsPreloadAge
                 /\ Directives(v, "includesubdomains") # {}
                 /\ plain.out = "ok" => redirects
    IN  CASE r.out = "absent" -> {}
          [] r.out = "ok" /\ Directives(v, "preload") = {} -> {}
          [] r.out = "ok" /\ plain.out # "error" -> If(~ready, About("apex"))
          [] OTHER -> Error

PreloadNotReady(n, memo) ==
    LET apex == Host("apex", FALSE)
    IN  PreloadOf(n, Get(n, memo, apex, Home("https", "apex"), "", {}),
                  Get(n, memo, apex, Home("http", "apex"), "", {}))

\* A port 80 that cannot be reached serves no site to redirect.
ToHTTPS(n, h, r) ==
    LET to == Location(n, r.url)
    IN  IF r.out = "unreachable" THEN Absent
        ELSE Fetched(r, If(to = NoURL \/ to.scheme # "https", About(h.name)))

RedirectMissing(n, memo) ==
    Each([h \in TLSHosts(n) |->
        ToHTTPS(n, h, Get(n, memo, Host(h.name, FALSE), Home("http", h.name), "plain",
                          {u \in DOMAIN n.page : u.scheme = "http"}))])

-----------------------------------------------------------------------------
(* The header checks judge the pages visitors land on within the target.   *)

Hosts(n) == {"apex", "www"} \cup n.declared
InScope(n) == {u \in DOMAIN n.page : u.host \in Hosts(n)}

Landed(n, p, r) ==
    Fetched(r, IF n.page[r.url].status >= 400 /\ p.host.explicit THEN Error
               ELSE If(n.page[r.url].status = 200 /\ r.url \in InScope(n), r.url))

pages(n, memo) ==
    Each([p \in Pages(n) |-> Landed(n, p, Get(n, memo, p.host, p.url, "in-scope", InScope(n)))])

\* Each page has to have one of the headers that will do.
WithoutHeader(n, landed, htmlOnly, headers) ==
    LET bad == {u \in landed : (htmlOnly => n.page[u].html) /\ n.page[u].headers \cap headers = {}}
    IN  With(landed, {About(<<u.host, u.path>>) : u \in bad})
headerCheck(n, memo, htmlOnly, headers) == WithoutHeader(n, pages(n, memo), htmlOnly, headers)

CSPMissing(n, memo) == headerCheck(n, memo, TRUE, {"csp", "frame-ancestors"})
FrameProtectionMissing(n, memo) == headerCheck(n, memo, TRUE, {"xfo", "frame-ancestors"})
NosniffMissing(n, memo) == headerCheck(n, memo, FALSE, {"nosniff"})
ReferrerPolicyMissing(n, memo) == headerCheck(n, memo, TRUE, {"referrer"})

sensitivePaths == {"/.git/HEAD", "/.env"}

\* get drops the error of reading the body, and keeps what came before it.
ReadBody(n, u) == IF <<"cut", u>> \in n.fails THEN n.page[u].start ELSE n.page[u].file

\* The content has to prove that it is the file: many sites answer every path.
SensitivePath(n, memo) ==
    Each([p \in TLSHosts(n) \X sensitivePaths |->
        LET u == URL("https", p[1].name, p[2])
            page == n.page[u]
        IN  Fetched(Get(n, memo, p[1], u, "", {}),
                    If(page.status = 200 /\ ~page.html /\ ReadBody(n, u) = p[2],
                       Finding(u, IF p[2] = "/.env" THEN "critical" ELSE "high")))])
=============================================================================
