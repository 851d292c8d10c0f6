----------------------------- MODULE Selection -----------------------------
(***************************************************************************)
(* Which checks run on which target: the globs and the selection of        *)
(* internal/registry/registry.go, and the plan that internal/cli/run.go    *)
(* and scan.go make of a config and the command's flags.                   *)
(*                                                                         *)
(* A check ID and a glob are sequences of letters; the letters are model   *)
(* values but for the two wildcards.  A pattern is a glob that includes or *)
(* excludes, and a list of patterns is a set: Select puts the inclusions   *)
(* and the exclusions apart before it looks at the checks.                 *)
(***************************************************************************)
EXTENDS Integers, Sequences

Star == "*"
One == "?"

Include(g) == [glob |-> g, neg |-> FALSE]
Exclude(g) == [glob |-> g, neg |-> TRUE]

\* A list of patterns that may be left out, which is not an empty one.
Given(patterns) == [given |-> TRUE, list |-> patterns]
NotGiven == [given |-> FALSE, list |-> {}]

-----------------------------------------------------------------------------
\* Wrong: a failed match is not tried again with a longer star.
MatchGreedily(glob, id) ==
    LET Walk[p \in 0..Len(glob), s \in 0..Len(id)] ==
          IF s = Len(id) THEN \A i \in p + 1 .. Len(glob) : glob[i] = Star
          ELSE IF p < Len(glob) /\ glob[p + 1] \in {One, id[s + 1]} THEN Walk[p + 1, s + 1]
          ELSE p < Len(glob) /\ glob[p + 1] = Star /\ Walk[p + 1, s]
    IN  Walk[0, 0]

\* Where Match is: how much of the glob (p) and of the ID (s) is matched, the
\* place of the last "*", and how much of the ID it had left uncovered before
\* it (mark) when it was last tried.
Spot(p, s, star, mark) == [p |-> p, s |-> s, star |-> star, mark |-> mark]

Spots(glob, id) ==
    {at \in [p : 0..Len(glob), s : 0..Len(id), star : -1..Len(glob), mark : 0..Len(id)] :
        at.star < at.p /\ at.mark <= at.s}

\* Match, one round of its loop after the other.  When the rest does not match,
\* the last "*" covers one letter more; the stars before it are not tried again.
Match(glob, id) ==
    LET Walk[at \in Spots(glob, id)] ==
          IF at.s = Len(id) THEN \A i \in at.p + 1 .. Len(glob) : glob[i] = Star
          ELSE IF at.p < Len(glob) /\ glob[at.p + 1] \in {One, id[at.s + 1]}
               THEN Walk[Spot(at.p + 1, at.s + 1, at.star, at.mark)]
          ELSE IF at.p < Len(glob) /\ glob[at.p + 1] = Star
               THEN Walk[Spot(at.p + 1, at.s, at.p, at.s)]
          ELSE at.star >= 0 /\ Walk[Spot(at.star + 1, at.mark + 1, at.star, at.mark + 1)]
    IN  Walk[Spot(0, 0, -1, 0)]

Wild(glob) == \E i \in DOMAIN glob : glob[i] \in {Star, One}

\* A registry: the IDs of the checks, those of the active ones, and the
\* former IDs of renamed checks.
Lookup(reg, id) == IF id \in DOMAIN reg.aliases THEN reg.aliases[id] ELSE id

matches(reg, glob, id) ==
    IF Wild(glob) THEN Match(glob, id) ELSE Lookup(reg, glob) = id

Globs(patterns, neg) == {p.glob : p \in {q \in patterns : q.neg = neg}}

Matched(reg, globs) == {id \in reg.checks : \E g \in globs : matches(reg, g, id)}

\* "An inclusion pattern that matches nothing is an error, so typos don't
\* silently disable checks."
SelectFails(reg, patterns) ==
    \/ \E p \in patterns : p.glob = <<>>
    \/ \E g \in Globs(patterns, FALSE) : Matched(reg, {g}) = {}

Select(reg, patterns) ==
    (IF Globs(patterns, FALSE) = {} THEN reg.checks ELSE Matched(reg, Globs(patterns, FALSE)))
        \ Matched(reg, Globs(patterns, TRUE))

-----------------------------------------------------------------------------
\* A config: default patterns, those of a target that replace them, and where
\* active checks may run (ActiveFor).
CheckPatterns(cfg, t) == IF cfg.checks[t].given THEN cfg.checks[t].list ELSE cfg.defaults.list

\* What loading a config refuses in a list of patterns (parser.patterns): a
\* pattern that fails by itself, or a list that selects nothing.
PatternsInvalid(reg, patterns) ==
    /\ patterns.given
    /\ \/ \E p \in patterns.list : SelectFails(reg, {p})
       \/ Select(reg, patterns.list) = {}

\* The checks planned for a target of the config, with the command's --only
\* and --active.
Planned(reg, cfg, only, active, t) ==
    {id \in Select(reg, CheckPatterns(cfg, t)) :
        /\ only.given => id \in Select(reg, only.list)
        /\ id \in reg.active => active \/ cfg.active[t]}

OnlyFails(reg, only) == only.given /\ SelectFails(reg, only.list)

\* planConfig ends with an error: --only fails or nothing is left to run.
PlanFails(reg, cfg, only, active) ==
    \/ OnlyFails(reg, only)
    \/ \A t \in DOMAIN cfg.checks : Planned(reg, cfg, only, active, t) = {}

\* selectChecks of a scan: one selection for all domains.
Scanned(reg, only, active) ==
    {id \in Select(reg, only.list) : id \in reg.active => active}

ScanFails(reg, only, active) == OnlyFails(reg, only) \/ Scanned(reg, only, active) = {}
=============================================================================
