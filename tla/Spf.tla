-------------------------------- MODULE Spf --------------------------------
(***************************************************************************)
(* The SPF walk (checks/email/internal/spf): a record is parsed, and what  *)
(* it includes or redirects to is followed while lookups, void lookups and *)
(* problems are counted.  A term is a record of its name, what it names,   *)
(* its qualifier and its CIDR length; the order of the terms matters.      *)
(***************************************************************************)
EXTENDS Network, SequencesExt

(* The fields of a network n that the walk reads:                          *)
(*   spf        the SPF records of each domain                             *)
(*   otherTxt   the domains with TXT records of other kinds                *)
(*   answers    the pairs <<domain, type>> that A and AAAA queries answer  *)
(*   mxCount    the number of MX records of each domain                    *)

CONSTANTS MaxLookups, MaxVoidLookups, MaxMXNames,  \* the limits of RFC 7208
          MaxDepth, MaxQueries                     \* the caps on the work

\* The caps are "far above the RFC limits": 10 levels and 100 queries for 10 lookups.
ASSUME SpfAssumption ==
    /\ {MaxLookups, MaxVoidLookups, MaxMXNames, MaxDepth, MaxQueries} \subseteq Nat \ {0}
    /\ MaxLookups <= MaxDepth /\ 2 * MaxLookups < MaxQueries

-----------------------------------------------------------------------------
(* Parsing *)

Term(name, to, qualifier) == [name |-> name, to |-> to, qualifier |-> qualifier, length |-> ""]
Modifiers == {"redirect", "exp"}
Macro == "%{i}"                           \* a domain that depends on the sender
NotDomains == {"", "bare", "192.0.2.1", "2001:db8::1"}

Named(t) == t.to \notin NotDomains        \* validateDomainSpec: a macro will do
IsModifier(t) == t.name \in Modifiers

\* parseMechanism and addModifier
ValidTerm(t) ==
    CASE t.name = "all" -> t.to = "" /\ t.length = ""
      [] t.name \in {"include", "exists"} \cup Modifiers -> Named(t) /\ t.length = ""
      [] t.name \in {"a", "mx"} -> (t.to = "" \/ Named(t)) /\ t.length # "bad"
      [] t.name = "ptr" -> (t.to = "" \/ Named(t)) /\ t.length = ""
      [] t.name = "ip4" -> t.to = "192.0.2.1" /\ t.length # "bad"
      [] t.name = "ip6" -> t.to = "2001:db8::1" /\ t.length # "bad"
      [] OTHER -> FALSE

\* Parse: every term is valid and no modifier comes twice.
Parses(rec) ==
    /\ \A i \in DOMAIN rec : ValidTerm(rec[i])
    /\ \A i, j \in DOMAIN rec : IsModifier(rec[i]) /\ rec[i].name = rec[j].name => i = j

CountsLookup(t) == t.name \in {"include", "a", "mx", "ptr", "exists"}

\* Record.All and the target of the redirect, which Parse lets come once.
Alls(rec) == {i \in DOMAIN rec : rec[i].name = "all"}
FirstAll(rec) == CHOOSE i \in Alls(rec) : \A j \in Alls(rec) : i <= j
AllOf(rec) == rec[FirstAll(rec)]
Redirects(rec) == {rec[i].to : i \in {j \in DOMAIN rec : rec[j].name = "redirect"}}
RedirectOf(rec) == CHOOSE to \in Redirects(rec) : TRUE

-----------------------------------------------------------------------------
(* The walk: ev is everything it has counted so far, and the queries that  *)
(* its prefetches asked besides, which it does not count.  A visit is one  *)
(* call of follow, for a target that an include or a redirect leads to.    *)

Domains(n) == DOMAIN n.spf
Vias(n) == {"include", "redirect"} \X Domains(n)
Qualifiers == {"+", "-", "~", "?"}

Evaluations(n) ==
    [lookups : Nat, voids : Nat, queries : Nat, prefetched : Nat, problems : SUBSET (Vias(n) \cup {<<>>}),
     permissive : Seq(Vias(n) \cup {<<>>}), effective : Qualifiers \cup {"none"},
     halted : BOOLEAN, incomplete : BOOLEAN, failed : BOOLEAN]

NothingYet == [lookups |-> 0, voids |-> 0, queries |-> 0, prefetched |-> 0, problems |-> {},
               permissive |-> <<>>, effective |-> "none", halted |-> FALSE, incomplete |-> FALSE, failed |-> FALSE]

\* The stack holds the domains under evaluation; top marks the target's record
\* and its redirects, whose "all" applies.
Visit(ev, target, via, stack, top) ==
    [ev |-> ev, target |-> target, via |-> via, stack |-> stack, top |-> top]
Visits(n) == [ev : Evaluations(n), target : Domains(n), via : Vias(n) \cup {<<>>},
              stack : SUBSET Domains(n), top : BOOLEAN]

Problem(ev, where) == [ev EXCEPT !.problems = @ \cup {where}]

Stopped(ev) == ev.queries >= MaxQueries \/ ev.lookups > 5 * MaxLookups

\* An a, exists or mx mechanism asks about its target.
Query(n, ev, target, types) ==
    LET counted == [ev EXCEPT !.queries = @ + Cardinality(types)]
        nothing == IF types = {"MX"} THEN n.mxCount[target] = 0
                   ELSE \A type \in types : <<target, type>> \notin n.answers
    IN  IF \E type \in types : <<type, target>> \in n.fails THEN [counted EXCEPT !.failed = TRUE]
        ELSE IF nothing THEN [counted EXCEPT !.voids = @ + 1]
        ELSE counted

(***************************************************************************)
(* Below, follow is what becomes of the visits one level deeper, and v the *)
(* visit whose record has its terms evaluated.                             *)
(***************************************************************************)
Mechanism(n, follow, v, ev, m) ==
    LET counted == [ev EXCEPT !.lookups = @ + 1]
        target == IF m.to = "" THEN v.target ELSE m.to
        queried == Query(n, counted, target, IF m.name = "mx" THEN {"MX"}
                                             ELSE IF m.name = "exists" THEN {"A"} ELSE Families)
    IN  IF m.to = Macro \/ m.name = "ptr" THEN counted
        ELSE IF m.name = "include" THEN follow[Visit(counted, target, <<"include", target>>, v.stack, FALSE)]
        ELSE IF m.name = "mx" /\ ~queried.failed /\ n.mxCount[target] > MaxMXNames
             THEN Problem(queried, v.via)
        ELSE queried

\* Wrong: a redirect costs nothing.
RedirectFreely(follow, v, ev, to) ==
    IF to = Macro THEN ev ELSE follow[Visit(ev, to, <<"redirect", to>>, v.stack, v.top)]

Redirect(follow, v, ev, to) ==
    LET counted == [ev EXCEPT !.lookups = @ + 1]
    IN  IF to = Macro THEN counted
        ELSE follow[Visit(counted, to, <<"redirect", to>>, v.stack, v.top)]

(***************************************************************************)
(* walk: the terms that cost a lookup in their order, until the caps stop  *)
(* it; then the "all", or without one the redirect.                        *)
(***************************************************************************)
Advance(n, follow, v, ev, m) ==
    LET next == Mechanism(n, follow, v, ev, m)
    IN  IF ev.halted \/ ev.failed \/ ~CountsLookup(m) THEN ev
        ELSE [next EXCEPT !.halted = Stopped(next)]

Mechanisms(n, follow, v, rec) ==
    LET After[i \in 0..Len(rec)] ==
            IF i = 0 THEN [v.ev EXCEPT !.halted = FALSE]
            ELSE Advance(n, follow, v, After[i - 1], rec[i])
    IN  After

\* How a walk ends, by what it has counted after its mechanisms.
Ended(n, follow, v, rec) ==
    [ev \in Evaluations(n) |->
        IF ev.halted \/ ev.failed THEN [ev EXCEPT !.incomplete = @ \/ ev.halted]
        ELSE IF Alls(rec) # {}
          THEN IF v.top THEN [ev EXCEPT !.effective = AllOf(rec).qualifier] ELSE ev
        ELSE IF Redirects(rec) = {} THEN ev
        ELSE Redirect(follow, v, ev, RedirectOf(rec))]

(***************************************************************************)
(* prefetch: before its terms are evaluated, a record's queries are asked  *)
(* all at once, unless they are more than what is left of MaxQueries.      *)
(* None of them is counted; the answers wait in the resolver's cache.      *)
(***************************************************************************)
PrefetchedTypes(rec, t) ==
    CASE t.name = "include" -> {"TXT"}
      [] t.name = "a" -> Families
      [] t.name = "mx" -> {"MX"}
      [] t.name = "exists" -> {"A"}
      [] t.name = "redirect" /\ Alls(rec) = {} -> {"TXT"}
      [] OTHER -> {}

Ahead(rec) ==
    {q \in (DOMAIN rec) \X ({"TXT", "MX"} \cup Families) :
       rec[q[1]].to # Macro /\ q[2] \in PrefetchedTypes(rec, rec[q[1]])}

\* Wrong: however many they are.
PrefetchAll(ev, rec) == [ev EXCEPT !.prefetched = @ + Cardinality(Ahead(rec))]

Prefetch(ev, rec) ==
    LET asked == Cardinality(Ahead(rec))
    IN  IF asked < 2 \/ asked > MaxQueries - ev.queries THEN ev
        ELSE [ev EXCEPT !.prefetched = @ + asked]

Walk(n, follow, v, rec) ==
    LET begun == [v EXCEPT !.ev = Prefetch(@, rec)]
    IN  Ended(n, follow, begun, rec)[Mechanisms(n, follow, begun, rec)[Len(rec)]]

\* follow, once the depth allows for it: fetch the record, parse and walk it.
Enter(n, follow, v) ==
    LET asked == [v.ev EXCEPT !.queries = @ + 1]
        records == n.spf[v.target]
        rec == CHOOSE r \in records : TRUE
        passes == ~v.top /\ Alls(rec) # {} /\ AllOf(rec).qualifier = "+"
        entered == IF passes THEN [asked EXCEPT !.permissive = Append(@, v.via)] ELSE asked
    IN  IF <<"TXT", v.target>> \in n.fails THEN [asked EXCEPT !.failed = TRUE]
        ELSE IF records = {}
             THEN Problem([asked EXCEPT !.voids = IF v.target \in n.otherTxt THEN @ ELSE @ + 1], v.via)
        ELSE IF Cardinality(records) > 1 \/ ~Parses(rec) THEN Problem(asked, v.via)
        ELSE Walk(n, follow, [v EXCEPT !.ev = entered, !.stack = @ \cup {v.target}], rec)

\* follow: left is what maxDepth leaves of levels to go down.
Follow(n) ==
    LET F[left \in Nat] == [v \in Visits(n) |->
            IF v.target \in v.stack THEN Problem(v.ev, v.via)
            ELSE IF left = 0 THEN [v.ev EXCEPT !.incomplete = TRUE]
            ELSE Enter(n, F[left - 1], v)]
    IN  F

Evaluate(n, domain, rec) ==
    Walk(n, Follow(n)[MaxDepth], Visit(NothingYet, domain, <<>>, {domain}, TRUE), rec)

-----------------------------------------------------------------------------
(* What a receiver does with a sender that nothing authorizes: RFC 7208    *)
(* evaluates the terms in order up to the first "all", counting lookups.   *)
(* It is asked to go on from a domain with the lookups already spent, and  *)
(* says how many there are then; it gives up when they are too many.       *)

\* The lookups after each term of a record, if include says what they cause.
Spending(include, rec, spent) ==
    LET After[i \in 0..Len(rec)] ==
            LET t == rec[i]
                k == After[i - 1]
            IN  IF i = 0 THEN spent
                ELSE IF ~CountsLookup(t) \/ k > MaxLookups THEN k
                ELSE IF t.name = "include" /\ t.to # Macro THEN include[<<t.to, k + 1>>] ELSE k + 1
    IN  After

SpentOn(n, include, domain, spent) ==
    LET rec == CHOOSE r \in n.spf[domain] : TRUE
        last == IF Alls(rec) = {} THEN Len(rec) ELSE FirstAll(rec)
        after == Spending(include, rec, spent)[last]
        to == RedirectOf(rec)
    IN  IF Cardinality(n.spf[domain]) # 1 \/ ~Parses(rec) \/ spent > MaxLookups THEN spent
        ELSE IF Alls(rec) # {} \/ Redirects(rec) = {} \/ after > MaxLookups THEN after
        ELSE IF to = Macro THEN after + 1 ELSE include[<<to, after + 1>>]

\* Every level costs a lookup, so after MaxLookups levels too many are spent.
ReceiverLookups(n) ==
    LET R[left \in Nat] == [at \in Domains(n) \X Nat |->
            IF left = 0 THEN at[2] ELSE SpentOn(n, R[left - 1], at[1], at[2])]
    IN  R[MaxLookups + 1][<<"self", 0>>]
=============================================================================
