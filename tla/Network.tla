------------------------------ MODULE Network ------------------------------
(***************************************************************************)
(* What a check sees of the network, and how it turns failures into errors *)
(* (internal/netx/netx.go and the check packages).  A network n is a       *)
(* record: what every name and host would say, and n.fails, the questions  *)
(* that come back with an error instead.  A verdict is the set of a        *)
(* check's findings, or Error.                                             *)
(***************************************************************************)
EXTENDS Integers, FiniteSets, Sequences

CONSTANT Error  \* a check's error: no verdict was reached

ASSUME ErrorAssumption == Error # {}

Finding(subject, severity) == [subject |-> subject, severity |-> severity]
About(subject) == Finding(subject, "default")  \* with the check's own severity
OnTarget == About(<<>>)
If(condition, finding) == IF condition THEN {finding} ELSE {}

\* if err != nil { return nil, err }, after question q
Ask(n, q, verdict) == IF q \in n.fails THEN Error ELSE verdict

\* The same after a helper that returns an error or what it loaded.
With(loaded, verdict) == IF loaded = Error THEN Error ELSE verdict

\* Wrong: what fails is left out like what is absent.
EachSkipping(judged) == UNION ({judged[i] : i \in DOMAIN judged} \ {Error})

Absent == {}  \* web.ErrAbsent: nothing is served here, so nothing is found

(***************************************************************************)
(* web.Each, forEach and the loops that return the first error, of what    *)
(* was made of each item: absent ones are skipped, and one that failed     *)
(* fails the check.                                                        *)
(***************************************************************************)
Each(judged) ==
    LET results == {judged[i] : i \in DOMAIN judged}
    IN  IF Error \in results THEN Error ELSE UNION results

(***************************************************************************)
(* netx.LookupAddrs: a failure of one family is ignored when the other has *)
(* answers.  {} stands for ErrNoAddress.                                   *)
(***************************************************************************)
Families == {"A", "AAAA"}

LookupAddrs(n, name) ==
    LET got == {a \in n.addrs[name] : <<a.family, name>> \notin n.fails}
    IN  IF got = {} /\ \E f \in Families : <<f, name>> \in n.fails THEN Error ELSE got

\* The names one of whose families fails while the other answers.
HalfAnswered(n) ==
    {name \in DOMAIN n.addrs :
       /\ LookupAddrs(n, name) \notin {Error, {}}
       /\ \E f \in Families : <<f, name>> \in n.fails}
=============================================================================
