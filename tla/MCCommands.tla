----------------------------- MODULE MCCommands -----------------------------
(***************************************************************************)
(* Three checks, of which the second is active and the third is renamed    *)
(* with the second version, on two targets; two findings of the third.    *)
(***************************************************************************)
EXTENDS Commands

CONSTANTS t1, t2, c1, c2, c3, f1, f2

MCCheckOf == [f \in Findings |-> c3]
MCTargetOf == [f \in Findings |-> IF f = f1 THEN t1 ELSE t2]
MCSubjectOf == [f \in Findings |-> "mx"]
MCSeverityOf == [f \in Findings |-> IF f = f1 THEN 2 ELSE 1]

OldNames == [c \in Checks |-> CASE c = c1 -> <<"a", "b", "a", "b", "b">>
                                [] c = c2 -> <<"a", "b", "b">>
                                [] c = c3 -> <<"b", "a">>]
MCNames == <<OldNames, [OldNames EXCEPT ![c3] = <<"b", "b", "a">>]>>

Plain == [defaults |-> Given({Exclude(<<"a", "b", "a", Star>>)}),
          checks |-> [t \in Targets |-> NotGiven], active |-> [t \in Targets |-> t = t2],
          overrides |-> [n \in {<<"b", "a">>} |-> 2], suppressions |-> {}]

Suppressing == [Plain EXCEPT
    !.defaults = NotGiven,
    !.checks = [t \in Targets |-> IF t = t2 THEN Given({Include(<<"b", Star>>)}) ELSE NotGiven],
    !.suppressions = {[glob |-> <<"b", "a">>, target |-> t1, subject |-> Nil, expires |-> 2],
                      [glob |-> <<"b", Star>>, target |-> Nil, subject |-> "ns", expires |-> 0]}]

MCConfigs == {Plain, Suppressing, [Plain EXCEPT !.checks[t1] = Given({Include(<<"c">>)})]}

MCLetters == {"a", "b", "c", Star, One}
ShortGlobs == UNION {[1..n -> MCLetters \ {"c"}] : n \in 0..3}
LongGlobs == {<<Star, "a", "b", "b">>, <<"a", Star, "b", Star>>, <<One, Star, "b", "b">>,
              <<Star, "a", Star, "b">>, <<"a", "b", Star, One>>, <<Star, Star, "b", "a">>}

Bare == [only |-> NotGiven, active |-> FALSE, failOn |-> 0, strict |-> FALSE, baseline |-> FALSE,
         files |-> {}]

MCFlags ==
    {[Bare EXCEPT !.only = Given({Include(g)}), !.active = TRUE] : g \in ShortGlobs \cup LongGlobs}
    \cup {[Bare EXCEPT !.only = Given({Exclude(g), Include(<<One, Star>>)})] : g \in LongGlobs}
    \cup [only : {NotGiven}, active : {FALSE}, failOn : {2}, strict : {FALSE},
          baseline : BOOLEAN, files : {{}, Files}]
    \cup {[Bare EXCEPT !.strict = TRUE, !.failOn = 2]}
=============================================================================
