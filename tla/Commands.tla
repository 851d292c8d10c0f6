------------------------------ MODULE Commands ------------------------------
(***************************************************************************)
(* The commands that run the checks once, one after the other: seta scan,  *)
(* seta run and seta baseline (internal/cli/scan.go, run.go, output.go),   *)
(* with the config's overrides and suppressions (internal/config/apply.go) *)
(* and the baseline file (internal/baseline).  Between commands findings   *)
(* come and go, days pass and seta is upgraded to a version that renames   *)
(* checks.                                                                 *)
(*                                                                         *)
(* The engine is any engine: of the checks of the plan some fail, all the  *)
(* others report what is there.  Module Engine is about how.               *)
(***************************************************************************)
EXTENDS Selection

CONSTANTS
    Findings,     \* what checks can find
    CheckOf,      \* the check that finds it
    TargetOf,     \* on which target
    SubjectOf,    \* about what
    SeverityOf,   \* how severe the check says it is
    Targets,
    Checks,
    ActiveChecks, \* the checks that probe servers
    Letters,      \* what IDs and globs are written with, the wildcards among it
    Names,        \* the ID of each check in each version of seta
    Configs,      \* the configs a user may write
    Flags,        \* the flags a command may get
    Extras,       \* the paths of --report
    MaxDay,       \* BOUND: the last day
    Faults        \* the calls that may fail: "create", "write", "close", "resolver", "save"

Out == "out"
Files == Extras \cup {Out}

Versions == DOMAIN Names  \* 1, 2, ...

ASSUME CommandAssumption ==
    /\ CheckOf \in [Findings -> Checks] /\ TargetOf \in [Findings -> Targets]
    /\ \A f, g \in Findings :
          CheckOf[f] = CheckOf[g] /\ TargetOf[f] = TargetOf[g] /\ SubjectOf[f] = SubjectOf[g]
             => f = g
    /\ SeverityOf \in [Findings -> Nat \ {0}]
    /\ ActiveChecks \subseteq Checks
    /\ \A v, w \in Versions, c, d \in Checks : Names[v][c] = Names[w][d] => c = d
    /\ Versions \subseteq Nat \ {0} /\ \E n \in Versions : Versions = 1..n
    /\ \A flags \in Flags : flags.files \subseteq Files
    /\ MaxDay \in Nat

\* A list of patterns as a config or a flag gives it.
PatternsTyped(patterns) ==
    /\ \A p \in patterns.list : p.glob \in Seq(Letters) /\ p.neg \in BOOLEAN
    /\ ~patterns.given => patterns.list = {}

\* No ID has a wildcard in it (ValidateCheckID); configs and flags are typed.
ASSUME TextAssumption ==
    /\ \A v \in Versions, c \in Checks : Names[v][c] \in Seq(Letters \ {Star, One})
    /\ \A cfg \in Configs :
          /\ PatternsTyped(cfg.defaults)
          /\ \A t \in Targets : PatternsTyped(cfg.checks[t])
          /\ DOMAIN cfg.overrides \subseteq Seq(Letters)
          /\ \A s \in cfg.suppressions : s.glob \in Seq(Letters) /\ s.expires \in Nat
    /\ \A flags \in Flags : PatternsTyped(flags.only)

VARIABLES
    present,   \* what there is to find
    day,       \* the date
    version,   \* which seta is installed
    baseline,  \* the baseline file: whether it can be read, and its entries
    pc,        \* where the command is
    cmd,       \* the command and its flags
    plan,      \* the checks that run, by target
    res,       \* the result: findings, suppressed, baselined, failed checks
    file,      \* each report: absent, empty, cut, unsure or full
    exit,      \* the exit code, -1 before there is one
    accepted   \* what the user accepted with the last baseline (not in the code)

world == <<present, day, version>>
command == <<pc, cmd, plan, res, file, exit>>
vars == <<world, baseline, command, accepted>>

Nil == "nil"
NoBaseline == [readable |-> FALSE, entries |-> {}]

NoResult == [findings |-> {}, suppressed |-> {}, baselined |-> {}, failed |-> {}]
NoPlan == [t \in Targets |-> {}]
NoFiles == [p \in Files |-> "absent"]
NoCommand == [kind |-> Nil]

Init ==
    /\ present \in SUBSET Findings
    /\ day = 1
    /\ version = 1
    /\ baseline = NoBaseline
    /\ pc = "idle" /\ cmd = NoCommand /\ plan = NoPlan /\ res = NoResult
    /\ file = NoFiles /\ exit = -1
    /\ accepted = {}

-----------------------------------------------------------------------------
\* The checks as the installed version registers them: a renamed check keeps
\* its former IDs as aliases.
Registry ==
    LET id == Names[version]
        former == {Names[v][c] : v \in 1..version, c \in Checks} \ {id[c] : c \in Checks}
    IN  [checks  |-> {id[c] : c \in Checks},
         active  |-> {id[c] : c \in ActiveChecks},
         aliases |-> [n \in former |->
                        id[CHOOSE c \in Checks : \E v \in 1..version : Names[v][c] = n]]]

IdOf(f) == Names[version][CheckOf[f]]

\* Load refuses a config with patterns that select nothing, suppressions of
\* unknown checks or targets, and overrides of unknown checks or of one check
\* under two IDs.
ConfigInvalid(cfg) ==
    \/ PatternsInvalid(Registry, cfg.defaults)
    \/ \E t \in Targets : PatternsInvalid(Registry, cfg.checks[t])
    \/ \E s \in cfg.suppressions :
          SelectFails(Registry, {Include(s.glob)}) \/ s.target \notin Targets \cup {Nil}
    \/ \E n \in DOMAIN cfg.overrides : Lookup(Registry, n) \notin Registry.checks
    \/ \E m, n \in DOMAIN cfg.overrides : m # n /\ Lookup(Registry, m) = Lookup(Registry, n)

\* Wrong: the expiry date is the last day it applies.
ExpiredAfter(s) == s.expires # 0 /\ day > s.expires

\* A suppression stops applying at the start of its expiry date; 0 is none.
Expired(s) == s.expires # 0 /\ day >= s.expires

Suppresses(s, f) ==
    /\ IdOf(f) \in Select(Registry, {Include(s.glob)})
    /\ s.target \in {Nil, TargetOf[f]}
    /\ s.subject \in {Nil, SubjectOf[f]}

Severity(cfg, f) ==
    LET own == {n \in DOMAIN cfg.overrides : Lookup(Registry, n) = IdOf(f)}
    IN  IF own = {} THEN SeverityOf[f] ELSE cfg.overrides[CHOOSE n \in own : TRUE]

\* Config.Apply on what the engine returns.
Applied(cfg, found, failed) ==
    LET sup == {f \in found : \E s \in cfg.suppressions : ~Expired(s) /\ Suppresses(s, f)}
    IN  [findings |-> found \ sup, suppressed |-> sup, baselined |-> {}, failed |-> failed]

\* Wrong: the IDs in the file are taken as they are.
CanonicalForgotten(e) == e

\* An entry of the baseline file, under the ID its check has when it is
\* written, and the IDs that the installed version knows (canonicalID).
Entry(f) == [check |-> IdOf(f), target |-> TargetOf[f], subject |-> SubjectOf[f]]
Canonical(e) == [e EXCEPT !.check = Lookup(Registry, @)]

\* Baseline.Apply.
Baselined(r) ==
    LET known == {Canonical(e) : e \in baseline.entries}
        old == {f \in r.findings : Entry(f) \in known}
    IN  [findings |-> r.findings \ old, suppressed |-> r.suppressed, baselined |-> old,
         failed |-> r.failed]

-----------------------------------------------------------------------------
\* The steps of the three commands in their order.
FirstStep == [scan |-> "plan", run |-> "open", baseline |-> "plan"]

FollowingStep ==
    [scan     |-> [plan |-> "open", open |-> "setup", setup |-> "check", check |-> "finish"],
     run      |-> [open |-> "plan", plan |-> "setup", setup |-> "check", check |-> "finish"],
     baseline |-> [plan |-> "setup", setup |-> "check", check |-> "save"]]

At(step) == pc = step
Proceed == pc' = FollowingStep[cmd.kind][pc]

\* Wrong: only the report of --output is removed.
ClosedOut(fs) == [fs EXCEPT ![Out] = IF @ \in {"empty", "cut"} THEN "absent" ELSE @]

\* session.close: reports that are not written and closed are removed, "so an
\* empty report is never mistaken for a clean one".
Closed(fs) == [p \in Files |-> IF fs[p] \in {"empty", "cut"} THEN "absent" ELSE fs[p]]

\* The command ends; what finish did not close is closed now.
End(code, fs) ==
    /\ pc' = "ended"
    /\ exit' = code
    /\ file' = Closed(fs)

Start(kind, cfg, flags) ==
    /\ At("idle")
    /\ cmd' = [kind  |-> kind,
               cfg   |-> IF kind = "scan" THEN Nil ELSE cfg,
               flags |-> IF kind = "baseline" THEN [only |-> flags.only, active |-> flags.active]
                         ELSE flags]
    /\ pc' = FirstStep[kind]
    /\ UNCHANGED <<world, baseline, plan, res, file, exit, accepted>>

\* openSession: the baseline is read, then --output and the extra reports are
\* created.
BaselineUnread == cmd.flags.baseline /\ ~baseline.readable

Open ==
    /\ At("open")
    /\ ~BaselineUnread
    /\ file' = [p \in Files |-> IF p \in cmd.flags.files THEN "empty" ELSE "absent"]
    /\ Proceed
    /\ UNCHANGED <<world, baseline, cmd, plan, res, exit, accepted>>

OpenFails ==
    /\ At("open")
    /\ \/ BaselineUnread /\ End(2, NoFiles)
       \/ /\ ~BaselineUnread
          /\ "create" \in Faults
          /\ \E made \in SUBSET cmd.flags.files :
                /\ made # cmd.flags.files
                /\ made \subseteq {Out} \/ Out \in made \/ Out \notin cmd.flags.files
                /\ End(2, [p \in Files |-> IF p \in made THEN "empty" ELSE "absent"])
    /\ UNCHANGED <<world, baseline, cmd, plan, res, accepted>>

\* planConfig with the config loaded, or selectChecks.
NoChecks ==
    IF cmd.kind = "scan" THEN ScanFails(Registry, cmd.flags.only, cmd.flags.active)
    ELSE ConfigInvalid(cmd.cfg) \/ PlanFails(Registry, cmd.cfg, cmd.flags.only, cmd.flags.active)

Plan ==
    /\ At("plan")
    /\ ~NoChecks
    /\ plan' = [t \in Targets |->
                  IF cmd.kind = "scan" THEN Scanned(Registry, cmd.flags.only, cmd.flags.active)
                  ELSE Planned(Registry, cmd.cfg, cmd.flags.only, cmd.flags.active, t)]
    /\ Proceed
    /\ UNCHANGED <<world, baseline, cmd, res, file, exit, accepted>>

PlanRefused ==
    /\ At("plan")
    /\ NoChecks
    /\ End(2, file)
    /\ UNCHANGED <<world, baseline, cmd, plan, res, accepted>>

\* setupResolver; module Resolver is about how it decides.
Setup ==
    /\ At("setup")
    /\ \/ Proceed /\ UNCHANGED <<file, exit>>
       \/ "resolver" \in Faults /\ End(2, file)
    /\ UNCHANGED <<world, baseline, cmd, plan, res, accepted>>

\* The engine runs and the config is applied.  A scan has no config.
Ran == UNION {{<<t, id>> : id \in plan[t]} : t \in Targets}

Check(failed) ==
    /\ At("check")
    /\ failed \subseteq Ran
    /\ LET found == {f \in present : <<TargetOf[f], IdOf(f)>> \in Ran \ failed}
       IN  res' = IF cmd.kind = "scan"
                  THEN [NoResult EXCEPT !.findings = found, !.failed = failed]
                  ELSE Applied(cmd.cfg, found, failed)
    /\ Proceed
    /\ UNCHANGED <<world, baseline, cmd, plan, file, exit, accepted>>

\* seta baseline writes what it found; a failed write leaves what it wrote.
Save ==
    /\ At("save")
    /\ \/ /\ baseline' = [readable |-> TRUE, entries |-> {Entry(f) : f \in res.findings}]
          /\ accepted' = res.findings
          /\ End(0, file)
       \/ /\ "save" \in Faults
          /\ baseline' = NoBaseline
          /\ accepted' = {}
          /\ End(2, file)
    /\ UNCHANGED <<world, cmd, plan, res>>

\* finish: the baseline first.
ApplyBaseline ==
    /\ At("finish")
    /\ res' = IF cmd.flags.baseline THEN Baselined(res) ELSE res
    /\ pc' = "write"
    /\ UNCHANGED <<world, baseline, cmd, plan, file, exit, accepted>>

\* One report after the other, the extra ones first; each is written and
\* closed, and the first error ends the command.
Turn(p) == file[p] = "empty" /\ (p = Out => \A q \in Extras : file[q] # "empty")

Write(p) ==
    /\ At("write")
    /\ Turn(p)
    /\ \/ file' = [file EXCEPT ![p] = "full"] /\ UNCHANGED <<pc, exit>>
       \/ "write" \in Faults /\ End(2, [file EXCEPT ![p] = "cut"])
       \/ "close" \in Faults /\ End(2, [file EXCEPT ![p] = "unsure"])
    /\ UNCHANGED <<world, baseline, cmd, plan, res, accepted>>

\* Findings at or above --fail-on win over --strict; 0 is --fail-on none.
Failing == {f \in res.findings :
              cmd.flags.failOn # 0 /\ cmd.flags.failOn <=
                 (IF cmd.kind = "scan" THEN SeverityOf[f] ELSE Severity(cmd.cfg, f))}

ExitCode ==
    CASE Failing # {} -> 1
      [] Failing = {} /\ cmd.flags.strict /\ res.failed # {} -> 3
      [] OTHER -> 0

\* Without --output the report goes to the standard output, which may be gone.
Finish ==
    /\ At("write")
    /\ \A p \in Files : file[p] # "empty"
    /\ \/ End(ExitCode, file)
       \/ "write" \in Faults /\ Out \notin cmd.flags.files /\ End(2, file)
    /\ UNCHANGED <<world, baseline, cmd, plan, res, accepted>>

\* The process is gone, its files stay, and the next command starts afresh.
Leave ==
    /\ At("ended")
    /\ pc' = "idle" /\ cmd' = NoCommand /\ plan' = NoPlan /\ res' = NoResult
    /\ file' = NoFiles /\ exit' = -1
    /\ UNCHANGED <<world, baseline, accepted>>

\* Between two commands findings come and go, days pass, seta is upgraded.
Change(found) ==
    /\ At("idle")
    /\ found \in SUBSET Findings
    /\ present' = found
    /\ UNCHANGED <<day, version, baseline, command, accepted>>

NextDay ==
    /\ At("idle")
    /\ day < MaxDay
    /\ day' = day + 1
    /\ UNCHANGED <<present, version, baseline, command, accepted>>

Upgrade ==
    /\ At("idle")
    /\ version + 1 \in Versions
    /\ version' = version + 1
    /\ UNCHANGED <<present, day, baseline, command, accepted>>

Next ==
    \/ \E kind \in DOMAIN FirstStep, cfg \in Configs, flags \in Flags : Start(kind, cfg, flags)
    \/ Open
    \/ OpenFails
    \/ Plan
    \/ PlanRefused
    \/ Setup
    \/ \E failed \in SUBSET Ran : Check(failed)
    \/ Save
    \/ ApplyBaseline
    \/ \E p \in Files : Write(p)
    \/ Finish
    \/ Leave
    \/ \E found \in SUBSET Findings : Change(found)
    \/ NextDay
    \/ Upgrade

Spec == Init /\ [][Next]_vars

-----------------------------------------------------------------------------
\* What a glob means, without the algorithm: where in the ID the rest of the
\* glob after its first p letters may begin.
Covers(glob, id) ==
    LET From[p \in 0..Len(glob)] ==
          IF p = Len(glob) THEN {Len(id)}
          ELSE LET rest == From[p + 1] IN
               IF glob[p + 1] = Star THEN {s \in 0..Len(id) : \E e \in rest : s <= e}
               ELSE {s \in 0..Len(id) - 1 : s + 1 \in rest /\ glob[p + 1] \in {One, id[s + 1]}}
    IN  0 \in From[0]

\* A glob names a check by its ID, a plain name also by a former one.
Naming(glob, c) ==
    IF Wild(glob) THEN Covers(glob, Names[version][c])
    ELSE \E v \in 1..version : Names[v][c] = glob

Chosen(patterns, c) ==
    /\ (\A p \in patterns : p.neg) \/ (\E p \in patterns : ~p.neg /\ Naming(p.glob, c))
    /\ \A p \in patterns : p.neg => ~Naming(p.glob, c)

PlanIsWritten ==
    LET only == cmd.flags.only.list IN
    /\ \A p \in only : ~p.neg => \E c \in Checks : Naming(p.glob, c)
    /\ \A t \in Targets, c \in Checks :
          Names[version][c] \in plan[t] <=>
             /\ Chosen(only, c)
             /\ cmd.kind # "scan" => Chosen(CheckPatterns(cmd.cfg, t), c)
             /\ c \in ActiveChecks =>
                   cmd.flags.active \/ (cmd.kind # "scan" /\ cmd.cfg.active[t])

(***************************************************************************)
(* The checks that run on a target are those the config's patterns for it  *)
(* and --only both choose, active ones where they are allowed, and no name *)
(* in --only is a typo (Select: "exclusions always win regardless of       *)
(* order", "typos don't silently disable checks").                         *)
(***************************************************************************)
SelectedAsWritten == At("setup") => PlanIsWritten

\* What a reader of the config would say of a finding.
Seen(f) == f \in present /\ <<TargetOf[f], IdOf(f)>> \in Ran \ res.failed

Level(f) ==
    LET own == {n \in DOMAIN cmd.cfg.overrides : Naming(n, CheckOf[f])}
    IN  IF cmd.kind = "scan" \/ own = {} THEN SeverityOf[f]
        ELSE cmd.cfg.overrides[CHOOSE n \in own : TRUE]

Excused(f) ==
    \/ cmd.flags.baseline /\ f \in accepted
    \/ /\ cmd.kind # "scan"
       /\ \E s \in cmd.cfg.suppressions :
             /\ Naming(s.glob, CheckOf[f])
             /\ s.target = Nil \/ s.target = TargetOf[f]
             /\ s.subject = Nil \/ s.subject = SubjectOf[f]
             /\ s.expires = 0 \/ day < s.expires

Alarming(f) == Seen(f) /\ ~Excused(f) /\ cmd.flags.failOn # 0 /\ Level(f) >= cmd.flags.failOn

(***************************************************************************)
(* A build that passes is clean: whatever its checks saw and nobody        *)
(* suppressed or accepted with the baseline is below --fail-on, and with   *)
(* --strict all of them saw something or nothing (finish).                 *)
(***************************************************************************)
PassIsEarned ==
    At("ended") /\ cmd.kind # "baseline" /\ exit = 0 =>
        /\ ~\E f \in Findings : Alarming(f)
        /\ cmd.flags.strict => res.failed = {}

(***************************************************************************)
(* A build fails on findings only if one of them is new to the user: not   *)
(* in the baseline under any name its check has had, not suppressed today  *)
(* ("so that only findings that are not in the baseline are reported and   *)
(* fail the run", "so baselines survive check renames").                   *)
(***************************************************************************)
FailureIsDeserved ==
    At("ended") /\ exit = 1 => \E f \in Findings : Alarming(f)

(***************************************************************************)
(* Where a command leaves reports, they are whole: all of them when it     *)
(* gives a verdict, and none that is empty or cut off when it does not     *)
(* ("so an empty report is never mistaken for a clean one", close).  Of a  *)
(* report whose Close failed nothing is known.                             *)
(***************************************************************************)
ReportsAreWhole ==
    At("ended") /\ cmd.kind # "baseline" =>
        /\ exit \in {0, 1, 3} => \A p \in cmd.flags.files : file[p] = "full"
        /\ \A p \in Files : file[p] \in {"absent", "full", "unsure"}

(***************************************************************************)
(* The baseline takes out of a result exactly what the user accepted,      *)
(* whatever the checks have been called since ("canonical maps a check ID  *)
(* recorded in the baseline to its current ID, so baselines survive check  *)
(* renames").                                                              *)
(***************************************************************************)
BaselineSurvivesRenames ==
    At("write") /\ cmd.flags.baseline =>
        res.findings \cap accepted = {} /\ res.baselined \subseteq accepted

-----------------------------------------------------------------------------
\* On the way to a verdict: the command is one the user may give, its config is
\* valid and its plan is the one written.
Typed ==
    /\ version \in Versions /\ day \in Nat
    /\ pc # "idle" =>
          /\ PatternsTyped(cmd.flags.only)
          /\ cmd.kind # "scan" => cmd.cfg \in Configs

ConfigIsValid == cmd.kind # "scan" => ~ConfigInvalid(cmd.cfg)

PlanIsMade ==
    \/ pc \in {"setup", "check", "save", "finish", "write"}
    \/ pc = "open" /\ cmd.kind = "scan"

\* The result is what the checks saw without what is suppressed and, once the
\* baseline is applied, without what was accepted.
Suppressed(f) ==
    /\ cmd.kind # "scan"
    /\ \E s \in cmd.cfg.suppressions : ~Expired(s) /\ Suppresses(s, f)

ResultIsRight ==
    /\ res.findings \subseteq Findings
    /\ \A f \in Findings :
          f \in res.findings <=>
             /\ Seen(f) /\ ~Suppressed(f)
             /\ ~(pc # "finish" /\ cmd.flags.baseline /\ f \in accepted)

Judged == pc = "ended" /\ cmd.kind # "baseline" /\ exit # 2

VerdictInv ==
    /\ Typed
    /\ PlanIsMade => ConfigIsValid /\ PlanIsWritten
    /\ pc \in {"finish", "write"} \/ Judged => ConfigIsValid /\ ResultIsRight
    /\ Judged => exit = ExitCode
    /\ pc = "ended" /\ cmd.kind = "baseline" => exit \in {0, 2}
=============================================================================
