# TLA+ development of seta

seta checks the email, DNS, TLS and HTTP configuration of a list of domains and reports
findings. `seta scan` does so once; `seta daemon` does it on a schedule, keeps the findings in
a SQLite database and notifies channels (Telegram, Slack, Discord, a webhook, email) of what
changed. This directory models the parts of it whose correctness depends on histories,
interleavings and failures, checks them with TLC and proves their main properties with TLAPS.

Paths below are relative to `src/`.

## 1. The system

| Component | Code | State it keeps | Operations |
|---|---|---|---|
| Finding state | `internal/state` | tables `runs`, `findings`, `kv` | `Record`, `Prune`, `Get`, `Set`, `Delete`, `Open` |
| Notification dispatch | `internal/notify/notify.go` | per channel: undelivered changes and the time of the last message, both in `kv` | `Dispatch`, `deliver`, `merge`, `heartbeatDue` |
| Notification transports | `internal/notify/http.go`, `telegram.go`, `slack.go`, `discord.go`, `webhook.go`, `email.go`, `render.go` | attempts and waits of one delivery | `Send`, `Post`, `pack` |
| One daemon run | `internal/cli/daemon.go` (the `Run` closure) | stage of the run, its context | probe, checks, `Record`, `Dispatch`, `Prune` |
| Daemon loop and health | `internal/daemon/daemon.go` | next time, last run, run in progress, grace timer | `Serve`, `runOnce`, `Handler` |
| Check engine | `internal/engine/engine.go` | slots, the state of every check | `Run`, `runOne`, `normalize` |
| Shared answers | `internal/core/memo.go`, `internal/dnsx/cache.go` | one entry per key | `Memoize`, `lookup`, `fill` |
| Resolver | `internal/dnsx/client.go`, `probe.go`, `dnsx.go`, `internal/cli/resolver.go` | upstream in use | `lookup`, `Probe`, `setupResolver` |
| Plan and selection | `internal/cli/run.go`, `scan.go`, `internal/registry` | the registered checks and their former IDs | `planConfig`, `selectChecks`, `Select`, `Match`, `Lookup`, `Register` |
| Config | `internal/config` | none | `Load`, `Apply` |
| Baseline | `internal/baseline` | a file | `Write`, `Read`, `Apply` |
| Plugins | `internal/plugin`, `sdk` | child processes | discovery, `Describe`, `Run`, `invoke` |
| Checks | `checks/dns`, `checks/email`, `checks/tls`, `checks/http`, `checks/internal/web` | none beyond `Memo` | one `Run` per check, the SPF walk, `Get`, `Each` |
| Network access | `internal/netx` | none | `Dial`, `LookupAddrs` |
| Reports, exit codes | `internal/cli/output.go`, `internal/report` | the open reports of a session | `openSession`, `finish`, `close`, rendering |
| Command line | `internal/cli` | none | `scan`, `run`, `baseline`, `daemon` and the rest |

How they interact:

* `Serve` calls the run closure; the closure calls the engine, the state, the dispatcher and
  the state again, with one context that the shutdown's grace cancels.
* The engine runs every check of every target in a goroutine of its own; checks meet in `Memo`
  and in the DNS cache, where the first to ask computes and the rest wait for it.
* `Record` compares a result with the `findings` table, replaces the table and returns the
  changes; the dispatcher starts one `deliver` per channel, which read and write `kv`.
* `seta run` opens its reports and its baseline, plans, runs the engine, applies the config and the
  baseline and writes; `seta scan` plans without a config and before it opens anything; `seta
  baseline` writes the file that later runs compare with, maybe with a newer seta.
* `/healthz` reads what `Serve` publishes under its mutex.
* A plugin is a child process the engine sees as a check.
* A check asks the resolver and, through `netx`, hosts; the checks of a run share what they load
  (`loadMX`, `loadSPF`, `web.Get`) in `Memo`.

What is hard here:

* **Histories.** Whether a finding is open, and what a reader of a channel was told about it,
  depend on all runs so far: failed checks, checks not selected, targets that left the config,
  suppressions that came and went, rows pruned, deliveries that failed or half succeeded.
* **Crashes and shutdowns** between the steps of a run, whose effects are in three tables.
* **Concurrency**: two levels of slots, abandoned checks, results that race with deadlines,
  callers that wait on work that fails, panics or hangs.
* **Files that outlive a command**: a findings table or baseline read by a version of seta that renamed its checks,
  reports of a command that failed half-way.
* **Partial knowledge**: some of what a check asks for fails, and what it makes of that decides
  whether `Record` counts an absence.
* **Time**: a schedule against runs of any length; heartbeats; retries, rate limits and the
  time limit of a delivery.

What makes each component correct:

* *Finding state*: a finding resolves only after enough verdicts without it; the changes, taken
  together, tell which findings are open; nothing disappears aloud or while it is open.
* *Dispatch*: no change is lost or delivered after one that replaced it; a failing channel holds
  up no other.
* *Transports*: what was acknowledged is not sent again; rate limits are honored; `Send` returns
  nil only when all of the digest was accepted; cutting a digest into messages loses none of it.
* *Daemon*: a run canceled during its checks records nothing; runs keep to the schedule; a shutdown ends the daemon
  after the grace at the latest; a stuck run shows.
* *Engine*: every execution ends in findings or one error, for the right reason; a run returns
  whatever its checks do.
* *Plugins*: findings come only from a plugin that answered in full and exited well; none can hold
  up the run.
* *Checks*: a failure is an error, never a finding and never its absence; the verdict does not
  depend on which check asked first; one of the checks that share a fault reports it; walks are
  bounded.
* *Shared answers*: one computation at a time, one answer, and nobody is given another's failure.
* *Selection*: a check runs where the patterns say so and nowhere else; a typo is an error.
* *Commands*: a build fails on findings that are new to its user, all of them and no others; no
  report that stays is incomplete.

`PROJECT.json` lists every component with what is left out of it, and every hazard at its line.

## 2. The modules

| Module | Models | Composes |
|---|---|---|
| `FindingDiff` | the decision table of `Record` as pure operators: row and result to row and change | |
| `FindingLifecycle` | *abstract*: unknown, open and closed findings, strikes, alerts | |
| `FindingState` | the database over many runs: `Record`, both statements of `Prune` | `FindingDiff`, refines `FindingLifecycle` |
| `StoredRows` | the rows under the IDs that several versions of seta give them: loading, renaming, saving | `FindingState` |
| `Dispatch` | `Dispatch` and `deliver` of every channel, one database call or `Send` a step | `FindingDiff` |
| `DaemonRun` | one run after the other, with cancelation, crash and restart between any two steps | `Dispatch` |
| `DaemonLoop` | `Serve`, `runOnce`, the grace, `/healthz` | |
| `Engine` | slots, checks, deadlines, cancelation, abandonment | |
| `PluginRun` | the checks of plugins: `invoke`, the process and those it starts | `Engine`, as its environment |
| `SharedAnswer` | *abstract*: one answer, and only one's own failures | |
| `SingleFlight` | one key of `Memo` and of the DNS cache | refines `SharedAnswer` |
| `PartwiseSend` | *abstract*: what `deliver` relies on `Send` for | |
| `HttpPost` | `Post` with its retries under a notifier's loop over messages | refines `PartwiseSend` |
| `MailSend` | the SMTP dialog of `Email.Send` with its retries | |
| `Digest` | `pack` and the grouping of its chunks into messages, as pure operators | |
| `Transport` | one `Send`: cutting, then posting; or a mail | `HttpPost`, `MailSend`, `Digest` |
| `Resolver` | lookups over several servers, the probe, the choice of a resolver | |
| `Selection` | globs, `Select`, aliases, the plan, as pure operators | |
| `Commands` | `scan`, `run`, `baseline` one after the other, across days and versions | `Selection` |
| `Network` | what a check sees of the network; `LookupAddrs`, `Each` and the other ways errors go | |
| `DnsChecks` | zone transfers, open resolvers, CAA, DNSSEC, dangling names | `Network` |
| `WebChecks` | hosts, pages, `Dial`, handshakes, the tls checks | `Network` |
| `HttpChecks` | `Get` with its redirects, the http checks | `WebChecks` |
| `Spf` | the parsing of SPF records and the walk | `Network` |
| `MailRecords` | DKIM, DMARC, MTA-STS and TLS-RPT records | |
| `MailChecks` | the email checks | `Spf`, `MailRecords` |
| `Checks` | a run of one family of checks, the shared fetch, what the checks owe | `DnsChecks`, `HttpChecks`, `MailChecks` |
| `FindingState_proofs`, `DaemonRun_proofs`, `DaemonLoop_proofs`, `PluginRun_proofs`, `Transport_proofs`, `Commands_proofs`, `Checks_proofs` | the theorems about the module they are named after, and those it composes | |
| `Lookups_proofs` | the theorems about `SingleFlight` and `Resolver` | |
| `MC*` | the instances TLC checks | |

Operators marked `Wrong:` are not part of a model. Each is a definition as a slip in the code
would make it; put in the place of the right one it makes a property of the model fail, so it
shows that the property depends on that line of the code.

### 2.1 Finding state

`rows` is the `findings` table, one row per finding or `NoRow`. A row keeps whether it is open,
how many verdicts it has been missing from (`missing`), its severity, its suppression and
`resolvedAt`. `Record(res)` is the whole of `Store.Record`: for every finding `KindOf` is the
`switch` over kinds, `SeenRow` and `MissedRow` what happens to the row, `NextRow` the choice
between them, the targets that are gone and the executions that errored (which are deleted from
`ran` and so count neither way). `runs` holds the identifiers and times of the `runs` table.
`PruneRuns` and `PruneFindings` are the two statements of `Prune`; they are not in a
transaction, so `AbandonPrune` may come between them. A result (`IsResult`) is anything the
engine and `config.Apply` can hand over: verdicts for any set of executions of the configured
targets, findings only where there is a verdict, any severities and suppressions.

`absences` and `told` are history: how many verdicts in a row the *results* show a finding
absent from, and what a reader of all unsuppressed changes would believe.

### 2.2 Dispatch and the run

Each `deliver` is a small state machine `pc[ch]`: `get` (read pending changes and merge), `due`
(heartbeat), `send`, then `keep` after a failure or `forget` and `stamp` after a success. Each
is one call that can fail; `Faults` says which calls do in an instance, and after the context
has ended all of them do except `keep`, which the code shields with `context.WithoutCancel`.
`SendFails` may have delivered any prefix of the digest: that is what `PartwiseSend` allows, and
`HttpPost` is shown to implement. A digest is a function from findings to changes, its order is
`Before` (`state.CompareChanges`), needed for the prefix and for `Truncate`.

`DaemonRun` puts `Record` in front and `Prune` behind. Its `owed`, `belief` and `ideal` are
history: what a channel's reader should still get, what it believes, and what it would believe
if no delivery had ever failed.

### 2.3 Daemon loop

Times are relative to the clock and are cut off at `Horizon`, beyond which every comparison the
code makes has the same result, so the clock itself is unbounded. `late` is `now - d.next`;
`ZeroTime` stands for the zero time that `Schedule.Next` returns for a schedule like
`0 0 30 2 *`, which matches no date and passes `cron.ParseStandard`.

### 2.4 Engine

An execution goes `queued`, `waiting` (target slot taken), `starting` (global slot taken),
`launching`, `selecting`, then `judging` a result or `blaming` an ended context, then reporting
and releasing its slots. The check is a goroutine of its own with its own state, since an
abandoned one outlives its execution; `cause` is why the execution's context ended. `select`
prefers neither a result nor the deadline when both are there.

`PluginRun` puts a process behind some of the checks: `invoke` is where `cmd.Run` is (`waiting`
for the process, `draining` its output, `judging` what came of it), `process` and `helper` are the
plugin and a process it started, `output` is what `decodeOne` would make of stdout so far. The
plugin may do anything at any time: write, start a process in its group or out of it, exit in
any way, or none of this. `Kill` is `killGroup`, which only works until the process was waited
for; `DelayEnds` is `waitDelay`. `PluginReturns` replaces the engine's `CheckReturns` for these
executions, and `PluginsAreChecks` proves that this is all a plugin changes for the engine.

### 2.5 Shared answers

A caller looks the key up and leads or joins in one step (the map is under a mutex), runs `fn`,
judges its result, removes a failed entry, closes `done`. Removing and closing are separate
steps because their order matters. `Outcomes` include `partial`: an `fn` whose context ended and
which returned a value without an error all the same.

### 2.6 Transports

`HttpPost` is one delivery of a digest of `Messages` messages. `Post` is `Call`, the server's
answer, and the judgment `Final`; `Waits` is the wait before the next attempt. The server is not
modelled: every answer can come at any time. After no answer or a 5xx, whether the request had
its effect is open (`Unclear`), which `doubt` remembers. `quiet` is the time the server still
asked to be left alone for.

`MailSend` goes through the dialog of `email.go` step by step. `Refused` is a reply with an error,
`Lost` a connection that ends; both can come at any step, and when `Lost` comes while the answer to
the end of the mail is awaited, the server may have taken it. A context that is done closes the
connection, which is `Lost`. `copies` counts what each recipient got, `unsure` remembers that a
dialog failed after the mail was on its way.

`Digest` cuts a digest, a sequence of blocks with a target and a size: `Pack` is `pack`, one turn of
its loop after the other, `TelegramMessages`, `DiscordMessages` and `SlackMessages` are what the
notifiers make of its chunks.
`IsWhole` compares the result with every other way to cut the digest. `Transport` is the `Send` of
a notifier: cut, then post what was cut.

### 2.7 Resolver

A lookup (`at`, `res`) tries the servers in use one after the other; every try is a step, the
lookups of a probe run concurrently, and the context may end between any two. A server may fail
in any way at any time; when it answers it tells the truth, except that it `withholds` some
record types, and that at most one of the probed domains per type may have `changed`. `JudgeProbe` is
the verdict of `Probe`; the rest of the state machine is `setupResolver`, with a person who may
not be there (`interactive`) and may refuse. The daemon probes before every run the same way,
without a choice of another resolver; there a failed probe ends the run (`ProbeFails` of
`DaemonRun`).

### 2.8 Selection and the commands

IDs and globs are sequences of letters, the pattern lists sets of globs that include or exclude:
`Select` puts the two apart before it looks at a check, and its order only shows in the order of
the result. `Match` is the algorithm of the code, a walk over the values of its four variables
(`Spot`); `Covers`, in `Commands`, is what a glob means, and `SelectedAsWritten` compares the two
through everything that is built on `Match`. A registry knows the former IDs of its checks; `Names` gives every check its ID in every
version of seta, and `Upgrade` installs the next.

A command goes through the steps of `FollowingStep`. `scan` plans before it opens its reports,
`run` opens first, which matters for what is left behind when the plan is refused. A report is
`absent`, `empty` (created), `cut` (its write failed), `full` (written and closed) or `unsure` (its
`Close` failed, so nobody knows what is in it); `End` is the return of the command with its
deferred `close`. What the engine returns is arbitrary within what it promises: some checks of the
plan fail, the others report what is `present`. `accepted` is history: what the user accepted with
the last `seta baseline`. Findings, days and versions change between commands.

### 2.9 The checks

A network `n` is a record that says what every name and host would answer, and which questions
fail (`n.fails`); each module lists the fields it reads. Every check is an operator from a network
to a verdict: the set of its findings, or `Error`. They are written in the order of the code: `Ask`
is `if err != nil { return nil, err }` after a question, `Each` is `web.Each` and the loops like
it, which take an absent host for one without findings (`Absent`) and fail with what fails.

A name has addresses of two families, of which one may fail (`LookupAddrs`). A host is reached on a
port or refuses or is silent; a handshake picks a version and a suite that both sides have.
`Get` follows redirects and remembers for which host a page was fetched first. A request fails
before its header has come (`"answer"`) and is an error then, or while its body is read (`"cut"`), which
`get` does not tell (`ReadBody`): a page says what its file is and what the start of it would pass for,
a page at a service whether the mark stands before or behind where it breaks off. TXT records are
sequences of tags or terms whose values are atoms; a value no table knows is malformed. A signature
is made by a key and current or not, several keys may have one tag.

Redirects and SPF includes are followed level by level. A level is a function, from a response to
where it leads (`Following`) or from a visit of a record to what the walk has counted after it
(`Follow`), made from the level below; `MaxRedirects` and `MaxDepth` are where the code stops. A
visit is what `follow` is called with: the counters so far, the domain, how the walk got there, and
the domains under evaluation. A record's `Prefetch` comes before its terms: what it asks is added to
`prefetched`, a number the code does not keep, and to nothing else, since its answers only fill the
cache. Within a record `Mechanisms` goes from term to term, and `Ended` is
what follows the loop over the terms. `ReceiverLookups` is the same record as a receiver evaluates it.

`Checks` chooses a network and what fails in it, lets either kind of check fetch the home page of
the apex first (`memo`), and has all checks of the family judge. Its properties compare their
verdicts with one another and with those of the same network without failures. Which networks there
are is a parameter, `Scenes`; `IsNetwork` says what they have in common (addresses have a family, a
signature has the tag of its key, pages and records are there for what refers to them), and
`ScenesAssumption` that all of them are networks. `RunInv` is the inductive invariant: the verdicts are
those of the network and the memo of the run.

## 3. What is checked

Each run asks one question of the system.

| Run | Instance | Question and result |
|---|---|---|
| `finding_state` | 2 findings on 2 targets, `ResolveAfter` 2, 4 runs, 2 clock ticks, retention 1, one upgrade that renames the check | Does the table resolve findings when and only when it should, do its changes tell its story, do its rows survive the rename, does it implement the life cycle? Yes. |
| `delivery` | 2 findings, 1 channel that wants all kinds and a heartbeat, room for both changes, sends and stamps fail | Is a change ever lost, or the reader left with a wrong picture? No. |
| `delivery_live` | 1 finding, 2 channels, one of which may fail for ever | Does the other channel get everything, and its heartbeats? Yes, under the fairness of section 4. |
| `delivery_crash` | 2 findings, room for one change, every call fails, cancelation and crashes anywhere | Do kept changes survive? Yes. |
| `canceled_loses` | cancelation only | Is a change ever lost when a shutdown's grace ends a run? **Yes**, see section 6. |
| `single_flight` | 3 callers | Is sharing a computation unobservable, and does every call return? Yes. |
| `engine` | 3 executions on 2 targets, one of them a plugin's, 1 slot in all and per target | Is every execution reported once, for the right reason, does the run return? Are findings only taken from plugins that keep the protocol, and are the others got rid of? Yes. |
| `daemon_loop` | period 3, grace 2, stale after 4 | Do runs keep to the schedule and shutdowns end the daemon? Yes, for a schedule that matches. |
| `resolver` | 2 types, 2 domains each, 2 servers asked for, 2 choices of encrypted DNS, 48 ways of withholding | Does a failure ever pass for a missing record, does a scan ever go through servers that withhold a type, are honest servers turned away? No. |
| `transport` | 3 messages, 5 attempts, a unit of ten seconds: time limit 12, backoff up to 3, limits of 2, 20 and 31 asked for, 30 accepted; a mail to 2 recipients in 3 dialogs; all digests of up to 5 blocks of 3 sizes on 2 targets | Are rate limits honored, is nothing acknowledged sent twice, does a mail reach all, is a digest whole after it was cut, is `Send` what `deliver` takes it for? Yes. |
| `checks` | 13 families of small networks, some 169,000 with what fails in them: no question, each alone, pairs where two matter together | Is a failure ever a verdict, does an unreachable host ever look fixed, does the order of fetches matter? Only as section 6 says. Are SPF trees cut short, and found out when they are over the limit, and what do their prefetches send besides? Is each shared fault reported, and once, each valid chain of trust accepted? Yes. |
| `commands` | 3 checks, one of them active and one renamed in version 2, 2 targets, 3 configs, 100 sets of flags with all globs of up to 3 letters, 2 reports, 2 days, every call fails | Do the checks run that the globs mean, does a build pass or fail as it should, are reports whole? Yes. |

Why the bounds are enough:

* `finding_state`: `Record` treats findings independently, except for the targets and executions
  they share; two findings on two targets with one check give every combination (same run, one
  failing, one target gone). Four runs are enough to open a finding, miss it twice, and see it
  again; two ticks to outlive the retention. One rename is enough: a version knows all the
  former IDs, and whatever it saves it saves under its own. `MaxRuns` and `MaxTime` are the only bounds and
  end the behaviour (hence `CHECK_DEADLOCK FALSE`); the theorems need neither.
* `delivery*`: channels share nothing but the diff, the database (under keys of their own) and
  the context, so one channel is enough except where the question is about another one. Two
  findings are needed for partial sends and for the cap; one suffices for liveness. Nothing
  bounds the number of runs: the state space is finite because ages stop at the heartbeat.
* `single_flight`: one caller leads and fails, one waits and takes over, one arrives in between
  (before or after the entry is removed); a fourth adds waiters that behave like the second.
* `engine`: each execution has its own ways to come back, between them all of them. Two
  executions compete for a target slot, and with the third for the global one. One helper process
  is enough: what matters is whether any holds the output, and whether the kill reaches it.
* `daemon_loop`: runs may take any time; `Horizon` is beyond a period plus the stale time.
* `resolver`: the servers asked for are tried in order, so two show a fallback; of two types one
  can be withheld while the other is served; of two domains one can have changed. The theorems
  hold for any number of each.
* `transport`: three messages give one before, one at and one after the failure. The time limit
  is shorter than one of the rate limits and longer than the other, and one limit is too long to
  be waited for. Digests are cut at budgets of five: blocks are small, medium or more than a chunk
  holds, two chunks make a message, so every branch of the cutting is taken.
* `checks`: networks vary what the checks of one family look at together, and leave the rest
  fixed; each family has networks for every branch of its checks. The limits of SPF are scaled
  down (2 lookups, depth 3, 12 queries), and so are the redirects (2), so that they are met. The
  theorems hold for any networks, failures and limits that are related as the code's are.
* `commands`: globs of up to three letters over IDs of two to five letters, and six longer ones
  picked for their stars, reach every branch of `Match` and a second and third backtracking. Two
  versions show a rename, two days an expiry. Of the reports one is `--output`, which `close` and
  `finish` treat apart, and one is not. The commands share nothing but the baseline file, so two
  findings are enough: one in it and one not.

## 4. Fairness

* `DaemonRun`: the program takes the steps it can (`WF` for starting, dispatching, pruning and
  restarting; the service manager restarts the daemon, `deploy/docker-compose.yml`). `Record` is
  strongly fair: the probe does not fail every run for ever. A channel in `Reachable` accepts a
  message when it is tried again and again (`SF` of `Send`); nothing is assumed of the others.
* `SingleFlight`: goroutines run. Nothing makes `fn` return or a context end. `EveryCallReturns`
  therefore says what it excuses: a caller stuck in its own `fn`, and one whose context never
  ends while another's `fn` hangs.
* `Engine`, `PluginRun`: goroutines run, deadlines pass, and what seta and the operating system do
  for a plugin's process happens (start, kill, wait, the end of `waitDelay`). No check need return,
  and no plugin need do anything.
* `DaemonLoop`: time passes, timers fire, `Serve` goes on, and a run whose context is done ends;
  the engine, the database and the notifiers all watch it. A run that was not canceled need not
  end.

## 5. What is proved

The inductive invariants (`FlightInv`, `EngineInv`, `PluginInv`, `LoopInv`, `PostInv`, `MailInv`,
`DeliverInv`, `ExactInv`, `StoredInv`, `FileInv`, `BaselineInv`, `VerdictInv`, `ResolverInv`, `RunInv`,
each with its module's types) were checked by TLC while the proofs were found; since they are proved,
no run repeats them, and the runs check the properties they imply beside those that are not proved.

TLAPS checks these for every value of the constants that satisfies the modules' assumptions
(counts and times are naturals, thresholds at least one, sentinels are not values). With them every
safety property that a run checks and that the code keeps is a theorem.

* `FindingState_proofs`: types; `ResolvedOnlyAfterAbsence`, `ReaderInStep` and `LatestRunKept`
  are inductive together with the types; `RowsGoQuietly` is an action property of each step: in
  whatever way `Record` can be said to have made it, its result was without the row's target;
  `TableImplementsLifecycle` needs one more invariant, that a closed row counts no absences,
  because the abstract strikes start from zero when a finding reopens. The heart is a lemma per
  row operator: what `SeenRow` and `MissedRow` do to the type, the history and the belief.
  `StoredInv` says that a finding has at most one row, under an ID its check has had, and that
  this is the row one version would have. From it, for any number of versions and renames,
  `StoredRows` loses no row (`RenamedRowsAreFound`) and implements `FindingState`
  (`RenamesAreInvisible`): all that is proved of the database holds across upgrades.
* `DaemonRun_proofs`: `DeliverInv` says what a digest under way has to do with the changes kept in
  the database: once they are read, it mentions them all, whatever fails. `KeptUntilSent` follows,
  with any failing calls, shutdowns and crashes: a kept change leaves only with an accepted digest or at the
  full cap. That the cap leaves `MaxPending` changes is a counting argument over the places
  `Before` gives them; it needs `OrderAssumption`, that `Before` is a strict total order, as
  `state.CompareChanges` is. `ExactInv` says exactly what each channel's reader still gets, by what
  way, and what it believes until then. It only holds while nothing loses or repeats a change: `Undisturbed`
  says that nothing interrupts a run (`Interrupts = {}`), that only sends and stamps fail, not the
  calls whose failure loses or repeats changes (`get`, `keep`, `forget`), and that there is room for
  a change of every finding. `ChangesAreNotLost` and `ReadersCatchUp` assume
  it, for any findings, channels and partial sends, and no less can be assumed: `canceled_loses` and
  section 6 show what happens otherwise.
* `PluginRun_proofs`: `EngineInv` says what is known of an execution at every stage of the engine;
  the verdict is what its check sent or why its context ended. `SlotsRespected` is a counting
  argument over finite sets with the goroutines that hold a slot, for any numbers of executions and
  slots. `PluginInv` relates the stages of `invoke` to the check's goroutine and to the process: what
  `cmd.Run` returned as nil, nobody can add to any more. With it every step is a step of `Engine` or
  leaves its state alone (`PluginsAreChecks`), and `PluginsKeepTheProtocol` holds for any executions
  and plugins.
* `DaemonLoop_proofs`: `LoopInv` ties the published time to the run in progress (`late` is at
  least `elapsed`), which gives `StuckRunIsStale`, and the grace timer to the shutdown, which
  gives `GraceKept`. `RunsWaitForTheirTime` assumes `Matches`.
* `Commands_proofs`: `FileInv` says at each step of each command which reports are open and that each is still
  empty or whole; `ReportsAreWhole` follows because a verdict needs all of them written and `close`
  removes the rest. `BaselineInv` says that each entry names something accepted under an ID its check has or
  had, and each accepted finding has an entry; `CanonicalIsCurrent`, that the aliases of a version
  take each former ID to the current one of the same check, then gives
  `BaselineSurvivesRenames` for any number of versions. `GlobsMatchAsMeant` says that `Match`
  computes `Covers` for every glob and every ID, so the selection follows the patterns as a reader
  takes them. `VerdictInv` carries that through a command: the plan is the one the config and the
  flags ask for, the result comes from the plan, the overrides and suppressions are applied to it as written,
  the baseline takes away what was accepted and nothing else, and the verdict is by what is left. `PlansAreAsWritten`,
  `PassesAreEarned` and `FailuresAreDeserved` are read off it. `TextAssumption` says that no ID
  has a wildcard in it, as `ValidateCheckID` admits none (`internal/core/check.go:74`); patterns and
  the keys of overrides are any texts.
* `Transport_proofs`: `PostInv` says that the messages before the one at hand had their effect,
  those after it none, the one at hand more than once only in doubt, and that whoever sleeps
  sleeps at least as long as was asked. The refinement of `PartwiseSend` follows: what has
  arrived is always a prefix, and `nil` only comes with all of it. `CuttingLosesNothing` is about
  `Digest`, for every digest and any limits: `PackInv` says of the chunks after each turn of the loop
  that they tell all blocks so far, are as they should be, and that *every* way to cut the digest
  has at least as many cuts before the last of them; the next chunk begins only where what would be too much
  for one chunk lies, so there such a way has a cut of its own. `MailInv` says who has been asked
  and what the server has at each stage of a mail's dialog, which gives `MailReachesAll`.
  `SendsPostOrMail` carries both over to `Transport`.
* `Lookups_proofs`: `FlightInv` is inductive. Its core is that an entry is `done` only once
  its place in the map is decided: a kept entry is the one in the map, a failed one has left it.
  From it follow that one caller computes at a time, that answers are answers, and, step by
  step, that the protocol implements `SharedAnswer`. `ResolverInv` says where a result can come from:
  records from a server in use that does not withhold them, an answer without records from one that
  does or for a domain that has none. The three safety properties of `Resolver` follow from it for any
  servers, types and domains.
* `Checks_proofs`: what is reachable is quickly said (`RunInv`), and the work is in the operators.
  * `FailuresAreNoVerdicts` compares a network `n` with `t`, the same without failures. A value is
    `Honest` if it is `Error` or what it is with `t`, and every way a check puts answers together, `Ask`,
    `Each`, a loop over hosts, leaves it so; so it holds of each check in turn. A fetch ends as it
    would have, or in one of the ways that make an error of it (`Beside`), by induction over the
    redirects left; an SPF walk counts what it would have or has failed (`Untold`), by induction over
    the levels and, within a record, the terms. The failures that the code takes for an answer
    (`TakenForAnswer`, section 6) are excluded one by one, each where a check needs it.
  * `FirstAskersAgree` and `DeclaredHostsAreReached` are about what `Get` makes of one host asked for in two
    ways: a redirect's target counts as declared, so only the first request can tell.
  * `WorkStaysBounded` gives each level its own slack over the caps: a walk looks at the caps after
    each term, so what it is over them by when it returns is what its levels have added after their
    last look (`WalkBounded`, `FollowBounded`). Every record is the first or was paid for with a lookup, and
    its prefetch asks at most what is left of `MaxQueries`; so `prefetched` is at most `MaxQueries` for each.
  * `LimitsAreNoticed` follows a receiver and the walk down the same record. While the walk is `Healthy`,
    within the limit and without a problem, it has paid for its queries with lookups (`Frugal`, `Paid`) and is
    not deeper than it has lookups (`Deep`), so neither cap has cut it short, and it has counted all that the
    receiver did (`Covers`). This is where the limits have to be related: no more lookups than
    levels, and more than two queries for each. In the code they are 10, 10 and 100.
  * `ValidChainsAreJudged` splits `verifySet` by what it finds for one signature after the other;
    `FaultsAreReportedOnce` reads the shared conditions off the checks that divide a fault among them, and, for
    the other direction, that a check which ended without an error has judged each declared host.

Some of these results are about recursive functions: `Match` with `Covers`, the loops of `Digest`, redirects
and the SPF walk. TLAPS does not take induction theorems with an operator as a parameter; their place
is taken by `Least` (every set of naturals has a least element), which gives `Induction` over a *set* of
numbers, and with it that the function such a definition speaks of exists (`Recursion`, and `Iteration` and
`BoundedIteration` for those that step from one number to the next). Each recursion is then unfolded by
a lemma of its own, like `CoversReads`, `MatchWalks`, `FlattenSeqFlattens` and `PackIsRight`. That `Match`
comes to an end is part of it: every round makes `Spot` smaller (`SizeShrinks`).

Only model-checked:

* Liveness everywhere (`ReaderCatchesUp` is safety; that the reader is owed nothing in the end is
  `delivery_live`), and `ENABLED`, which are beyond the prover.

## 6. Where the code and its comments part

Shown by a run:

* `canceled_loses`: `deliver` returns the error of `KV.Get` before this run's changes are merged
  (`internal/notify/notify.go:187`). If the context ends between `Record`'s commit and that
  read, the changes are in the table, will not be reported again, and are in no digest.

Seen while modelling, without a run of their own. Of the state, the daemon and the commands:

* With a schedule that matches no date, like `0 0 30 2 *`, which `cron.ParseStandard` accepts
  (`internal/config/load.go:406`), `Next` returns the zero time and the daemon runs back to back
  (`internal/daemon/daemon.go:83`) while `/healthz` says it is well. `DaemonLoop` has such schedules
  (`~Matches`); `RunsAreScheduled` is checked and proved for the others.
* Upgrades alone never leave two rows of one finding (`RenamesLoseNothing`). With a downgrade in
  between they can: the row read last wins (`internal/state/diff.go:228`), and only the winner's
  former fingerprint is deleted (line 235). After two renames the row that lost, when it was not
  under the current ID, stays, and is loaded again once the winner was pruned: a finding that
  was open then is open again, and is announced as resolved a second time.

* "A result produced while the computing check's context ended is discarded" (`memo.go:9`), but
  only an error is: a *value* computed while the context ended is kept (`memo.go:69`), and
  `probeSMTP` returns such values (`checks/email/starttls.go:74`). `SingleFlight` has them
  (`partial`), and its callers get them.
* When `Send` succeeds and `KV.Delete` fails (`notify.go:220`), the changes kept from before the
  merge are sent again with the next digest, after the ones that replaced them: `ReaderCatchesUp`
  fails as soon as `Faults` contains `send` and `forget`, which `MCDelivery` leaves out.
* The probe passes if, for each type, *some* server of the list serves it (`client.go:220`), so
  with a list of which one withholds records a later failure of the others reaches that one.
* `maxPending` drops what sorts first, not "the oldest" (`notify.go:153`, `:209`); `Truncate`
  models the code.
* A kept change is sent although its finding was suppressed in the meantime: `Filter` looks at
  this run's changes only (`notify.go:194`; `internal/state/diff.go:37`).
* A run canceled during `Dispatch` was recorded already (`internal/daemon/daemon.go:32` says it
  must not record anything).
* `Workers` bounds the checks the engine waits for; an abandoned check runs on beside the one
  that took its slot (`internal/engine/engine.go:36`).
* A persisting finding whose severity rises is announced to nobody
  (`internal/state/diff.go:222`): no kind says so.
* A target whose checks are all deselected drops out of the plan (`internal/cli/run.go:175`),
  and its findings are then forgotten as if it had left the config.
* When `Close` of a report fails, the report stays: its file is closed already, so `close` neither
  stats nor removes it (`internal/cli/output.go:141`, `:151`). `ReportsAreWhole` therefore allows
  `unsure`.
* `checks: []` selects every check: `Select` of an empty list starts from all of them
  (`internal/config/load.go:574`).
* The count of baseline entries that "no longer occur" includes findings whose check failed, was
  not selected or is suppressed (`internal/baseline/baseline.go:106`; its comment says so, the
  note to the user in `output.go:131` does not).
* A run that is interrupted exits with 0 or 1 by what was found so far unless `--strict` is set.
* `Retry-After` as an HTTP date counts as 30 seconds (`internal/notify/http.go:179`).
* A mail that the server took is reported as failed when `QUIT` fails, and is sent again, up to three
  times (`internal/notify/email.go:120`); one rejected recipient fails the mail for all (`:106`).
* `pack` lets a single block be over the budget, and Slack's blocks can exceed the service's limit
  after escaping; the service then rejects the digest, which stays pending for ever.

Of the checks, named in `Checks` by the definition in parentheses, which the properties excuse:

* "An error is never a finding" (`internal/core/check.go:41`), and yet a failure is taken for an
  answer where one address family fails and the other has answers (`HalfAnswered`,
  `internal/netx/netx.go:92`): `email.mx.fcrdns` and the blocklists then judge half of the
  addresses. The same goes for whatever follows the request for a zone transfer, for a reset in the
  handshakes that look for old versions and weak suites, for an input error after `STARTTLS`, for
  a policy host that refuses connections, and for the page of a takeover (`TakenForAnswer`).
* `get` drops the error of reading a body (`checks/internal/web/web.go:329`), whether the connection broke
  or the time was up, and the check judges what came before it as if it were the page:
  `http.exposure.sensitive_path` finds nothing at a path whose file was cut (`checks/http/http.go:485`), and
  `dns.takeover.possible` no mark of an unclaimed name (`checks/dns/takeover.go:154`). An earlier finding
  then counts as absent. `TakenForAnswer` names both; no other check reads bodies through `get`.
* `web.Get` keeps a page under its URL, without whether the host was declared
  (`checks/internal/web/web.go:261`). If `http.hsts.preload_not_ready` asks first, as for an
  undeclared host, and a declared apex refuses, `http.hsts.missing` finds the apex absent and not
  unreachable (`UndeclaredFirst`); the other way round `preload_not_ready` fails.
* `Dial` returns the error of the last address alone, so one that refuses makes a host absent whose
  others timed out (`internal/netx/netx.go:56`).
* The walk stops at its caps before it has seen `all`, which `email.spf.permissive_all` then does not
  report (`checks/email/internal/spf/eval.go:120`); terms after `all` are counted, although no
  receiver gets there (`:105`).
* The work caps are there "so a pathological tree can't turn one check into hundreds of queries"
  (`checks/email/internal/spf/eval.go:22`), but they count only the queries of the walk itself. Before each
  record `prefetch` asks up to what is left of the 100 (`:282`) and counts none of it: ten records that each
  include the next and hold some ninety `exists` terms send about 900 queries before a term of the last one is
  evaluated. `WorkIsBounded` says what does hold: 100 for the first record and for each lookup, of which
  there are never many more than fifty, so a few thousand at most.
* A port 80 that cannot be reached, even one that is only silent for once, leaves a host without a
  redirect to judge and is no error; the code says so itself (`checks/http/http.go:138`, the last
  line of `TakenForAnswer`).
* `verifySet` names the keys of a zone by their tags alone (`checks/dns/dnssec.go:110`), so a signature
  whose tag is that of a key with another algorithm is taken for one "whose algorithm Seta can't verify"
  (`:75`), and an invalid chain with such a signature passes in silence. `AllKnown` excuses it.

Of the plugins:

* Output that is a response with a closing bracket behind it, or any JSON document without findings
  (`null`, `{}`), counts as a response, although `sdk/protocol.go` calls anything but a single
  `Response` a check error (`internal/plugin/plugin.go:276`).
* A plugin that exits with 0 and leaves a process behind that holds its output is an error after
  `waitDelay`; that process is not killed, since the group only is until the plugin was waited for.
* seta may end before the kill of an abandoned plugin is sent, and the plugin, in a group of its own,
  stays.

## 7. The plan

Done, in this order: `FindingDiff`, `FindingState` with its abstract life cycle and theorems;
`Dispatch` and `DaemonRun`; `SingleFlight`; `Engine`; `DaemonLoop`; `HttpPost`; `Resolver`;
`Selection` and `Commands`; the checks, from `Network` to `Checks`; `MailSend`, `Digest` and
`Transport`; `PluginRun` with its theorems; `StoredRows`; the theorems about `DaemonRun`, `StoredRows`,
`Match`, the verdicts of the commands and the cutting of digests; those about `Checks`, with the
walks as recursive functions.

Next, by what is at stake:

1. Downgrades in `StoredRows`; the plan of `Selection` in place of the arbitrary results of `FindingState`:
   which findings a change of the config forgets.
2. Discovery of plugins with its shadowing rules, and the registration of their checks.

## 8. Not modelled

The decoding of the config and the validation of its fields other than patterns, overrides and
suppressions; the formats of reports and the wording and escaping of messages; the wire formats of
DNS, SMTP, TLS and HTTP, the text of records below their tags and terms, cryptography; the schema
migrations; the discovery of plugins, which is one pass over
directories before anything runs. They transform data in one go and keep no state; what depends on
them is an atom or an arbitrary choice in the models. SQLite's transactions are taken to be atomic
and durable, Go's channels, mutexes and `select` to be what the language says.
