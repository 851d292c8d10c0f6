------------------------------ MODULE Dispatch ------------------------------
(***************************************************************************)
(* Delivery of a run's changes to the notification channels                *)
(* (internal/notify/notify.go: Dispatch, deliver, merge, heartbeatDue).    *)
(*                                                                         *)
(* Dispatch runs deliver for every channel concurrently.  deliver reads    *)
(* the channel's undelivered changes from the kv table, merges this run's  *)
(* in, sends one digest (or a heartbeat), and then either keeps the whole  *)
(* digest for the next run or forgets it and stamps the time.  Each        *)
(* database call and each Send is a step, so other channels, a shutdown or *)
(* a crash come between them.  Any of them can fail; Faults says which do. *)
(***************************************************************************)
EXTENDS FindingDiff, FiniteSets

CONSTANTS
    Channels,     \* the notifiers of the config
    On,           \* Rule.On: the kinds each channel wants
    MinSeverity,  \* Rule.MinSeverity
    Heartbeat,    \* Rule.Heartbeat in ticks, 0 for none
    MaxPending,   \* maxPending: undelivered changes kept per channel
    Rank,         \* order of the findings by check ID and subject
    TargetRank,   \* order of the targets by name
    Faults        \* the calls that can fail: a subset of Calls

Calls == {"get", "send", "keep", "forget", "stamp"}

ASSUME ChannelAssumption ==
    /\ On \in [Channels -> SUBSET Kinds]
    /\ MinSeverity \in [Channels -> Nat]
    /\ Heartbeat \in [Channels -> Nat]
    /\ MaxPending \in Nat \ {0}
    /\ Rank \in [Findings -> Nat]
    /\ TargetRank \in [Targets -> Nat]
    /\ Faults \subseteq Calls

\* CompareChanges ties no two findings: names of targets differ, and findings
\* of one target differ in their check or their subject (core.Fingerprint).
ASSUME OrderAssumption ==
    /\ IsFiniteSet(Findings)
    /\ \A t, u \in Targets : TargetRank[t] = TargetRank[u] => t = u
    /\ \A f, g \in Findings : TargetOf[f] = TargetOf[g] /\ Rank[f] = Rank[g] => f = g

VARIABLES
    diff,       \* the changes being dispatched
    cancelled,  \* the context of the run has ended (the shutdown's grace is over)
    pending,    \* kv notify.pending.<channel>: undelivered changes
    age,        \* kv notify.last_sent.<channel>: ticks since, Nil when never sent
    pc,         \* where the channel's deliver is
    msg,        \* the changes of the digest deliver has put together
    failed,     \* the channels Dispatch returns a failure for
    owed,       \* history: the change the channel's reader should still get
    belief,     \* history: what the channel's reader believes of each finding
    ideal       \* history: what it would believe if no delivery ever failed

channelVars == <<pending, age, pc, msg, failed, owed, belief>>

Empty == [f \in Findings |-> NoChange]
Mentioned(m) == {f \in Findings : m[f] # NoChange}

\* Rule.Filter
Wanted(ch, c) ==
    ~c.suppressed /\ c.kind \in On[ch] /\ c.severity >= MinSeverity[ch]

Filter(ch, changes) ==
    [f \in Findings |-> IF Wanted(ch, changes[f]) THEN changes[f] ELSE NoChange]

\* Wrong: a "persisting" hides a new or regressed that nobody has seen yet.
MergeLatest(old, new) ==
    [f \in Findings |-> IF new[f] # NoChange THEN new[f] ELSE old[f]]

\* merge: the latest change of a finding wins, but "persisting" does not
\* replace an undelivered change of another kind.
Merge(old, new) ==
    [f \in Findings |->
        IF \/ new[f] = NoChange
           \/ new[f].kind = "persisting" /\ old[f] # NoChange /\ old[f].kind # "persisting"
        THEN old[f] ELSE new[f]]

KindOrder == [new |-> 0, regressed |-> 1, resolved |-> 2, persisting |-> 3]

\* state.CompareChanges, for two findings of the message m.
Before(m, f, g) ==
    LET a == TargetRank[TargetOf[f]]  b == TargetRank[TargetOf[g]]
        j == KindOrder[m[f].kind]     k == KindOrder[m[g].kind]
    IN  \/ a < b
        \/ a = b /\ j < k
        \/ a = b /\ j = k /\ m[f].severity > m[g].severity
        \/ a = b /\ j = k /\ m[f].severity = m[g].severity /\ Rank[f] < Rank[g]

\* A finding of the message and those sorted after it.
FromOn(m, f) == {g \in Mentioned(m) : g = f \/ Before(m, f, g)}

\* changes[len(changes)-maxPending:]: the last of the sorted changes.
Truncate(m) ==
    [f \in Findings |->
        IF f \in Mentioned(m) /\ Cardinality(FromOn(m, f)) <= MaxPending
        THEN m[f] ELSE NoChange]

DispatchInit ==
    /\ diff = Empty
    /\ cancelled = FALSE
    /\ pending = [ch \in Channels |-> Empty]
    /\ age = [ch \in Channels |-> Nil]
    /\ pc = [ch \in Channels |-> "idle"]
    /\ msg = [ch \in Channels |-> Empty]
    /\ failed = {}
    /\ owed = [ch \in Channels |-> [f \in Findings |-> "none"]]
    /\ belief = [ch \in Channels |-> [f \in Findings |-> "nothing"]]
    /\ ideal = [ch \in Channels |-> [f \in Findings |-> "nothing"]]

\* A call fails when the context has ended, whatever the call, or by itself.
CanFail(call) == cancelled \/ call \in Faults

Goto(ch, label) == pc' = [pc EXCEPT ![ch] = label]

\* deliver returns: with an error, which Dispatch reports, or without.
ReturnError(ch) == Goto(ch, "done") /\ failed' = failed \cup {ch}
ReturnNil(ch) == Goto(ch, "done") /\ UNCHANGED failed

\* The history of what the reader is owed: a change stays owed until a
\* message carries it or a later one replaces it.
Owe(debt, kind) ==
    IF kind = "none" \/ (kind = "persisting" /\ debt # "none") THEN debt ELSE kind

\* Dispatch starts one deliver per channel.
StartDispatch(changes) ==
    /\ diff' = changes
    /\ pc' = [ch \in Channels |-> "get"]
    /\ failed' = {}
    /\ owed' = [ch \in Channels |-> [f \in Findings |->
                  Owe(owed[ch][f], Filter(ch, changes)[f].kind)]]
    /\ ideal' = [ch \in Channels |-> [f \in Findings |->
                  Believe(ideal[ch][f], Filter(ch, changes)[f].kind)]]
    /\ UNCHANGED <<cancelled, pending, age, msg, belief>>

\* wg.Wait: every deliver has returned.
Dispatched == \A ch \in Channels : pc[ch] = "done"

\* Wrong: forgets the kept changes before the digest is sent.
LoadAndForget(ch) ==
    LET m == Merge(pending[ch], Filter(ch, diff)) IN
    /\ pc[ch] = "get"
    /\ ~cancelled
    /\ msg' = [msg EXCEPT ![ch] = m]
    /\ pending' = [pending EXCEPT ![ch] = Empty]
    /\ IF m # Empty THEN Goto(ch, "send") /\ UNCHANGED failed
       ELSE IF Heartbeat[ch] > 0 THEN Goto(ch, "due") /\ UNCHANGED failed
       ELSE ReturnNil(ch)
    /\ UNCHANGED <<age, owed, belief>>

Load(ch) ==
    LET m == Merge(pending[ch], Filter(ch, diff)) IN
    /\ pc[ch] = "get"
    /\ ~cancelled
    /\ msg' = [msg EXCEPT ![ch] = m]
    /\ IF m # Empty THEN Goto(ch, "send") /\ UNCHANGED failed
       ELSE IF Heartbeat[ch] > 0 THEN Goto(ch, "due") /\ UNCHANGED failed
       ELSE ReturnNil(ch)
    /\ UNCHANGED <<pending, age, owed, belief>>

\* This run's changes are dropped: they were not merged in yet.
LoadFails(ch) ==
    /\ pc[ch] = "get"
    /\ CanFail("get")
    /\ ReturnError(ch)
    /\ UNCHANGED <<pending, age, msg, owed, belief>>

\* Wrong: the heartbeat is due one tick late.
DueLate(ch) == age[ch] = Nil \/ age[ch] > Heartbeat[ch]

Due(ch) == age[ch] = Nil \/ age[ch] >= Heartbeat[ch]

\* heartbeatDue reads the stamp.
HeartbeatDue(ch) ==
    /\ pc[ch] = "due"
    /\ ~cancelled
    /\ IF Due(ch) THEN Goto(ch, "send") /\ UNCHANGED failed ELSE ReturnNil(ch)
    /\ UNCHANGED <<pending, age, msg, owed, belief>>

HeartbeatDueFails(ch) ==
    /\ pc[ch] = "due"
    /\ CanFail("get")
    /\ ReturnError(ch)
    /\ UNCHANGED <<pending, age, msg, owed, belief>>

\* The reader gets the changes of the findings in part.
Receive(ch, part) ==
    belief' = [belief EXCEPT ![ch] = [f \in Findings |->
                 IF f \in part THEN Believe(belief[ch][f], msg[ch][f].kind)
                 ELSE belief[ch][f]]]

\* Wrong: what was kept is not forgotten once it is delivered.
SendAndRemember(ch) ==
    /\ pc[ch] = "send"
    /\ ~cancelled
    /\ Receive(ch, Mentioned(msg[ch]))
    /\ owed' = [owed EXCEPT ![ch] = [f \in Findings |->
                  IF owed[ch][f] = msg[ch][f].kind THEN "none" ELSE owed[ch][f]]]
    /\ Goto(ch, "stamp")
    /\ UNCHANGED <<pending, age, msg, failed>>

Send(ch) ==
    /\ pc[ch] = "send"
    /\ ~cancelled
    /\ Receive(ch, Mentioned(msg[ch]))
    /\ owed' = [owed EXCEPT ![ch] = [f \in Findings |->
                  IF owed[ch][f] = msg[ch][f].kind THEN "none" ELSE owed[ch][f]]]
    /\ Goto(ch, IF pending[ch] # Empty THEN "forget" ELSE "stamp")
    /\ UNCHANGED <<pending, age, msg, failed>>

\* A digest too long for one message is sent in parts, in order, and any of
\* them can fail; the reader keeps the parts before it.  (With an ended
\* context no part is sent.)
Parts(ch) ==
    IF cancelled THEN {{}}
    ELSE {p \in SUBSET Mentioned(msg[ch]) :
             \A f \in p, g \in Mentioned(msg[ch]) : Before(msg[ch], g, f) => g \in p}

SendFails(ch) ==
    /\ pc[ch] = "send"
    /\ CanFail("send")
    /\ \E part \in Parts(ch) : Receive(ch, part)
    /\ IF msg[ch] # Empty THEN Goto(ch, "keep") /\ UNCHANGED failed ELSE ReturnError(ch)
    /\ UNCHANGED <<pending, age, msg, owed>>

\* Wrong: keeps this run's changes only.
KeepLatest(ch) ==
    /\ pc[ch] = "keep"
    /\ pending' = [pending EXCEPT ![ch] = Truncate(Filter(ch, diff))]
    /\ ReturnError(ch)
    /\ UNCHANGED <<age, msg, owed, belief>>

\* KV.Set(context.WithoutCancel(ctx), pendingKey): an ended context is no obstacle.
Keep(ch) ==
    /\ pc[ch] = "keep"
    /\ pending' = [pending EXCEPT ![ch] = Truncate(msg[ch])]
    /\ ReturnError(ch)
    /\ UNCHANGED <<age, msg, owed, belief>>

KeepFails(ch) ==
    /\ pc[ch] = "keep"
    /\ "keep" \in Faults
    /\ ReturnError(ch)
    /\ UNCHANGED <<pending, age, msg, owed, belief>>

Forget(ch) ==
    /\ pc[ch] = "forget"
    /\ ~cancelled
    /\ pending' = [pending EXCEPT ![ch] = Empty]
    /\ Goto(ch, "stamp")
    /\ UNCHANGED <<age, msg, failed, owed, belief>>

ForgetFails(ch) ==
    /\ pc[ch] = "forget"
    /\ CanFail("forget")
    /\ ReturnError(ch)
    /\ UNCHANGED <<pending, age, msg, owed, belief>>

Stamp(ch) ==
    /\ pc[ch] = "stamp"
    /\ ~cancelled
    /\ age' = [age EXCEPT ![ch] = 0]
    /\ ReturnNil(ch)
    /\ UNCHANGED <<pending, msg, owed, belief>>

StampFails(ch) ==
    /\ pc[ch] = "stamp"
    /\ CanFail("stamp")
    /\ ReturnError(ch)
    /\ UNCHANGED <<pending, age, msg, owed, belief>>

Deliver(ch) ==
    /\ \/ Load(ch) \/ LoadFails(ch) \/ HeartbeatDue(ch) \/ HeartbeatDueFails(ch)
       \/ Send(ch) \/ SendFails(ch) \/ Keep(ch) \/ KeepFails(ch)
       \/ Forget(ch) \/ ForgetFails(ch) \/ Stamp(ch) \/ StampFails(ch)
    /\ UNCHANGED <<diff, cancelled, ideal>>
=============================================================================
