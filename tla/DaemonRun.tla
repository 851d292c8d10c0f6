----------------------------- MODULE DaemonRun -----------------------------
(***************************************************************************)
(* One run of the daemon after the other (the run closure of               *)
(* internal/cli/daemon.go): probe, run the checks, Record, Dispatch,       *)
(* Prune.  It composes the findings table (FindingDiff) with the delivery  *)
(* of its changes (Dispatch).                                              *)
(*                                                                         *)
(* Here the table keeps no times: Prune may drop any closed row, and       *)
(* FindingState is the module about retention.  The run's result is any    *)
(* result, so the suppressions of one run and the next need not agree: a   *)
(* suppression expires, or the daemon restarts with another config.        *)
(***************************************************************************)
EXTENDS Dispatch

CONSTANTS
    Interrupts,  \* what may interrupt a run: "cancel", "crash"
    Reachable    \* the channels that accept a message now and then

ASSUME InterruptAssumption ==
    Interrupts \subseteq {"cancel", "crash"} /\ Reachable \subseteq Channels

VARIABLES
    rows,      \* the findings table
    stage      \* "idle", "checking", "dispatching" or "stopped"

vars == <<diff, cancelled, channelVars, ideal, rows, stage>>

dispatchVars == <<diff, cancelled, channelVars, ideal>>

\* An unreachable channel cannot grow the database forever (maxPending).
PendingBounded == \A ch \in Channels : Cardinality(Mentioned(pending[ch])) <= MaxPending

TypeOK ==
    /\ rows \in [Findings -> Row \cup {NoRow}]
    /\ stage \in {"idle", "checking", "dispatching", "stopped"}
    /\ cancelled \in BOOLEAN
    /\ diff \in [Findings -> Change]
    /\ pending \in [Channels -> [Findings -> Change]] /\ PendingBounded
    /\ msg \in [Channels -> [Findings -> Change]]
    /\ age \in [Channels -> Nat \cup {Nil}]
    /\ pc \in [Channels -> {"idle", "get", "due", "send", "keep", "forget", "stamp", "done"}]
    /\ failed \subseteq Channels
    /\ owed \in [Channels -> [Findings -> Kinds \cup {"none"}]]
    /\ belief \in [Channels -> [Findings -> {"nothing", "open", "closed"}]]
    /\ ideal \in [Channels -> [Findings -> {"nothing", "open", "closed"}]]

Init ==
    /\ DispatchInit
    /\ rows = [f \in Findings |-> NoRow]
    /\ stage = "idle"

\* The schedule starts a run.  A failed probe ends it at once, which changes
\* nothing here.
Begin ==
    /\ stage = "idle"
    /\ stage' = "checking"
    /\ UNCHANGED <<dispatchVars, rows>>

ProbeFails ==
    /\ stage = "checking"
    /\ stage' = IF cancelled THEN "stopped" ELSE "idle"
    /\ UNCHANGED <<dispatchVars, rows>>

\* The checks are done, the result is recorded and its changes dispatched.
Record(res) ==
    /\ stage = "checking"
    /\ ~cancelled
    /\ IsResult(res)
    /\ rows' = [f \in Findings |-> NextRow(rows[f], f, res, 0)]
    /\ StartDispatch([f \in Findings |-> ChangeOf(rows[f], f, res)])
    /\ stage' = "dispatching"

\* "run canceled by shutdown; nothing recorded"
RunCanceled ==
    /\ stage = "checking"
    /\ cancelled
    /\ stage' = "stopped"
    /\ UNCHANGED <<dispatchVars, rows>>

\* Dispatch returns, Prune drops some long closed findings (or fails), and
\* the run ends; after a shutdown so does the daemon.
Finish(old) ==
    /\ stage = "dispatching"
    /\ Dispatched
    /\ rows' = [f \in Findings |-> IF f \in old THEN NoRow ELSE rows[f]]
    /\ stage' = IF cancelled THEN "stopped" ELSE "idle"
    /\ diff' = Empty
    /\ pc' = [ch \in Channels |-> "idle"]
    /\ msg' = [ch \in Channels |-> Empty]
    /\ failed' = {}
    /\ UNCHANGED <<cancelled, pending, age, owed, belief, ideal>>

\* Only closed rows are old, and an ended context prunes nothing.
Prunable == IF cancelled THEN {} ELSE {f \in Findings : rows[f] # NoRow /\ ~rows[f].open}

\* The grace of a shutdown is over while the run is still going on.
Cancel ==
    /\ "cancel" \in Interrupts
    /\ stage \in {"checking", "dispatching"}
    /\ ~cancelled
    /\ cancelled' = TRUE
    /\ UNCHANGED <<diff, channelVars, ideal, rows, stage>>

\* The process dies; what it held in memory is gone, the database is not.
Crash ==
    /\ "crash" \in Interrupts
    /\ stage \in {"checking", "dispatching"}
    /\ stage' = "stopped"
    /\ diff' = Empty
    /\ pc' = [ch \in Channels |-> "idle"]
    /\ msg' = [ch \in Channels |-> Empty]
    /\ failed' = {}
    /\ UNCHANGED <<cancelled, pending, age, owed, belief, ideal, rows>>

\* The service manager starts the daemon again.
Restart ==
    /\ stage = "stopped"
    /\ stage' = "idle"
    /\ cancelled' = FALSE
    /\ UNCHANGED <<diff, channelVars, ideal, rows>>

\* Time passes for the heartbeats; beyond the longest one no age matters.
Tick ==
    /\ age' = [ch \in Channels |->
                 IF age[ch] = Nil \/ age[ch] >= Heartbeat[ch] THEN age[ch] ELSE age[ch] + 1]
    /\ UNCHANGED <<diff, cancelled, pending, pc, msg, failed, owed, belief, ideal,
                   rows, stage>>

Results == {res \in [targets : SUBSET Targets, verdicts : SUBSET (Targets \X Checks),
                     present : SUBSET Findings, suppressed : SUBSET Findings,
                     severity : [Findings -> Severities]] : IsResult(res)}

Next ==
    \/ Begin
    \/ ProbeFails
    \/ \E res \in Results : Record(res)
    \/ RunCanceled
    \/ \E ch \in Channels : Deliver(ch) /\ UNCHANGED <<rows, stage>>
    \/ \E old \in SUBSET Prunable : Finish(old)
    \/ Cancel
    \/ Crash
    \/ Restart
    \/ Tick

Spec == Init /\ [][Next]_vars

\* The program does what it can do next, time passes, and the resolver does
\* not fail the probe of every run from some point on.
Progress ==
    /\ WF_vars(Begin)
    /\ WF_vars(Restart)
    /\ WF_vars(RunCanceled)
    /\ WF_vars(Tick)
    /\ SF_vars(\E res \in Results : Record(res))
    /\ WF_vars(\E old \in SUBSET Prunable : Finish(old))
    /\ \A ch \in Channels : WF_vars(Deliver(ch) /\ UNCHANGED <<rows, stage>>)

\* A reachable channel that is tried again and again accepts in the end; the
\* others may fail for ever.
Accepting ==
    \A ch \in Reachable :
        SF_vars(Send(ch) /\ UNCHANGED <<diff, cancelled, ideal, rows, stage>>)

FairSpec == Spec /\ Progress /\ Accepting

-----------------------------------------------------------------------------
\* What deliver would still send for the channel: what it holds in memory
\* once it has read the database, and what the database holds before.
Outbox(ch) ==
    CASE pc[ch] = "get" -> Merge(pending[ch], Filter(ch, diff))
      [] pc[ch] \in {"due", "send", "keep"} -> msg[ch]
      [] OTHER -> pending[ch]

(***************************************************************************)
(* No change is lost: what a channel's reader should still get is in the   *)
(* database or in the delivery under way, in its latest kind, through any  *)
(* sequence of failed and partial deliveries ("Changes a channel couldn't  *)
(* deliver are kept and sent with its next digest", Dispatch).             *)
(***************************************************************************)
NothingLost ==
    \A ch \in Channels, f \in Findings :
        owed[ch][f] # "none" => Outbox(ch)[f].kind = owed[ch][f]

(***************************************************************************)
(* A reader who is owed nothing believes of every finding what a reader    *)
(* would whose channel never failed: merged digests tell the same story as *)
(* the separate ones would have (merge).                                   *)
(***************************************************************************)
ReaderCatchesUp ==
    \A ch \in Channels, f \in Findings :
        owed[ch][f] = "none" => belief[ch][f] = ideal[ch][f]

(***************************************************************************)
(* A change that was kept leaves the database only after a digest with the *)
(* finding in it was accepted, for a later change of the finding, or where *)
(* the cap leaves it no room: no shutdown, crash or failing call empties   *)
(* the database (deliver: Delete after Send).                              *)
(***************************************************************************)
KeptUntilSent ==
    [][\A ch \in Channels, f \in Findings :
          pending[ch][f] # NoChange /\ pending'[ch][f] = NoChange =>
              \/ pc[ch] = "forget" /\ msg[ch][f] # NoChange
              \/ pc[ch] = "keep" /\ Cardinality(Mentioned(pending'[ch])) = MaxPending]_vars

(***************************************************************************)
(* Everything owed to a channel that accepts a message now and then is     *)
(* delivered, whatever the other channels do ("one failing channel never   *)
(* blocks the others", Dispatch).                                          *)
(***************************************************************************)
EventuallyDelivered ==
    \A ch \in Reachable, f \in Findings :
        owed[ch][f] # "none" ~> owed[ch][f] = "none"

(***************************************************************************)
(* A reachable channel with a heartbeat is not silent: however long nothing*)
(* changes, a message is accepted once the heartbeat is due (heartbeatDue).*)
(***************************************************************************)
NeverSilent ==
    \A ch \in Reachable : Heartbeat[ch] > 0 =>
        (age[ch] = Nil \/ age[ch] = Heartbeat[ch]) ~> pc[ch] \in {"forget", "stamp"}

-----------------------------------------------------------------------------
\* A message has no changes without a kind.
Proper(m) == \A f \in Findings : m[f] = NoChange \/ m[f].kind \in Kinds

(***************************************************************************)
(* What holds at every stage of a delivery, whatever fails: once the kept  *)
(* changes are read, the digest mentions all of them until deliver         *)
(* returns, so that keeping it or forgetting them loses none.              *)
(***************************************************************************)
DeliverInv ==
    \A ch \in Channels :
        /\ Proper(pending[ch]) /\ Proper(msg[ch])
        /\ pc[ch] \in {"due", "send", "keep", "forget"} =>
               Mentioned(pending[ch]) \subseteq Mentioned(msg[ch])
        /\ pc[ch] = "due" => msg[ch] = Empty

(***************************************************************************)
(* Nothing but sends and stamps fails, no run is interrupted, and there is *)
(* room for every finding in the database.                                 *)
(***************************************************************************)
Undisturbed ==
    /\ Interrupts = {}
    /\ Faults \subseteq {"send", "stamp"}
    /\ Cardinality(Findings) <= MaxPending

(***************************************************************************)
(* Then what is still to be sent and what is owed are the same, between    *)
(* runs and at every stage of a delivery but one: when an accepted digest  *)
(* is to be forgotten, it is owed no more.  And the reader, once given     *)
(* what is owed, believes what a reader would whose channel never failed.  *)
(***************************************************************************)
ExactInv ==
    /\ ~cancelled
    /\ stage # "dispatching" => \A ch \in Channels : pc[ch] = "idle"
    /\ \A ch \in Channels, f \in Findings :
         /\ owed[ch][f] = IF pc[ch] = "forget" THEN "none" ELSE Outbox(ch)[f].kind
         /\ Believe(belief[ch][f], owed[ch][f]) = ideal[ch][f]

=============================================================================
