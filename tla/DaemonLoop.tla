----------------------------- MODULE DaemonLoop -----------------------------
(***************************************************************************)
(* The scheduling loop of the daemon and its health endpoint: Serve,       *)
(* runOnce and Handler of internal/daemon/daemon.go.  What happens inside  *)
(* a run is in DaemonRun; here a run starts, takes its time and ends.      *)
(*                                                                         *)
(* Times are kept relative to the clock, so the clock itself is unbounded: *)
(* phase is the time since the last scheduled time, late is how long ago   *)
(* d.next was (negative while it is ahead), and so on.  Beyond Horizon, the*)
(* longest time anything is compared with, later is all the same.          *)
(***************************************************************************)
EXTENDS Integers

CONSTANTS
    Period,      \* time from one scheduled time to the next
    Matches,     \* the schedule matches some time; "0 0 30 2 *" matches none
    Grace,       \* shutdownGrace
    StaleAfter   \* Daemon.StaleAfter

ASSUME TimeAssumption ==
    /\ Period \in Nat \ {0} /\ Grace \in Nat /\ StaleAfter \in Nat
    /\ Matches \in BOOLEAN

ZeroTime == -Period - 1   \* d.next.IsZero(), long past
Unset == -1               \* no grace timer

Horizon == Grace + StaleAfter + Period + 1

VARIABLES
    pc,          \* where Serve is
    phase,       \* time since the last scheduled time
    late,        \* now - d.next; ZeroTime when d.next is the zero time
    elapsed,     \* now - d.lastStarted
    shutdown,    \* Serve's context is done
    since,       \* history: time since the shutdown was requested
    grace,       \* time until the grace timer cancels the run, or Unset
    canceled,    \* the run's context is done
    last,        \* d.last is set: a run has succeeded
    lastErr,     \* d.lastErr is set: the last run failed
    fresh        \* history: a scheduled time has passed since the last run ended

vars == <<pc, phase, late, elapsed, shutdown, since, grace, canceled, last, lastErr, fresh>>

TypeOK ==
    /\ pc \in {"waiting", "checking", "entering", "running", "after", "stopped"}
    /\ phase \in 0..(Period - 1)
    /\ late \in (-Period..Horizon) \cup {ZeroTime}
    /\ elapsed \in 0..Horizon
    /\ shutdown \in BOOLEAN /\ canceled \in BOOLEAN /\ last \in BOOLEAN
    /\ lastErr \in BOOLEAN /\ fresh \in BOOLEAN
    /\ since \in 0..Horizon
    /\ grace \in (0..Grace) \cup {Unset}

\* Serve is called at any time of the schedule; the first run is due at once.
Init ==
    /\ pc = "waiting"
    /\ phase \in 0..(Period - 1)
    /\ late = 0
    /\ elapsed = 0
    /\ shutdown = FALSE
    /\ since = 0
    /\ grace = Unset
    /\ canceled = FALSE
    /\ last = FALSE /\ lastErr = FALSE
    /\ fresh = TRUE

\* next.Sub(now) <= 0: the timer fires, or was not needed.
Due == late = ZeroTime \/ late >= 0

Wake ==
    /\ pc = "waiting"
    /\ Due
    /\ pc' = "checking"
    /\ UNCHANGED <<phase, late, elapsed, shutdown, since, grace, canceled, last, lastErr, fresh>>

\* The select on ctx.Done(), reached only when there is something to wait for.
WakeToStop ==
    /\ pc = "waiting"
    /\ shutdown
    /\ ~Due
    /\ pc' = "stopped"
    /\ UNCHANGED <<phase, late, elapsed, shutdown, since, grace, canceled, last, lastErr, fresh>>

\* ctx.Err() before and after a run.
Stop ==
    /\ pc \in {"checking", "after"}
    /\ shutdown
    /\ pc' = "stopped"
    /\ UNCHANGED <<phase, late, elapsed, shutdown, since, grace, canceled, last, lastErr, fresh>>

\* Not shut down: runOnce is called.  A shutdown may still come before it
\* registers its AfterFunc, which then fires at once.
Admit ==
    /\ pc = "checking"
    /\ ~shutdown
    /\ pc' = "entering"
    /\ UNCHANGED <<phase, late, elapsed, shutdown, since, grace, canceled, last, lastErr, fresh>>

\* Wrong: the next time is computed and published when a run starts.
StartRunRescheduling ==
    /\ pc = "entering"
    /\ pc' = "running"
    /\ elapsed' = 0
    /\ canceled' = FALSE
    /\ grace' = Unset
    /\ late' = phase - Period
    /\ UNCHANGED <<phase, shutdown, since, last, lastErr, fresh>>

\* d.running and d.lastStarted are set, then d.Run is called.
StartRun ==
    /\ pc = "entering"
    /\ pc' = "running"
    /\ elapsed' = 0
    /\ canceled' = FALSE
    /\ grace' = Unset
    /\ UNCHANGED <<phase, late, shutdown, since, last, lastErr, fresh>>

\* context.AfterFunc starts the grace timer.
BeginGrace ==
    /\ pc = "running"
    /\ shutdown
    /\ grace = Unset
    /\ grace' = Grace
    /\ UNCHANGED <<pc, phase, late, elapsed, shutdown, since, canceled, last, lastErr, fresh>>

\* Wrong: nothing cancels the run.
GraceOverNever == FALSE /\ pc = "running" /\ UNCHANGED vars

\* time.AfterFunc(d.Grace, cancel)
GraceOver ==
    /\ pc = "running"
    /\ grace = 0
    /\ ~canceled
    /\ canceled' = TRUE
    /\ UNCHANGED <<pc, phase, late, elapsed, shutdown, since, grace, last, lastErr, fresh>>

\* Run returns; deferred calls stop AfterFunc and cancel.
EndRun(ok) ==
    /\ pc = "running"
    /\ pc' = "after"
    /\ last' = (last \/ ok)
    /\ lastErr' = ~ok
    /\ fresh' = FALSE
    /\ UNCHANGED <<phase, late, elapsed, shutdown, since, grace, canceled>>

\* Wrong: the next time is the first one after the last run's start.
RescheduleFromStart ==
    /\ pc = "after"
    /\ ~shutdown
    /\ late' = IF Matches /\ elapsed > phase THEN phase
               ELSE IF Matches THEN phase - Period ELSE ZeroTime
    /\ pc' = "waiting"
    /\ UNCHANGED <<phase, elapsed, shutdown, since, grace, canceled, last, lastErr, fresh>>

\* next = d.Schedule.Next(now), the first scheduled time after now; the zero
\* time if there is none.
Reschedule ==
    /\ pc = "after"
    /\ ~shutdown
    /\ late' = IF Matches THEN phase - Period ELSE ZeroTime
    /\ pc' = "waiting"
    /\ UNCHANGED <<phase, elapsed, shutdown, since, grace, canceled, last, lastErr, fresh>>

\* SIGTERM.
Shutdown ==
    /\ ~shutdown
    /\ shutdown' = TRUE
    /\ UNCHANGED <<pc, phase, late, elapsed, since, grace, canceled, last, lastErr, fresh>>

Later(t) == IF t >= Horizon THEN Horizon ELSE t + 1

Tick ==
    /\ pc # "stopped"
    /\ phase' = IF phase = Period - 1 THEN 0 ELSE phase + 1
    /\ late' = IF late = ZeroTime THEN ZeroTime ELSE Later(late)
    /\ elapsed' = Later(elapsed)
    /\ since' = IF shutdown THEN Later(since) ELSE 0
    /\ grace' = IF grace \in {Unset, 0} THEN grace ELSE grace - 1
    /\ fresh' = (fresh \/ phase' = 0)
    /\ UNCHANGED <<pc, shutdown, canceled, last, lastErr>>

Stopped == pc = "stopped" /\ UNCHANGED vars

Serve == Wake \/ WakeToStop \/ Stop \/ Admit \/ StartRun \/ Reschedule

Next ==
    \/ Serve
    \/ BeginGrace \/ GraceOver
    \/ \E ok \in BOOLEAN : EndRun(ok)
    \/ Shutdown \/ Tick \/ Stopped

Spec == Init /\ [][Next]_vars

\* Serve goes on, timers fire, time passes, and a run whose context is done
\* ends: the engine, the probe, the database and the notifiers all watch it.
Fairness ==
    /\ WF_vars(Serve) /\ WF_vars(BeginGrace) /\ WF_vars(GraceOver) /\ WF_vars(Tick)
    /\ WF_vars(canceled /\ \E ok \in BOOLEAN : EndRun(ok))

FairSpec == Spec /\ Fairness

\* The status GET /healthz answers with.
Health ==
    IF late # ZeroTime /\ late > StaleAfter THEN "stale"
    ELSE IF lastErr THEN "failing"
    ELSE IF ~last THEN "starting" ELSE "ok"

-----------------------------------------------------------------------------
(***************************************************************************)
(* After the first run, a run starts only once a scheduled time has come   *)
(* since the run before it ended: times that pass during a long run are    *)
(* skipped, not caught up with (Serve).                                    *)
(***************************************************************************)
RunsAreScheduled ==
    [][pc = "entering" /\ pc' = "running" => fresh]_vars

(***************************************************************************)
(* The daemon waits for the first scheduled time there is and for no later *)
(* one, however long the run before took (Serve: Schedule.Next(now)).      *)
(***************************************************************************)
WaitsForTheNextTime ==
    pc = "waiting" /\ ~Due => late = phase - Period

(***************************************************************************)
(* A run in progress is canceled only for a shutdown, and not before it    *)
(* had its grace to finish (runOnce).                                      *)
(***************************************************************************)
GraceKept == canceled /\ pc = "running" => shutdown /\ since >= Grace

(***************************************************************************)
(* A run that has been going on for longer than StaleAfter fails the       *)
(* health check ("a stuck run", StaleAfter), so the published time of the  *)
(* next run must not move on while a run is in progress.                   *)
(***************************************************************************)
StuckRunIsStale == pc = "running" /\ elapsed > StaleAfter => Health = "stale"

(***************************************************************************)
(* Why these hold, as an inductive invariant: while a run is due or going  *)
(* on its time is the published one, and a canceled run's grace is used up.*)
(***************************************************************************)
LoopInv ==
    /\ TypeOK
    /\ Matches => late # ZeroTime
    /\ WaitsForTheNextTime
    /\ pc \in {"checking", "entering"} => Due
    /\ Matches /\ pc \in {"running", "after"} => late >= elapsed
    /\ Matches /\ (pc \in {"checking", "entering"} \/ (pc = "waiting" /\ Due)) => fresh
    /\ pc = "running" /\ grace # Unset => shutdown /\ since + grace >= Grace
    /\ pc = "running" /\ canceled => grace = 0

(***************************************************************************)
(* A shutdown ends the daemon, whatever it is doing: waiting, starting a   *)
(* run, or stuck in one (Serve, runOnce).                                  *)
(***************************************************************************)
ShutdownStops == shutdown ~> pc = "stopped"
=============================================================================
