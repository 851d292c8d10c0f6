---------------------------- MODULE SingleFlight ----------------------------
(***************************************************************************)
(* Sharing of work between the checks of a run: Memoize and Memo.fill      *)
(* (internal/core/memo.go) and, with the same protocol, lookup and fill of *)
(* the DNS cache (internal/dnsx/cache.go).  The module is about one key.   *)
(*                                                                         *)
(* A caller that finds no entry makes one and computes ("leads"); the      *)
(* others wait for the entry to be done or for their own context to end.   *)
(* An entry is named by the caller that made it, as a caller leads at most *)
(* once.                                                                   *)
(***************************************************************************)
EXTENDS Naturals, FiniteSets

CONSTANTS
    Callers,    \* calls of Memoize, or lookup, with the key
    Nobody      \* not a caller

ASSUME CallerAssumption == Nobody \notin Callers

VARIABLES
    slot,      \* entries[key]: whose entry is in the map, or Nobody
    ended,     \* the callers whose context has ended
    pc,        \* where each caller is
    waitsFor,  \* the entry a caller waits on
    entry      \* entry[c]: what fn gave c (val and err), retry, and whether done is closed

vars == <<slot, ended, pc, waitsFor, entry>>

(***************************************************************************)
(* What fn returns.  "value" is an answer and "failure" an error about the *)
(* question (a name that times out at the server).  Once its context has   *)
(* ended fn may also return that as its error ("ended"), or an answer that *)
(* was cut short and no error ("partial": probeSMTP takes a STARTTLS       *)
(* command that failed for the server's verdict, web.get ignores the error *)
(* of reading a body).                                                     *)
(***************************************************************************)
Outcomes == {"value", "failure", "ended", "partial", "panic"}
IsError(o) == o \in {"failure", "ended"}

States == {"start", "running", "judging", "cleaning", "closing", "waiting",
           "answered", "gaveUp"}

Entry == [out : Outcomes \cup {"none"}, retry : BOOLEAN, done : BOOLEAN]
NoEntry == [out |-> "none", retry |-> FALSE, done |-> FALSE]

TypeOK ==
    /\ slot \in Callers \cup {Nobody}
    /\ ended \subseteq Callers
    /\ pc \in [Callers -> States]
    /\ waitsFor \in [Callers -> Callers \cup {Nobody}]
    /\ entry \in [Callers -> Entry]

Init ==
    /\ slot = Nobody
    /\ ended = {}
    /\ pc = [c \in Callers |-> "start"]
    /\ waitsFor = [c \in Callers |-> Nobody]
    /\ entry = [c \in Callers |-> NoEntry]

Goto(c, state) == pc' = [pc EXCEPT ![c] = state]

\* Under the lock: no entry, so make one.  fill sets retry before it calls fn.
Lead(c) ==
    /\ pc[c] = "start"
    /\ slot = Nobody
    /\ slot' = c
    /\ entry' = [entry EXCEPT ![c].retry = TRUE]
    /\ Goto(c, "running")
    /\ UNCHANGED <<ended, waitsFor>>

\* Under the lock: somebody's entry is there.
Join(c) ==
    /\ pc[c] = "start"
    /\ slot # Nobody
    /\ waitsFor' = [waitsFor EXCEPT ![c] = slot]
    /\ Goto(c, "waiting")
    /\ UNCHANGED <<slot, ended, entry>>

FnReturns(c) ==
    /\ pc[c] = "running"
    /\ \E o \in {"value", "failure"} \cup (IF c \in ended THEN {"ended", "partial"} ELSE {}) :
           entry' = [entry EXCEPT ![c].out = o]
    /\ Goto(c, "judging")
    /\ UNCHANGED <<slot, ended, waitsFor>>

\* retry stays set if fn panics.
FnPanics(c) ==
    /\ pc[c] = "running"
    /\ entry' = [entry EXCEPT ![c].out = "panic"]
    /\ Goto(c, "cleaning")
    /\ UNCHANGED <<slot, ended, waitsFor>>

\* Wrong: every error is kept.
JudgeKeeping(c) ==
    /\ pc[c] = "judging"
    /\ entry' = [entry EXCEPT ![c].retry = FALSE]
    /\ Goto(c, "cleaning")
    /\ UNCHANGED <<slot, ended, waitsFor>>

\* e.retry = e.err != nil && ctx.Err() != nil
Judge(c) ==
    /\ pc[c] = "judging"
    /\ entry' = [entry EXCEPT ![c].retry = IsError(entry[c].out) /\ c \in ended]
    /\ Goto(c, "cleaning")
    /\ UNCHANGED <<slot, ended, waitsFor>>

\* The deferred function that deletes an entry to be retried.
Clean(c) ==
    /\ pc[c] = "cleaning"
    /\ slot' = IF entry[c].retry THEN Nobody ELSE slot
    /\ Goto(c, "closing")
    /\ UNCHANGED <<ended, waitsFor, entry>>

\* Wrong: done is only closed for an entry that is kept.
CloseKept(c) ==
    /\ pc[c] = "closing"
    /\ entry' = [entry EXCEPT ![c].done = ~entry[c].retry]
    /\ Goto(c, IF entry[c].retry THEN "gaveUp" ELSE "answered")
    /\ UNCHANGED <<slot, ended, waitsFor>>

\* close(e.done); the leader returns what fn gave it, or goes on panicking.
Close(c) ==
    /\ pc[c] = "closing"
    /\ entry' = [entry EXCEPT ![c].done = TRUE]
    /\ Goto(c, IF entry[c].retry THEN "gaveUp" ELSE "answered")
    /\ UNCHANGED <<slot, ended, waitsFor>>

\* Wrong: an entry that is done is taken without a look at retry.
ReceiveAlways(c) ==
    /\ pc[c] = "waiting"
    /\ entry[waitsFor[c]].done
    /\ Goto(c, "answered")
    /\ UNCHANGED <<slot, ended, waitsFor, entry>>

\* case <-e.done: take the answer, or go round the loop.
Receive(c) ==
    /\ pc[c] = "waiting"
    /\ entry[waitsFor[c]].done
    /\ Goto(c, IF entry[waitsFor[c]].retry THEN "start" ELSE "answered")
    /\ UNCHANGED <<slot, ended, waitsFor, entry>>

\* case <-ctx.Done(): the select is free to prefer it to a closed done.
GiveUp(c) ==
    /\ pc[c] = "waiting"
    /\ c \in ended
    /\ Goto(c, "gaveUp")
    /\ UNCHANGED <<slot, ended, waitsFor, entry>>

\* The timeout of the caller's check, or the end of the run.
EndContext(c) ==
    /\ c \notin ended
    /\ ended' = ended \cup {c}
    /\ UNCHANGED <<slot, pc, waitsFor, entry>>

\* What a caller does by itself, fn apart.
Step(c) ==
    Lead(c) \/ Join(c) \/ Judge(c) \/ Clean(c) \/ Close(c) \/ Receive(c) \/ GiveUp(c)

Returned(c) == pc[c] \in {"answered", "gaveUp"}

Done == (\A c \in Callers : Returned(c)) /\ UNCHANGED vars

Next ==
    \/ \E c \in Callers : Step(c) \/ FnReturns(c) \/ FnPanics(c) \/ EndContext(c)
    \/ Done

Spec == Init /\ [][Next]_vars

\* Goroutines run.  Nothing makes fn return or a context end.
Fairness == \A c \in Callers : WF_vars(Step(c))

FairSpec == Spec /\ Fairness

-----------------------------------------------------------------------------
\* The entry that will answer everybody, once fill has judged it.
Kept(c) == slot = c /\ ~entry[c].retry
Answer == IF \E c \in Callers : Kept(c) THEN slot ELSE Nobody

(***************************************************************************)
(* fn runs for one caller at a time, and for none once there is an answer  *)
(* ("running fn at most once per run", Memoize): also while entries are    *)
(* deleted and waiters come back to lead.                                  *)
(***************************************************************************)
OneAtATime ==
    \A c, d \in Callers :
        pc[c] = "running" /\ (pc[d] \in {"running", "judging"} \/ Kept(d)) => c = d

(***************************************************************************)
(* A caller joins work that is still going on or has an answer, never an   *)
(* entry that is known to be given up: the entry leaves the map before its *)
(* waiters wake (the order of fill's two deferred calls).                  *)
(***************************************************************************)
JoinsLiveWork ==
    [][\A c \in Callers : pc[c] = "start" /\ pc'[c] = "waiting" =>
          ~(entry[slot].done /\ entry[slot].retry)]_vars

(***************************************************************************)
(* The entry a caller is answered from is the one that stays in the map,   *)
(* and holds something fn returned to a leader: no caller ever gets the    *)
(* empty result of a computation that panicked, nor the error of a context *)
(* that is not its own ("that says nothing about the query, so the next    *)
(* caller retries it", Cache).                                             *)
(***************************************************************************)
AnswersAreAnswers ==
    \A c \in Callers : pc[c] = "answered" =>
        /\ Answer # Nobody
        /\ entry[Answer].done
        /\ entry[Answer].out \in {"value", "failure", "partial"}
        /\ waitsFor[c] = Answer \/ Answer = c

(***************************************************************************)
(* Every call returns.  One that does not is stuck in its own fn, or an fn *)
(* hangs for ever and the context of the call never ends: leaders that     *)
(* fail, panic or hang hold up nobody whose context can end, and if fn     *)
(* returns nobody needs a context that ends (Memoize's select).            *)
(***************************************************************************)
Hangs(c) == <>[](pc[c] = "running")

EveryCallReturns ==
    \A c \in Callers :
        \/ <>Returned(c)
        \/ Hangs(c)
        \/ [](c \notin ended) /\ \E d \in Callers : Hangs(d)

(***************************************************************************)
(* Why it works, as an inductive invariant: the entry in the map belongs   *)
(* to the caller at work or is one to keep, an entry is done only when its *)
(* place in the map is decided, and only a caller with an entry of its own *)
(* or somebody's to wait on has left the start.                            *)
(***************************************************************************)
Working(c) == pc[c] \in {"running", "judging", "cleaning"}

SlotInv ==
    \A c \in Callers :
        /\ Working(c) => slot = c
        /\ slot = c /\ ~Working(c) => pc[c] \in {"closing", "answered"} /\ ~entry[c].retry
        /\ pc[c] = "closing" /\ ~entry[c].retry => slot = c

EntryOK(c) ==
    /\ pc[c] \in {"running", "judging"} => entry[c].retry
    /\ pc[c] = "running" => entry[c].out = "none"
    /\ pc[c] \in {"start", "waiting"} => entry[c] = NoEntry
    /\ pc[c] = "judging" => entry[c].out \in {"value", "failure", "ended", "partial"}
    /\ slot = c /\ ~entry[c].retry => entry[c].out \in {"value", "failure", "partial"}
    /\ pc[c] = "judging" /\ entry[c].out = "ended" => c \in ended
    /\ pc[c] \in {"cleaning", "closing"} /\ entry[c].retry =>
           c \in ended \/ entry[c].out = "panic"
    /\ entry[c].done => pc[c] \in {"answered", "gaveUp"} /\ (~entry[c].retry => slot = c)

EntryInv == \A c \in Callers : EntryOK(c)

WaitInv ==
    \A c \in Callers : pc[c] = "waiting" => waitsFor[c] \in Callers

FlightInv == TypeOK /\ SlotInv /\ EntryInv /\ WaitInv /\ AnswersAreAnswers

\* The callers that may fail: their context has ended, or their fn panicked.
Excused == ended \cup {c \in Callers : entry[c].out = "panic"}

OutcomeAt(state) ==
    CASE state = "answered" -> "answered"
      [] state = "gaveUp" -> "failed"
      [] OTHER -> "asking"

Outcome == [c \in Callers |-> OutcomeAt(pc[c])]

Shared == INSTANCE SharedAnswer WITH
    Answers <- Callers,
    Unset <- Nobody,
    answer <- Answer,
    outcome <- Outcome,
    excused <- Excused

\* Sharing work is not observable: there is one answer, and a caller without
\* it has only itself to blame.
ImplementsSharedAnswer == Shared!Spec
=============================================================================
