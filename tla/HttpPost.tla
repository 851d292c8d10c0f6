------------------------------ MODULE HttpPost ------------------------------
(***************************************************************************)
(* Sending one digest over HTTP: Post, once, retryAfter, backoff and sleep *)
(* of internal/notify/http.go, and the loop over the rendered messages     *)
(* that the notifiers' Send have in common (internal/notify/telegram.go,   *)
(* discord.go, slack.go; webhook.go sends one message).                    *)
(*                                                                         *)
(* A request that the server never answered, or answered with a 5xx, may   *)
(* still have had its effect.                                              *)
(***************************************************************************)
EXTENDS Naturals

CONSTANTS
    Messages,       \* the number of messages the digest is rendered to
    MaxAttempts,    \* HTTP.MaxAttempts: requests for one message
    Timeout,        \* Dispatcher.Timeout: time for the whole delivery
    BackoffBase,    \* backoffBase
    BackoffCap,     \* backoffCap
    MaxRetryAfter,  \* maxRetryAfter
    Asks            \* the times servers ask for; 0 when they name none

ASSUME PostAssumption ==
    /\ Messages \in Nat \ {0} /\ MaxAttempts \in Nat \ {0}
    /\ Timeout \in Nat /\ MaxRetryAfter \in Nat
    /\ BackoffBase \in Nat \ {0} /\ BackoffCap \in Nat \ {0}
    /\ Asks \subseteq Nat

VARIABLES
    pc,       \* where Send is
    part,     \* the message Send is at
    attempt,  \* the request Post is at, from 1
    lastErr,  \* what the last request for the message failed with
    asked,    \* the time the last 429 asked for
    timer,    \* time the sleep has left
    left,     \* time the delivery's context has left; it is done at 0
    taken,    \* history: how often each message had its effect
    doubt,    \* history: the messages that had an answer that left this open
    quiet     \* history: time the server still asked to be left alone for

vars == <<pc, part, attempt, lastErr, asked, timer, left, taken, doubt, quiet>>

Failures == {"network", "server", "limited", "rejected"}

AnyAsk == Asks \cup {0}

TypeOK ==
    /\ pc \in {"calling", "inFlight", "accepted", "judging", "sleeping", "nil", "error"}
    /\ part \in 1..Messages
    /\ attempt \in 1..MaxAttempts
    /\ lastErr \in Failures \cup {"none"}
    /\ asked \in AnyAsk /\ quiet \in Nat
    /\ timer \in Nat
    /\ left \in 0..Timeout
    /\ taken \in [1..Messages -> 0..MaxAttempts]
    /\ doubt \subseteq 1..Messages

Init ==
    /\ pc = "calling"
    /\ part = 1
    /\ attempt = 1
    /\ lastErr = "none"
    /\ asked = 0
    /\ timer = 0
    /\ left = Timeout
    /\ taken = [m \in 1..Messages |-> 0]
    /\ doubt = {}
    /\ quiet = 0

Done == left = 0   \* ctx.Err() != nil

\* http.Client.Do: the request goes out, unless its context is done already.
Call ==
    /\ pc = "calling"
    /\ IF Done
       THEN pc' = "judging" /\ lastErr' = "network"
       ELSE pc' = "inFlight" /\ UNCHANGED lastErr
    /\ UNCHANGED <<part, attempt, asked, timer, left, taken, doubt, quiet>>

Take == taken' = [taken EXCEPT ![part] = @ + 1]

\* Wrong: a 2xx whose body cannot be read counts as a network error.
AcceptedIfRead ==
    /\ pc = "inFlight"
    /\ Take
    /\ \/ pc' = "accepted" /\ lastErr' = "none"
       \/ pc' = "judging" /\ lastErr' = "network"
    /\ UNCHANGED <<part, attempt, asked, timer, left, doubt, quiet>>

\* A 2xx, whatever becomes of reading its body: Post returns no error.
Accepted ==
    /\ pc = "inFlight"
    /\ Take
    /\ pc' = "accepted"
    /\ lastErr' = "none"
    /\ UNCHANGED <<part, attempt, asked, timer, left, doubt, quiet>>

\* No answer, or a 5xx: the request may have had its effect.
Unclear ==
    /\ pc = "inFlight"
    /\ lastErr' \in {"network", "server"}
    /\ Take \/ UNCHANGED taken
    /\ doubt' = doubt \cup {part}
    /\ pc' = "judging"
    /\ UNCHANGED <<part, attempt, asked, timer, left, quiet>>

\* 429, with or without a time to wait for.
Limited(ask) ==
    /\ pc = "inFlight"
    /\ lastErr' = "limited"
    /\ asked' = ask
    /\ quiet' = ask
    /\ pc' = "judging"
    /\ UNCHANGED <<part, attempt, timer, left, taken, doubt>>

\* Any other status below 500, redirects included.
Rejected ==
    /\ pc = "inFlight"
    /\ lastErr' = "rejected"
    /\ pc' = "judging"
    /\ UNCHANGED <<part, attempt, asked, timer, left, taken, doubt, quiet>>

Return(result) ==
    /\ pc' = result
    /\ UNCHANGED <<part, attempt, lastErr, asked, timer, left, taken, doubt, quiet>>

\* Send goes on to the next message, or returns nil.
NextMessage ==
    /\ pc = "accepted"
    /\ part < Messages
    /\ pc' = "calling"
    /\ part' = part + 1
    /\ attempt' = 1
    /\ UNCHANGED <<lastErr, asked, timer, left, taken, doubt, quiet>>

ReturnNil == pc = "accepted" /\ part = Messages /\ Return("nil")

\* retryAfter: the time asked for, or backoffCap.
RetryAfter == IF asked > 0 THEN asked ELSE BackoffCap

\* The conditions Post returns the error on: a request that is wrong itself,
\* a context that is done, no attempt left, or too long a rate limit.
Final ==
    \/ lastErr = "rejected"
    \/ Done
    \/ attempt = MaxAttempts
    \/ lastErr = "limited" /\ RetryAfter > MaxRetryAfter

\* Wrong: a message that cannot be sent is skipped.
GiveUpMessage ==
    /\ pc = "judging"
    /\ Final
    /\ pc' = "accepted"
    /\ UNCHANGED <<part, attempt, lastErr, asked, timer, left, taken, doubt, quiet>>

GiveUp == pc = "judging" /\ Final /\ Return("error")

Min2(a, b) == IF a <= b THEN a ELSE b

\* Wrong: rate limits are backed off from like any other failure.
WaitsBackoff == 1..Min2(BackoffCap, BackoffBase * 2^(attempt - 1))

\* The wait before the next attempt: as asked, or exponential with jitter.
Waits ==
    IF lastErr = "limited" THEN {RetryAfter}
    ELSE 1..Min2(BackoffCap, BackoffBase * 2^(attempt - 1))

Sleep ==
    /\ pc = "judging"
    /\ ~Final
    /\ timer' \in Waits
    /\ attempt' = attempt + 1
    /\ pc' = "sleeping"
    /\ UNCHANGED <<part, lastErr, asked, left, taken, doubt, quiet>>

\* <-t.C
Wake ==
    /\ pc = "sleeping"
    /\ timer = 0
    /\ pc' = "calling"
    /\ UNCHANGED <<part, attempt, lastErr, asked, timer, left, taken, doubt, quiet>>

\* <-ctx.Done()
WakeToReturn ==
    /\ pc = "sleeping"
    /\ Done
    /\ Return("error")

Returned == pc \in {"nil", "error"}

Less(t) == IF t = 0 THEN 0 ELSE t - 1

Tick ==
    /\ ~Returned
    /\ left' = Less(left)
    /\ timer' = Less(timer)
    /\ quiet' = Less(quiet)
    /\ UNCHANGED <<pc, part, attempt, lastErr, asked, taken, doubt>>

Finished == Returned /\ UNCHANGED vars

Answer == Accepted \/ Unclear \/ (\E ask \in AnyAsk : Limited(ask)) \/ Rejected

Next ==
    \/ Call \/ Answer \/ NextMessage \/ ReturnNil
    \/ GiveUp \/ Sleep \/ Wake \/ WakeToReturn
    \/ Tick \/ Finished

Spec == Init /\ [][Next]_vars

-----------------------------------------------------------------------------
(***************************************************************************)
(* A server that asked to be left alone for a time it may ask for gets no  *)
(* request before that time is over ("honoring the server's retry-after",  *)
(* HTTP), neither for this message nor for a later one of the digest.      *)
(***************************************************************************)
RetryAfterHonored == pc = "inFlight" => quiet = 0

(***************************************************************************)
(* A message has its effect a second time only if an answer was lost or a  *)
(* 5xx, which no sender can tell from a failure: whatever goes wrong later *)
(* in the digest, what was acknowledged is not sent again (Send, Post).    *)
(***************************************************************************)
RepeatsOnlyInDoubt == \A m \in 1..Messages : taken[m] > 1 => m \in doubt

(***************************************************************************)
(* Once the delivery's time is over no request goes out and no sleep       *)
(* begins, wherever Send is (Dispatcher.Timeout "bounds one channel's      *)
(* delivery, retries included").                                           *)
(***************************************************************************)
NothingAfterTheTimeout ==
    [][Done /\ pc' # pc => pc' \notin {"inFlight", "sleeping"}]_vars

(***************************************************************************)
(* Why these hold, as an inductive invariant: the messages before part had *)
(* their effect and those after it did not, the one at hand not more often *)
(* than it was tried; and whoever sleeps does so for what was asked.       *)
(***************************************************************************)
TakenInv ==
    /\ \A m \in 1..Messages :
          /\ m < part => taken[m] > 0
          /\ m > part => taken[m] = 0
          /\ taken[m] > 1 => m \in doubt
    /\ pc \in {"calling", "inFlight", "sleeping"} => taken[part] < attempt
    /\ pc \in {"judging", "accepted"} => taken[part] <= attempt
    /\ pc \in {"calling", "inFlight", "judging", "sleeping"} /\ taken[part] > 0 => part \in doubt
    /\ pc \in {"accepted", "nil"} => taken[part] > 0
    /\ pc = "nil" => part = Messages

QuietInv ==
    /\ pc \in {"calling", "inFlight", "accepted", "nil"} => quiet = 0
    /\ pc = "judging" /\ quiet > 0 => lastErr = "limited" /\ asked >= quiet
    /\ pc = "sleeping" => timer >= quiet

PostInv ==
    /\ TypeOK
    /\ TakenInv
    /\ QuietInv

(***************************************************************************)
(* Send is what deliver takes it for: messages arrive in order, nil means  *)
(* all of them, and an error may come after any of them.                   *)
(***************************************************************************)
Outcome == IF Returned THEN pc ELSE "sending"

Partwise == INSTANCE PartwiseSend WITH
    reached <- {m \in 1..Messages : taken[m] > 0},
    outcome <- Outcome

ImplementsPartwiseSend == Partwise!Spec
=============================================================================
