-------------------------- MODULE Transport_proofs --------------------------
(***************************************************************************)
(* Proofs about Transport: its posts, for any numbers of messages and      *)
(* attempts, any times and whatever the servers ask for, its mails, for    *)
(* any numbers of recipients and attempts, and its digests, for any        *)
(* changes and limits.                                                     *)
(***************************************************************************)
EXTENDS Transport, FiniteSetTheorems, SequenceTheorems, WellFoundedInduction, TLAPS

\* Nothing was sent and nobody asked for anything.
LEMMA InitHolds == Init => PostInv
  BY PostAssumption DEF Init, PostInv, TypeOK, TakenInv, QuietInv, AnyAsk

\* A sleep is longer than nothing, and as long as was asked for.
LEMMA WaitsAreLongEnough ==
    ASSUME TypeOK, NEW t \in Waits
    PROVE  t \in Nat /\ (lastErr = "limited" /\ asked > 0 => t = asked)
<1>1. RetryAfter \in Nat
  BY PostAssumption DEF TypeOK, AnyAsk, RetryAfter
<1>2. QED
  BY <1>1 DEF Waits, RetryAfter

\* What a request the server took changes, and what one it did not.
LEMMA TakeCounts ==
    ASSUME PostInv, pc = "inFlight", Take
    PROVE  /\ taken' \in [1..Messages -> 0..MaxAttempts]
           /\ taken'[part] = taken[part] + 1 /\ taken'[part] <= attempt
           /\ \A m \in 1..Messages : m # part => taken'[m] = taken[m]
<1>1. taken[part] \in Nat /\ taken[part] < attempt /\ attempt \in Nat /\ attempt <= MaxAttempts
  BY PostAssumption DEF PostInv, TypeOK, TakenInv
<1>2. QED
  BY <1>1, PostAssumption DEF PostInv, TypeOK, Take

\* The invariant is inductive: one case per action.
LEMMA StepHolds == PostInv /\ [Next]_vars => PostInv'
<1> SUFFICES ASSUME PostInv, [Next]_vars PROVE PostInv'
  OBVIOUS
<1> USE PostAssumption DEF PostInv, TypeOK, TakenInv, QuietInv, Failures, AnyAsk
<1>1. CASE Call
  BY <1>1 DEF Call
<1>2. CASE Accepted
  <2>1. /\ taken' \in [1..Messages -> 0..MaxAttempts]
        /\ taken'[part] = taken[part] + 1 /\ taken'[part] <= attempt
        /\ \A m \in 1..Messages : m # part => taken'[m] = taken[m]
    BY <1>2, TakeCounts DEF Accepted
  <2>2. TypeOK' /\ QuietInv' /\ (lastErr' = "rejected" => pc' \in {"judging", "error"})
    BY <1>2, <2>1 DEF Accepted
  <2>3. TakenInv'
    BY <1>2, <2>1 DEF Accepted
  <2>4. QED
    BY <2>2, <2>3
<1>3. CASE Unclear
  <2>1. CASE Take
    <3>1. /\ taken' \in [1..Messages -> 0..MaxAttempts]
          /\ taken'[part] = taken[part] + 1 /\ taken'[part] <= attempt
          /\ \A m \in 1..Messages : m # part => taken'[m] = taken[m]
      BY <1>3, <2>1, TakeCounts DEF Unclear
    <3>2. TypeOK' /\ QuietInv' /\ (lastErr' = "rejected" => pc' \in {"judging", "error"})
      BY <1>3, <3>1 DEF Unclear
    <3>3. TakenInv'
      BY <1>3, <3>1 DEF Unclear
    <3>4. QED
      BY <3>2, <3>3
  <2>2. CASE UNCHANGED taken
    BY <1>3, <2>2 DEF Unclear
  <2>3. QED
    BY <1>3, <2>1, <2>2 DEF Unclear
<1>4. ASSUME NEW ask \in AnyAsk, Limited(ask) PROVE PostInv'
  BY <1>4 DEF Limited
<1>5. CASE Rejected
  BY <1>5 DEF Rejected
<1>6. CASE NextMessage
  BY <1>6 DEF NextMessage
<1>7. CASE ReturnNil
  BY <1>7 DEF ReturnNil, Return
<1>8. CASE GiveUp
  BY <1>8 DEF GiveUp, Return
<1>9. CASE Sleep
  BY <1>9, WaitsAreLongEnough DEF Sleep, Final
<1>10. CASE Wake
  BY <1>10 DEF Wake
<1>11. CASE WakeToReturn
  BY <1>11 DEF WakeToReturn, Return
<1>12. CASE Tick
  BY <1>12 DEF Tick, Returned, Less
<1>13. CASE UNCHANGED vars
  BY <1>13 DEF vars
<1>14. QED
  BY <1>1, <1>2, <1>3, <1>4, <1>5, <1>6, <1>7, <1>8, <1>9, <1>10, <1>11, <1>12, <1>13
     DEF Next, Answer, Finished

\* What Send knows of each message and each wait holds always.
THEOREM PostInvariant == Spec => []PostInv
  BY InitHolds, StepHolds, PTL DEF Spec

(***************************************************************************)
(* No request reaches a server within the time it asked to be left alone   *)
(* for (Post, retryAfter).                                                 *)
(***************************************************************************)
THEOREM ServersAreLeftAlone == Spec => []RetryAfterHonored
<1>1. PostInv => RetryAfterHonored
  BY DEF PostInv, QuietInv, RetryAfterHonored
<1>2. QED
  BY <1>1, PostInvariant, PTL

(***************************************************************************)
(* A message is repeated only after an answer that left its fate open.     *)
(***************************************************************************)
THEOREM OnlyDoubtRepeats == Spec => []RepeatsOnlyInDoubt
<1>1. PostInv => RepeatsOnlyInDoubt
  BY DEF PostInv, TakenInv, RepeatsOnlyInDoubt
<1>2. QED
  BY <1>1, PostInvariant, PTL

(***************************************************************************)
(* After the delivery's timeout Send neither asks nor sleeps again.        *)
(***************************************************************************)
THEOREM TimeoutEndsIt == Spec => NothingAfterTheTimeout
<1> DEFINE Quits == Done /\ pc' # pc => pc' \notin {"inFlight", "sleeping"}
<1>1. [Next]_vars => [Quits]_vars
  BY DEF Next, vars, Call, Answer, Accepted, Unclear, Limited, Rejected, NextMessage,
         ReturnNil, GiveUp, Return, Sleep, Final, Wake, WakeToReturn, Tick, Finished
<1>2. QED
  BY <1>1, PTL DEF Spec, NothingAfterTheTimeout

-----------------------------------------------------------------------------
Reached == {m \in 1..Messages : taken[m] > 0}

\* The messages that reached the reader are the first ones.
LEMMA ReachedIsPrefix ==
    ASSUME PostInv
    PROVE  Reached = IF taken[part] > 0 THEN 1..part ELSE 1..(part - 1)
<1>1. part \in Nat /\ part >= 1 /\ part <= Messages
  BY PostAssumption DEF PostInv, TypeOK
<1>2. QED
  BY <1>1, PostAssumption DEF PostInv, TypeOK, TakenInv, Reached

\* A request that took effect reaches the next message, or one that was
\* reached before.
LEMMA TakingReaches ==
    ASSUME PostInv, pc = "inFlight", Take
    PROVE  \/ Reached' = Reached
           \/ \E m \in 1..Messages : Reached = 1..(m - 1) /\ Reached' = 1..m
<1>1. part \in 1..Messages /\ taken[part] \in Nat
  BY PostAssumption DEF PostInv, TypeOK
<1>2. Reached' = Reached \cup {part}
  BY <1>1, TakeCounts DEF PostInv, TypeOK, Reached
<1>3. CASE taken[part] > 0
  BY <1>1, <1>2, <1>3 DEF Reached
<1>4. CASE taken[part] = 0
  <2>1. Reached = 1..(part - 1)
    BY <1>4, ReachedIsPrefix
  <2>2. Reached' = 1..part
    BY <1>1, <1>2, <2>1, PostAssumption
  <2>3. QED
    BY <1>1, <2>1, <2>2
<1>5. QED
  BY <1>1, <1>3, <1>4

(***************************************************************************)
(* Post and the loop of Send implement PartwiseSend, what deliver relies   *)
(* on: messages arrive in order, and nil means all of them.                *)
(***************************************************************************)
THEOREM SendIsPartwise == Spec => ImplementsPartwiseSend
<1>1. Init => Partwise!Init
  BY PostAssumption DEF Init, Partwise!Init, Outcome, Returned
<1>2. PostInv /\ [Next]_vars => [Partwise!Next]_(Partwise!vars)
  <2> SUFFICES ASSUME PostInv, [Next]_vars PROVE Partwise!Next \/ UNCHANGED Partwise!vars
    OBVIOUS
  <2>1. CASE Accepted \/ Unclear
    <3>1. Outcome = "sending" /\ Outcome' = "sending" /\ pc = "inFlight"
      BY <2>1 DEF Accepted, Unclear, Outcome, Returned
    <3>2. CASE Take
      BY <3>1, <3>2, TakingReaches DEF Reached, Partwise!Next, Partwise!Reach, Partwise!vars
    <3>3. CASE UNCHANGED taken
      BY <3>1, <3>3 DEF Partwise!vars
    <3>4. QED
      BY <2>1, <3>2, <3>3 DEF Accepted, Unclear
  <2>2. CASE ReturnNil
    <3>1. Reached = 1..Messages
      BY <2>2, ReachedIsPrefix DEF PostInv, TakenInv, ReturnNil
    <3>2. Outcome = "sending" /\ Outcome' = "nil" /\ taken' = taken
      BY <2>2 DEF ReturnNil, Return, Outcome, Returned
    <3>3. QED
      BY <3>1, <3>2 DEF Reached, Partwise!Next, Partwise!Succeed
  <2>3. CASE GiveUp \/ WakeToReturn
    <3>1. Outcome = "sending" /\ Outcome' = "error" /\ taken' = taken
      BY <2>3 DEF GiveUp, WakeToReturn, Return, Outcome, Returned
    <3>2. QED
      BY <3>1 DEF Partwise!Next, Partwise!Fail
  <2>4. ASSUME Outcome' = Outcome, taken' = taken PROVE UNCHANGED Partwise!vars
    BY <2>4 DEF Partwise!vars
  <2>5. CASE Call \/ (\E ask \in AnyAsk : Limited(ask)) \/ Rejected
    BY <2>4, <2>5 DEF Call, Limited, Rejected, Outcome, Returned
  <2>6. CASE NextMessage \/ Sleep \/ Wake
    BY <2>4, <2>6 DEF NextMessage, Sleep, Wake, Outcome, Returned
  <2>7. CASE Tick \/ UNCHANGED vars
    BY <2>4, <2>7 DEF Tick, vars, Outcome, Returned
  <2>8. QED
    BY <2>1, <2>2, <2>3, <2>5, <2>6, <2>7 DEF Next, Answer, Finished
<1>3. QED
  BY <1>1, <1>2, PostInvariant, PTL DEF Spec, ImplementsPartwiseSend, Partwise!Spec

-----------------------------------------------------------------------------
\* Nothing was sent.
LEMMA MailInitHolds == MailInit => MailInv
<1> SUFFICES ASSUME MailInit PROVE MailInv
  OBVIOUS
<1> USE MailAssumption DEF MailInit
<1>1. \A r \in 1..Recipients : copies[r] = 0
  OBVIOUS
<1>2. 1 \in 1..EmailAttempts /\ 1 \in 1..Recipients
  OBVIOUS
<1>3. copies \in [1..Recipients -> 0..EmailAttempts]
  OBVIOUS
<1>4. MailTypeOK
  BY <1>2, <1>3 DEF MailTypeOK
<1>5. QED
  BY <1>1, <1>4 DEF MailInv

\* The end of the mail makes one copy more for everybody.
LEMMA DeliverCounts ==
    ASSUME MailInv, dialog = "awaiting", Deliver
    PROVE  /\ copies' \in [1..Recipients -> 0..EmailAttempts]
           /\ \A r \in 1..Recipients : copies'[r] = copies[r] + 1 /\ copies'[r] <= try
<1>1. admitted = 1..Recipients /\ try \in Nat /\ try <= EmailAttempts
  BY MailAssumption DEF MailInv, MailTypeOK
<1>2. \A r \in 1..Recipients : copies[r] \in Nat /\ copies[r] < try
  BY MailAssumption DEF MailInv, MailTypeOK
<1>3. copies' = [r \in 1..Recipients |-> copies[r] + 1]
  BY <1>1 DEF Deliver
<1>4. \A r \in 1..Recipients : copies'[r] = copies[r] + 1
  BY <1>3
<1>5. \A r \in 1..Recipients : copies[r] + 1 \in 0..EmailAttempts /\ copies[r] + 1 <= try
  BY <1>1, <1>2, MailAssumption
<1>6. copies' \in [1..Recipients -> 0..EmailAttempts]
  BY <1>3, <1>5
<1>7. QED
  BY <1>4, <1>5, <1>6

\* The invariant is inductive: one case per action.
LEMMA MailStepHolds == MailInv /\ [MailNext]_mailVars => MailInv'
<1> SUFFICES ASSUME MailInv, [MailNext]_mailVars PROVE MailInv'
  OBVIOUS
<1> USE MailAssumption DEF MailInv, MailTypeOK, Proceed
<1>1. CASE Dial
  BY <1>1 DEF Dial
<1>2. CASE Greet
  BY <1>2 DEF Greet
<1>3. CASE Sender
  BY <1>3 DEF Sender
<1>4. CASE Recipient
  BY <1>4 DEF Recipient
<1>5. CASE Write
  BY <1>5 DEF Write
<1>6. CASE Taken
  BY <1>6, DeliverCounts DEF Taken
<1>7. CASE Quit
  BY <1>7 DEF Quit
<1>8. CASE Refused
  BY <1>8 DEF Refused
<1>9. CASE Lost
  <2>1. CASE UNCHANGED copies
    BY <1>9, <2>1 DEF Lost
  <2>2. CASE dialog = "awaiting" /\ Deliver
    BY <1>9, <2>2, DeliverCounts DEF Lost
  <2>3. QED
    BY <1>9, <2>1, <2>2 DEF Lost
<1>10. CASE ReturnMailError
  BY <1>10 DEF ReturnMailError
<1>11. CASE BackOff
  BY <1>11 DEF BackOff
<1>12. CASE Retry
  BY <1>12 DEF Retry
<1>13. CASE SleepInterrupted
  BY <1>13 DEF SleepInterrupted
<1>14. CASE DeliveryEnds
  BY <1>14 DEF DeliveryEnds
<1>15. CASE UNCHANGED mailVars
  BY <1>15 DEF mailVars
<1>16. QED
  BY <1>1, <1>2, <1>3, <1>4, <1>5, <1>6, <1>7, <1>8, <1>9, <1>10, <1>11, <1>12, <1>13,
     <1>14, <1>15 DEF MailNext, MailFinished

(***************************************************************************)
(* For any numbers of recipients and attempts: nil means that everybody    *)
(* has the mail, nobody has it more often than the others, and again only  *)
(* after a doubt (Email.Send, send).                                       *)
(***************************************************************************)
THEOREM MailIsForAll == MailSpec => []MailReachesAll
<1>1. MailInv => MailReachesAll
  BY DEF MailInv, MailReachesAll
<1>2. QED
  BY <1>1, MailInitHolds, MailStepHolds, PTL DEF MailSpec

(***************************************************************************)
(* What is proved of posts and of mails holds of every Send of a notifier. *)
(***************************************************************************)
THEOREM SendsPostOrMail == TransportSpec => Spec /\ MailSpec
<1>1. TransportInit => Init /\ MailInit
  BY DEF TransportInit
<1>2. [TransportNext]_transportVars => [Next]_vars /\ [MailNext]_mailVars
  BY DEF TransportNext, transportVars, Render, PostNext, SendMailNext, Elsewhere
<1>3. QED
  BY <1>1, <1>2, PTL DEF TransportSpec, Spec, MailSpec

-----------------------------------------------------------------------------
\* Every set of natural numbers that is not empty has a least element: the
\* proofs by induction below are about the least counterexample.
LEMMA Least ==
    ASSUME NEW S \in SUBSET Nat, S # {}
    PROVE \E x \in S : \A y \in S : x <= y
<1>1. IsWellFoundedOn(OpToRel(<, Nat), Nat)
  BY NatLessThanWellFounded
<1>2. PICK x \in S : \A y \in S : ~(<<y, x>> \in OpToRel(<, Nat))
  BY <1>1, WFMin
<1>3. OpToRel(<, Nat) = {ss \in Nat \X Nat : ss[1] < ss[2]}
  BY DEF OpToRel
<1>4. ASSUME NEW y \in S PROVE x <= y
  <2>1. <<y, x>> \in Nat \X Nat /\ ~(y < x)
    BY <1>2, <1>3
  <2> QED BY <2>1
<1> QED BY <1>4

\* What holds from lo on and goes from each number to the next, up to n.
Hereditary(S, lo, n) == lo \in S /\ \A i \in lo..n - 1 : i \in S => i + 1 \in S

\* Induction over the numbers from lo to n, for a set of them.
LEMMA Induction ==
    ASSUME NEW lo \in Nat, NEW n \in Nat, NEW S, Hereditary(S, lo, n)
    PROVE  \A i \in lo..n : i \in S
<1> USE DEF Hereditary
<1> SUFFICES ASSUME {i \in lo..n : i \notin S} # {} PROVE FALSE
  OBVIOUS
<1>1. {i \in lo..n : i \notin S} \in SUBSET Nat
  OBVIOUS
<1>2. PICK i \in {j \in lo..n : j \notin S} : \A j \in {j \in lo..n : j \notin S} : i <= j
  BY <1>1, Least
<1>3. i # lo /\ i - 1 \in lo..n - 1 /\ i = (i - 1) + 1
  BY <1>2
<1>4. i - 1 \in S
  BY <1>2, <1>3
<1> QED BY <1>2, <1>3, <1>4

\* A recursion that starts at lo and goes up to n, and what it defines.
Climbable(lo, n, V, first, next) == first \in V /\ next \in [lo + 1..n -> [V -> V]]

Climbs(f, lo, n, V, first, next) ==
    /\ f \in [lo..n -> V]
    /\ f[lo] = first
    /\ \A i \in lo + 1..n : f[i] = next[i][f[i - 1]]

\* Such a recursion defines a function.
LEMMA Recursion ==
    ASSUME NEW lo \in Nat, NEW n \in Nat, lo <= n, NEW V, NEW first, NEW next,
           Climbable(lo, n, V, first, next)
    PROVE  \E f : Climbs(f, lo, n, V, first, next)
<1> USE DEF Climbable, Climbs
<1> DEFINE S == {k \in lo..n : \E f : Climbs(f, lo, k, V, first, next)}
<1>1. lo \in S
  <2>1. Climbs([i \in lo..lo |-> first], lo, lo, V, first, next)
    OBVIOUS
  <2> HIDE DEF Climbs
  <2> QED BY <2>1
<1>2. ASSUME NEW k \in lo..n - 1, k \in S PROVE k + 1 \in S
  <2>1. PICK f : Climbs(f, lo, k, V, first, next)
    BY <1>2
  <2> DEFINE g == [i \in lo..k + 1 |-> IF i = k + 1 THEN next[k + 1][f[k]] ELSE f[i]]
  <2>2. k + 1 \in lo + 1..n /\ k \in lo..k /\ next[k + 1] \in [V -> V] /\ f[k] \in V
    BY <2>1
  <2>3. g \in [lo..k + 1 -> V]
    BY <2>1, <2>2
  <2>4. g[lo] = first
    BY <2>1
  <2>5. ASSUME NEW i \in lo + 1..k + 1 PROVE g[i] = next[i][g[i - 1]]
    <3>1. CASE i = k + 1
      BY <3>1, <2>2
    <3>2. CASE i # k + 1
      <4>1. i \in lo + 1..k /\ i \in lo..k /\ i - 1 \in lo..k
        BY <3>2
      <4>2. g[i] = f[i] /\ g[i - 1] = f[i - 1]
        BY <4>1
      <4> HIDE DEF g
      <4> QED BY <2>1, <4>1, <4>2
    <3> QED BY <3>1, <3>2
  <2> HIDE DEF g
  <2>6. Climbs(g, lo, k + 1, V, first, next)
    BY <2>3, <2>4, <2>5
  <2> QED BY <2>6
<1> HIDE DEF S
<1>3. Hereditary(S, lo, n)
  BY <1>1, <1>2 DEF Hereditary
<1>4. n \in S
  BY <1>3, Induction
<1> QED BY <1>4 DEF S

\* Two functions that start alike and go on alike are alike.
Alike(f, g, lo, n) ==
    f[lo] = g[lo] /\ \A i \in lo + 1..n : f[i - 1] = g[i - 1] => f[i] = g[i]

\* Which is what makes the function of a recursion the only one.
LEMMA Uniqueness ==
    ASSUME NEW lo \in Nat, NEW n \in Nat, NEW f, NEW g, Alike(f, g, lo, n)
    PROVE  \A i \in lo..n : f[i] = g[i]
<1> DEFINE S == {i \in lo..n : f[i] = g[i]}
<1> CASE lo <= n
  <2>1. Hereditary(S, lo, n)
    BY DEF Alike, Hereditary
  <2>2. \A i \in lo..n : i \in S
    <3> HIDE DEF S
    <3> QED BY <2>1, Induction
  <2> QED BY <2>2
<1> CASE ~(lo <= n)
  OBVIOUS
<1> QED OBVIOUS

\* f are the sums of the first sizes.
Sums(f, sizes) ==
    /\ f \in [0..Len(sizes) -> Nat]
    /\ f[0] = 0
    /\ \A i \in 1..Len(sizes) : f[i] = f[i - 1] + sizes[i]

\* The function in Total exists and satisfies its equations.
LEMMA TotalSums ==
    ASSUME NEW sizes \in Seq(Nat)
    PROVE  \E f : Sums(f, sizes) /\ Total(sizes) = f[Len(sizes)]
<1> DEFINE n == Len(sizes)
           next == [i \in 0 + 1..n |-> [v \in Nat |-> v + sizes[i]]]
           IsIt(g) == g = [i \in 0..n |-> IF i = 0 THEN 0 ELSE g[i - 1] + sizes[i]]
           h == CHOOSE g : IsIt(g)
<1>1. n \in Nat /\ \A i \in 1..n : sizes[i] \in Nat
  OBVIOUS
<1>2. PICK f : Climbs(f, 0, n, Nat, 0, next)
  <2>1. Climbable(0, n, Nat, 0, next)
    BY <1>1 DEF Climbable
  <2> HIDE DEF next, n
  <2> QED BY <2>1, <1>1, Recursion
<1>3. Sums(f, sizes)
  <2>1. ASSUME NEW i \in 1..n PROVE f[i] = f[i - 1] + sizes[i]
    <3>1. i \in 0 + 1..n /\ i - 1 \in 0..n
      BY <1>1
    <3>2. f[i] = next[i][f[i - 1]] /\ f[i - 1] \in Nat
      <4> HIDE DEF next, n
      <4> QED BY <3>1, <1>2 DEF Climbs
    <3> QED BY <3>1, <3>2
  <2> QED BY <1>2, <2>1 DEF Climbs, Sums
<1>4. IsIt(f)
  BY <1>1, <1>3 DEF Sums
<1>5. IsIt(h)
  <2> HIDE DEF IsIt
  <2> QED BY <1>4
<1>6. Total(sizes) = h[n]
  BY DEF Total
<1> HIDE DEF h
<1>7. Alike(h, f, 0, n)
  <2>1. h[0] = 0 /\ \A i \in 1..n : h[i] = h[i - 1] + sizes[i]
    BY <1>1, <1>5
  <2> QED BY <2>1, <1>3, <1>1 DEF Alike, Sums
<1>8. h[n] = f[n]
  BY <1>7, <1>1, Uniqueness
<1> QED BY <1>3, <1>6, <1>8

\* Nothing adds up to nothing.
LEMMA TotalEmpty == Total(<<>>) = 0
<1>1. <<>> \in Seq(Nat) /\ Len(<<>>) = 0
  OBVIOUS
<1>2. PICK f : Sums(f, <<>>) /\ Total(<<>>) = f[Len(<<>>)]
  BY <1>1, TotalSums
<1> QED BY <1>1, <1>2 DEF Sums

\* A total is a natural number.
LEMMA TotalTyped ==
    ASSUME NEW sizes \in Seq(Nat) PROVE Total(sizes) \in Nat
<1>1. PICK f : Sums(f, sizes) /\ Total(sizes) = f[Len(sizes)]
  BY TotalSums
<1> QED BY <1>1 DEF Sums

\* One more number adds itself to the total.
LEMMA TotalAppend ==
    ASSUME NEW sizes \in Seq(Nat), NEW x \in Nat
    PROVE  Total(Append(sizes, x)) = Total(sizes) + x
<1> DEFINE more == Append(sizes, x)
<1>1. /\ more \in Seq(Nat) /\ Len(more) = Len(sizes) + 1 /\ Len(sizes) \in Nat
      /\ \A i \in 1..Len(sizes) : more[i] = sizes[i]
      /\ more[Len(sizes) + 1] = x
  OBVIOUS
<1> HIDE DEF more
<1>2. PICK f : Sums(f, sizes) /\ Total(sizes) = f[Len(sizes)]
  BY TotalSums
<1>3. PICK g : Sums(g, more) /\ Total(more) = g[Len(more)]
  BY <1>1, TotalSums
<1>4. Alike(f, g, 0, Len(sizes))
  BY <1>1, <1>2, <1>3 DEF Sums, Alike
<1>5. f[Len(sizes)] = g[Len(sizes)]
  BY <1>1, <1>4, Uniqueness
<1>6. g[Len(more)] = g[Len(more) - 1] + more[Len(more)]
  <2>1. Len(more) \in 1..Len(more)
    BY <1>1
  <2> QED BY <2>1, <1>3 DEF Sums
<1> QED BY <1>1, <1>2, <1>3, <1>5, <1>6 DEF more

\* f are the first sequences of ss, flattened.
Flattens(f, V, ss) ==
    /\ f \in [1..Len(ss) -> Seq(V)]
    /\ f[1] = ss[1]
    /\ \A i \in 2..Len(ss) : f[i] = f[i - 1] \o ss[i]

\* The function in FlattenSeq exists and satisfies its equations.
LEMMA FlattenSeqFlattens ==
    ASSUME NEW V, NEW ss \in Seq(Seq(V)), ss # <<>>
    PROVE  \E f : Flattens(f, V, ss) /\ FlattenSeq(ss) = f[Len(ss)]
<1> DEFINE n == Len(ss)
           next == [i \in 1 + 1..n |-> [v \in Seq(V) |-> v \o ss[i]]]
           IsIt(g) == g = [i \in 1..n |-> IF i = 1 THEN ss[i] ELSE g[i - 1] \o ss[i]]
           h == CHOOSE g : IsIt(g)
<1>1. n \in Nat /\ 1 <= n /\ \A i \in 1..n : ss[i] \in Seq(V)
  OBVIOUS
<1>2. PICK f : Climbs(f, 1, n, Seq(V), ss[1], next)
  <2>1. ASSUME NEW i \in 1 + 1..n, NEW v \in Seq(V) PROVE v \o ss[i] \in Seq(V)
    BY <1>1
  <2>2. Climbable(1, n, Seq(V), ss[1], next)
    BY <1>1, <2>1 DEF Climbable
  <2> HIDE DEF next, n
  <2> QED BY <2>2, <1>1, Recursion
<1>3. Flattens(f, V, ss)
  <2>1. ASSUME NEW i \in 2..n PROVE f[i] = f[i - 1] \o ss[i]
    <3>1. i \in 1 + 1..n /\ i - 1 \in 1..n
      BY <1>1
    <3>2. f[i] = next[i][f[i - 1]] /\ f[i - 1] \in Seq(V)
      <4> HIDE DEF next, n
      <4> QED BY <3>1, <1>2 DEF Climbs
    <3> QED BY <3>1, <3>2
  <2> QED BY <1>2, <2>1 DEF Climbs, Flattens
<1>4. IsIt(f)
  <2>1. ASSUME NEW i \in 1..n PROVE f[i] = IF i = 1 THEN ss[i] ELSE f[i - 1] \o ss[i]
    <3>1. CASE i = 1
      BY <3>1, <1>3 DEF Flattens
    <3>2. CASE i # 1
      <4>1. i \in 2..Len(ss)
        BY <3>2, <1>1
      <4> QED BY <4>1, <3>2, <1>3 DEF Flattens
    <3> QED BY <3>1, <3>2
  <2> QED BY <1>3, <2>1 DEF Flattens
<1>5. IsIt(h)
  <2> HIDE DEF IsIt
  <2> QED BY <1>4
<1>6. FlattenSeq(ss) = h[n]
  BY <1>1 DEF FlattenSeq
<1> HIDE DEF h
<1>7. Alike(h, f, 1, n)
  <2>1. \A i \in 1..n : h[i] = IF i = 1 THEN ss[i] ELSE h[i - 1] \o ss[i]
    BY <1>5
  <2>2. \A i \in 1..n : f[i] = IF i = 1 THEN ss[i] ELSE f[i - 1] \o ss[i]
    BY <1>4
  <2>3. h[1] = ss[1] /\ f[1] = ss[1]
    BY <1>1, <2>1, <2>2
  <2>4. ASSUME NEW i \in 1 + 1..n
        PROVE  h[i] = h[i - 1] \o ss[i] /\ f[i] = f[i - 1] \o ss[i]
    <3>1. i \in 1..n /\ i # 1
      BY <1>1
    <3> QED BY <3>1, <2>1, <2>2
  <2> QED BY <2>3, <2>4 DEF Alike
<1>8. h[n] = f[n]
  BY <1>7, <1>1, Uniqueness
<1> QED BY <1>3, <1>6, <1>8

\* Nothing is flattened to nothing.
LEMMA FlattenNone == FlattenSeq(<<>>) = <<>>
  BY DEF FlattenSeq

\* A flattened sequence of sequences is a sequence.
LEMMA FlattenTyped ==
    ASSUME NEW V, NEW ss \in Seq(Seq(V)) PROVE FlattenSeq(ss) \in Seq(V)
<1>1. CASE ss = <<>>
  <2>1. FlattenSeq(ss) = <<>> /\ <<>> \in Seq(V)
    BY <1>1, FlattenNone
  <2> QED BY <2>1
<1>2. CASE ss # <<>>
  <2>1. PICK f : Flattens(f, V, ss) /\ FlattenSeq(ss) = f[Len(ss)]
    BY <1>2, FlattenSeqFlattens
  <2>2. Len(ss) \in 1..Len(ss)
    BY <1>2
  <2> QED BY <2>1, <2>2 DEF Flattens
<1> QED BY <1>1, <1>2

\* What is flattened last comes last.
LEMMA FlattenAppend ==
    ASSUME NEW V, NEW ss \in Seq(Seq(V)), NEW s \in Seq(V)
    PROVE  FlattenSeq(Append(ss, s)) = FlattenSeq(ss) \o s
<1> DEFINE more == Append(ss, s)
<1>1. /\ more \in Seq(Seq(V)) /\ more # <<>> /\ Len(more) = Len(ss) + 1 /\ Len(ss) \in Nat
      /\ \A i \in 1..Len(ss) : more[i] = ss[i]
      /\ more[Len(ss) + 1] = s
  BY AppendProperties, LenProperties
<1> HIDE DEF more
<1>2. PICK g : Flattens(g, V, more) /\ FlattenSeq(more) = g[Len(more)]
  BY <1>1, FlattenSeqFlattens
<1>3. CASE ss = <<>>
  <2>1. FlattenSeq(more) = s
    BY <1>1, <1>2, <1>3 DEF Flattens
  <2> QED BY <2>1, <1>3, FlattenNone DEF more
<1>4. CASE ss # <<>>
  <2>1. PICK f : Flattens(f, V, ss) /\ FlattenSeq(ss) = f[Len(ss)]
    BY <1>4, FlattenSeqFlattens
  <2>2. Len(ss) >= 1
    BY <1>4
  <2>3. Alike(f, g, 1, Len(ss))
    <3>1. f[1] = g[1]
      BY <1>1, <1>2, <2>1, <2>2 DEF Flattens
    <3>2. \A i \in 1 + 1..Len(ss) : f[i] = f[i - 1] \o ss[i] /\ g[i] = g[i - 1] \o ss[i]
      <4>1. ASSUME NEW i \in 1 + 1..Len(ss)
            PROVE  f[i] = f[i - 1] \o ss[i] /\ g[i] = g[i - 1] \o ss[i]
        <5>1. i \in 2..Len(ss) /\ i \in 2..Len(more) /\ more[i] = ss[i]
          BY <1>1
        <5> QED BY <5>1, <1>2, <2>1 DEF Flattens
      <4> QED BY <4>1
    <3> QED BY <3>1, <3>2 DEF Alike
  <2>4. f[Len(ss)] = g[Len(ss)]
    <3>1. Len(ss) \in Nat /\ Len(ss) \in 1..Len(ss)
      BY <1>1, <2>2
    <3>2. \A i \in 1..Len(ss) : f[i] = g[i]
      BY <2>3, <3>1, Uniqueness
    <3> QED BY <3>1, <3>2
  <2>5. g[Len(ss) + 1] = g[Len(ss)] \o s
    <3>1. Len(ss) + 1 \in 2..Len(more) /\ (Len(ss) + 1) - 1 = Len(ss)
      BY <1>1, <2>2
    <3> QED BY <3>1, <1>1, <1>2 DEF Flattens
  <2> QED BY <1>1, <1>2, <2>1, <2>4, <2>5 DEF more
<1> QED BY <1>3, <1>4

\* Longer at its end, it flattens to what is longer at its end.
LEMMA FlattenGrows ==
    ASSUME NEW V, NEW ss \in Seq(Seq(V)), ss # <<>>, NEW x \in V
    PROVE  FlattenSeq([ss EXCEPT ![Len(ss)] = Append(Last(ss), x)]) = Append(FlattenSeq(ss), x)
<1> DEFINE front == Front(ss)
           last == Last(ss)
<1>1. Len(ss) \in Nat /\ Len(ss) >= 1
  OBVIOUS
<1>2. /\ front \in Seq(Seq(V)) /\ Len(front) = Len(ss) - 1
      /\ \A i \in 1..Len(ss) - 1 : front[i] = ss[i]
  BY <1>1 DEF Front
<1>3. last \in Seq(V) /\ last = ss[Len(ss)]
  BY <1>1 DEF Last
<1> HIDE DEF front, last
<1>4. ss = Append(front, last)
  <2>1. /\ Append(front, last) \in Seq(Seq(V)) /\ Len(Append(front, last)) = Len(ss)
        /\ \A i \in 1..Len(ss) - 1 : Append(front, last)[i] = ss[i]
        /\ Append(front, last)[Len(ss)] = ss[Len(ss)]
    BY <1>1, <1>2, <1>3, AppendProperties
  <2>2. \A i \in 1..Len(ss) : ss[i] = Append(front, last)[i]
    BY <1>1, <2>1
  <2> QED BY <2>1, <2>2, SeqEqual
<1>5. [ss EXCEPT ![Len(ss)] = Append(last, x)] = Append(front, Append(last, x))
  <2> DEFINE grown == Append(last, x)
             new == [ss EXCEPT ![Len(ss)] = grown]
  <2>1. grown \in Seq(V)
    BY <1>3, AppendProperties
  <2> HIDE DEF grown
  <2>2. /\ Append(front, grown) \in Seq(Seq(V)) /\ Len(Append(front, grown)) = Len(ss)
        /\ \A i \in 1..Len(ss) - 1 : Append(front, grown)[i] = ss[i]
        /\ Append(front, grown)[Len(ss)] = grown
    BY <1>1, <1>2, <2>1, AppendProperties
  <2>3. /\ new \in Seq(Seq(V)) /\ Len(new) = Len(ss)
        /\ \A i \in 1..Len(ss) : new[i] = IF i = Len(ss) THEN grown ELSE ss[i]
    <3>1. Len(ss) \in 1..Len(ss)
      BY <1>1
    <3> QED BY <2>1, <3>1, ExceptSeq
  <2>4. \A i \in 1..Len(ss) : new[i] = Append(front, grown)[i]
    <3> SUFFICES ASSUME NEW i \in 1..Len(ss) PROVE new[i] = Append(front, grown)[i]
      OBVIOUS
    <3> HIDE DEF new
    <3>1. CASE i = Len(ss)
      BY <3>1, <2>2, <2>3
    <3>2. CASE i # Len(ss)
      <4>1. i \in 1..Len(ss) - 1
        BY <3>2, <1>1
      <4> QED BY <4>1, <3>2, <2>2, <2>3
    <3> QED BY <3>1, <3>2
  <2>5. new = Append(front, grown)
    <3> HIDE DEF new
    <3> QED BY <2>2, <2>3, <2>4, SeqEqual
  <2> QED BY <2>5 DEF grown
<1>6. FlattenSeq(front) \in Seq(V)
  BY <1>2, FlattenTyped
<1>7. FlattenSeq(front) \o Append(last, x) = Append(FlattenSeq(front) \o last, x)
  BY <1>3, <1>6
<1>8. FlattenSeq(Append(front, Append(last, x))) = FlattenSeq(front) \o Append(last, x)
  <2>1. Append(last, x) \in Seq(V)
    BY <1>3, AppendProperties
  <2> QED BY <1>2, <2>1, FlattenAppend
<1>9. FlattenSeq(ss) = FlattenSeq(front) \o last
  BY <1>2, <1>3, <1>4, FlattenAppend
<1> QED BY <1>5, <1>7, <1>8, <1>9 DEF last

-----------------------------------------------------------------------------
\* What a chunk consists of.
Pieces == [block : Block, headed : BOOLEAN]

\* What a piece is and what it counts for.
LEMMA PieceTyped ==
    ASSUME NEW b \in Block, NEW headed \in BOOLEAN
    PROVE  /\ Piece(b, headed) \in Pieces
           /\ PieceSize(Piece(b, headed)) = b.size + (IF headed THEN Heading ELSE 0)
  BY DEF Piece, Pieces, PieceSize

\* The size of a piece is a natural number.
LEMMA PieceSizeTyped ==
    ASSUME NEW p \in Pieces PROVE PieceSize(p) \in Nat
  BY DigestAssumption DEF Pieces, PieceSize, Block

\* The size of a chunk is a natural number.
LEMMA SizeTyped ==
    ASSUME NEW c \in Seq(Pieces)
    PROVE  Size(c) \in Nat /\ [i \in DOMAIN c |-> PieceSize(c[i])] \in Seq(Nat)
<1>1. \A i \in 1..Len(c) : PieceSize(c[i]) \in Nat
  BY PieceSizeTyped
<1>2. DOMAIN c = 1..Len(c) /\ Len(c) \in Nat
  OBVIOUS
<1>3. [i \in 1..Len(c) |-> PieceSize(c[i])] \in Seq(Nat)
  BY <1>1, <1>2, IsASeq
<1> QED BY <1>2, <1>3, TotalTyped DEF Size

\* One more piece adds its size to the chunk's.
LEMMA SizeAppend ==
    ASSUME NEW c \in Seq(Pieces), NEW p \in Pieces
    PROVE  Size(Append(c, p)) = Size(c) + PieceSize(p)
<1> DEFINE sizes == [i \in DOMAIN c |-> PieceSize(c[i])]
           more == Append(c, p)
           moreSizes == [i \in DOMAIN more |-> PieceSize(more[i])]
<1>1. sizes \in Seq(Nat) /\ PieceSize(p) \in Nat
  BY SizeTyped, PieceSizeTyped
<1>2. /\ more \in Seq(Pieces) /\ Len(more) = Len(c) + 1 /\ Len(c) \in Nat
      /\ \A i \in 1..Len(c) : more[i] = c[i]
      /\ more[Len(c) + 1] = p
  BY AppendProperties, LenProperties
<1> HIDE DEF more
<1>3. moreSizes \in Seq(Nat)
  BY <1>2, SizeTyped
<1>4. /\ Len(sizes) = Len(c) /\ \A i \in 1..Len(c) : sizes[i] = PieceSize(c[i])
      /\ Len(moreSizes) = Len(c) + 1
      /\ \A i \in 1..Len(c) + 1 : moreSizes[i] = PieceSize(more[i])
  <2>1. DOMAIN c = 1..Len(c) /\ DOMAIN more = 1..Len(c) + 1
    BY <1>2
  <2> QED BY <1>2, <2>1
<1> HIDE DEF sizes, moreSizes
<1>5. /\ Append(sizes, PieceSize(p)) \in Seq(Nat)
      /\ Len(Append(sizes, PieceSize(p))) = Len(c) + 1
      /\ \A i \in 1..Len(c) : Append(sizes, PieceSize(p))[i] = sizes[i]
      /\ Append(sizes, PieceSize(p))[Len(c) + 1] = PieceSize(p)
  BY <1>1, <1>4, AppendProperties
<1>6. ASSUME NEW i \in 1..Len(c) + 1 PROVE moreSizes[i] = Append(sizes, PieceSize(p))[i]
  <2>1. CASE i = Len(c) + 1
    BY <2>1, <1>2, <1>4, <1>5
  <2>2. CASE i # Len(c) + 1
    <3>1. i \in 1..Len(c)
      BY <2>2, <1>2
    <3> QED BY <3>1, <1>2, <1>4, <1>5
  <2> QED BY <2>1, <2>2
<1>7. moreSizes = Append(sizes, PieceSize(p))
  BY <1>3, <1>4, <1>5, <1>6, SeqEqual
<1>8. Total(moreSizes) = Total(sizes) + PieceSize(p)
  BY <1>1, <1>7, TotalAppend
<1> QED BY <1>8 DEF Size, sizes, moreSizes, more

\* A chunk without pieces has no size.
LEMMA SizeOfNone == Size(<<>>) = 0
<1>1. [i \in DOMAIN <<>> |-> PieceSize((<<>>)[i])] = <<>>
  OBVIOUS
<1> QED BY <1>1, TotalEmpty DEF Size

\* The chunk with the blocks from b to e.
Segment(d, b, e) == Chunk(SubSeq(d, b, e))

\* A function on 1..n is a sequence of that length.
LEMMA FunctionIsSeq ==
    ASSUME NEW V, NEW n \in Nat, NEW f \in [1..n -> V]
    PROVE  f \in Seq(V) /\ Len(f) = n
  OBVIOUS

\* A sequence of one.
LEMMA OneIsSeq ==
    ASSUME NEW V, NEW x \in V
    PROVE  Append(<<>>, x) = <<x>> /\ <<x>> \in Seq(V) /\ <<x>> # <<>> /\ Len(<<x>>) = 1
<1>1. <<>> \in Seq(V) /\ <<x>> \in Seq(V)
  OBVIOUS
<1>2. Append(<<>>, x) = (<<>>) \o <<x>>
  BY <1>1, AppendIsConcat
<1>3. (<<>>) \o <<x>> = <<x>>
  BY <1>1, ConcatEmptySeq
<1> QED BY <1>1, <1>2, <1>3

\* What a part of a sequence consists of.
LEMMA SubSeqTyped ==
    ASSUME NEW V, NEW d \in Seq(V), NEW b \in 1..Len(d), NEW e \in b..Len(d)
    PROVE  /\ SubSeq(d, b, e) \in Seq(V) /\ Len(SubSeq(d, b, e)) = e - b + 1
           /\ \A i \in 1..e - b + 1 : SubSeq(d, b, e)[i] = d[b + i - 1]
<1>1. \A i \in b..e : d[i] \in V
  OBVIOUS
<1> QED BY <1>1, SubSeqProperties

\* What a segment consists of.
LEMMA SegmentTyped ==
    ASSUME NEW d \in Seq(Block), NEW b \in 1..Len(d), NEW e \in b..Len(d)
    PROVE  /\ Segment(d, b, e) \in Seq(Pieces) /\ Len(Segment(d, b, e)) = e - b + 1
           /\ \A i \in 1..e - b + 1 :
                 Segment(d, b, e)[i] =
                    Piece(d[b + i - 1], i = 1 \/ d[b + i - 1].target # d[b + i - 2].target)
<1> DEFINE sub == SubSeq(d, b, e)
<1>1. /\ sub \in Seq(Block) /\ Len(sub) = e - b + 1 /\ e - b + 1 \in Nat
      /\ \A i \in 1..e - b + 1 : sub[i] = d[b + i - 1]
  BY SubSeqTyped
<1> HIDE DEF sub
<1>2. DOMAIN sub = 1..e - b + 1
  BY <1>1
<1>3. ASSUME NEW i \in 1..e - b + 1
      PROVE  /\ Chunk(sub)[i] = Piece(d[b + i - 1], i = 1 \/ d[b + i - 1].target # d[b + i - 2].target)
             /\ Chunk(sub)[i] \in Pieces
  <2>1. Chunk(sub)[i] = Piece(sub[i], i = 1 \/ sub[i].target # sub[i - 1].target)
    BY <1>2 DEF Chunk
  <2>2. sub[i] = d[b + i - 1] /\ sub[i] \in Block
    BY <1>1
  <2>3. i # 1 => sub[i - 1] = d[b + i - 2]
    <3>1. SUFFICES ASSUME i # 1 PROVE sub[i - 1] = d[b + i - 2]
      OBVIOUS
    <3>2. i - 1 \in 1..e - b + 1 /\ b + (i - 1) - 1 = b + i - 2
      BY <3>1
    <3> QED BY <3>2, <1>1
  <2> QED BY <2>1, <2>2, <2>3 DEF Piece, Pieces
<1>4. Chunk(sub) = [i \in 1..e - b + 1 |-> Chunk(sub)[i]]
  BY <1>2 DEF Chunk
<1>5. Chunk(sub) \in Seq(Pieces) /\ Len(Chunk(sub)) = e - b + 1
  <2>1. Chunk(sub) \in [1..e - b + 1 -> Pieces]
    BY <1>3, <1>4
  <2> HIDE DEF Pieces
  <2> QED BY <1>1, <2>1, FunctionIsSeq
<1> QED BY <1>3, <1>5 DEF Segment, sub

\* A segment of one block has its heading.
LEMMA SegmentBegins ==
    ASSUME NEW d \in Seq(Block), NEW b \in 1..Len(d)
    PROVE  /\ Segment(d, b, b) = <<Piece(d[b], TRUE)>>
           /\ Size(Segment(d, b, b)) = d[b].size + Heading
<1> DEFINE p == Piece(d[b], TRUE)
           seg == Segment(d, b, b)
<1>1. seg \in Seq(Pieces) /\ Len(seg) = 1 /\ seg[1] = p
  <2>1. b \in b..Len(d) /\ b - b + 1 = 1 /\ b + 1 - 1 = b /\ 1 \in 1..1
    OBVIOUS
  <2> HIDE DEF Segment, Piece, Pieces, Block
  <2>2. seg[1] = Piece(d[b], 1 = 1 \/ d[b].target # d[b + 1 - 2].target)
    BY <2>1, SegmentTyped
  <2>3. (1 = 1 \/ d[b].target # d[b + 1 - 2].target) = TRUE
    OBVIOUS
  <2> QED BY <2>1, <2>2, <2>3, SegmentTyped
<1>2. d[b] \in Block
  OBVIOUS
<1>3. p \in Pieces /\ PieceSize(p) = d[b].size + Heading
  BY <1>2, PieceTyped
<1>4. d[b].size \in Nat /\ Heading \in Nat
  BY <1>2, DigestAssumption DEF Block
<1> HIDE DEF p, seg, Block
<1>5. <<p>> = Append(<<>>, p) /\ <<p>> \in Seq(Pieces) /\ Len(<<p>>) = 1 /\ <<p>>[1] = p
  BY <1>3, OneIsSeq
<1>6. \A i \in 1..1 : seg[i] = <<p>>[i]
  <2>1. \A i \in 1..1 : i = 1
    OBVIOUS
  <2> QED BY <1>1, <1>5, <2>1
<1>7. seg = <<p>>
  BY <1>1, <1>5, <1>6, SeqEqual
<1>8. Size(<<p>>) = d[b].size + Heading
  <2>1. <<>> \in Seq(Pieces)
    OBVIOUS
  <2>2. Size(Append(<<>>, p)) = Size(<<>>) + PieceSize(p)
    BY <1>3, <2>1, SizeAppend
  <2>3. Size(<<p>>) = 0 + PieceSize(p)
    BY <1>5, <2>2, SizeOfNone
  <2>4. 0 + (d[b].size + Heading) = d[b].size + Heading
    BY <1>4
  <2> QED BY <1>3, <2>3, <2>4
<1> QED BY <1>7, <1>8 DEF p, seg

\* A segment grows by the next block, with a heading if its target is another.
LEMMA SegmentGrows ==
    ASSUME NEW d \in Seq(Block), NEW b \in 1..Len(d), NEW e \in b..Len(d) - 1
    PROVE  LET next == Piece(d[e + 1], d[e + 1].target # d[e].target)
           IN  /\ next \in Pieces
               /\ Segment(d, b, e + 1) = Append(Segment(d, b, e), next)
               /\ Size(Segment(d, b, e + 1)) = Size(Segment(d, b, e)) + PieceSize(next)
<1> DEFINE next == Piece(d[e + 1], d[e + 1].target # d[e].target)
           long == Segment(d, b, e + 1)
           short == Segment(d, b, e)
           Expected(i) == Piece(d[b + i - 1], i = 1 \/ d[b + i - 1].target # d[b + i - 2].target)
<1>0. e \in b..Len(d) /\ e + 1 \in b..Len(d) /\ e + 1 - b + 1 = (e - b + 1) + 1 /\ e - b + 1 \in Nat
  OBVIOUS
<1>1. next \in Pieces
  <2>1. d[e + 1] \in Block /\ (d[e + 1].target # d[e].target) \in BOOLEAN
    OBVIOUS
  <2> QED BY <2>1, PieceTyped
<1>2. /\ long \in Seq(Pieces) /\ Len(long) = (e - b + 1) + 1
      /\ \A i \in 1..(e - b + 1) + 1 : long[i] = Expected(i)
  <2> HIDE DEF Segment, Piece, Pieces, Block
  <2> QED BY <1>0, SegmentTyped
<1>3. /\ short \in Seq(Pieces) /\ Len(short) = e - b + 1
      /\ \A i \in 1..e - b + 1 : short[i] = Expected(i)
  <2> HIDE DEF Segment, Piece, Pieces, Block
  <2> QED BY <1>0, SegmentTyped
<1>4. Expected((e - b + 1) + 1) = next
  <2>1. b + ((e - b + 1) + 1) - 1 = e + 1 /\ b + ((e - b + 1) + 1) - 2 = e
        /\ (e - b + 1) + 1 # 1
    OBVIOUS
  <2> QED BY <2>1
<1> HIDE DEF next, long, short, Expected
<1>5. /\ Append(short, next) \in Seq(Pieces) /\ Len(Append(short, next)) = Len(long)
      /\ \A i \in 1..e - b + 1 : Append(short, next)[i] = short[i]
      /\ Append(short, next)[(e - b + 1) + 1] = next
  BY <1>1, <1>2, <1>3, AppendProperties
<1>6. ASSUME NEW i \in 1..Len(long) PROVE long[i] = Append(short, next)[i]
  <2>1. CASE i = (e - b + 1) + 1
    BY <2>1, <1>2, <1>4, <1>5
  <2>2. CASE i # (e - b + 1) + 1
    <3>1. i \in 1..e - b + 1 /\ i \in 1..(e - b + 1) + 1
      BY <2>2, <1>0, <1>2
    <3> QED BY <3>1, <1>2, <1>3, <1>5
  <2> QED BY <2>1, <2>2
<1>7. long = Append(short, next)
  BY <1>2, <1>5, <1>6, SeqEqual
<1>8. Size(long) = Size(short) + PieceSize(next)
  BY <1>1, <1>3, <1>7, SizeAppend
<1> QED BY <1>1, <1>7, <1>8 DEF next, long, short

\* How large it is.
SegmentSize(d, b, e) == Size(Segment(d, b, e))

\* The size of a segment is a natural number.
LEMMA SegmentSizeTyped ==
    ASSUME NEW d \in Seq(Block), NEW b \in 1..Len(d), NEW e \in b..Len(d)
    PROVE  SegmentSize(d, b, e) \in Nat
  BY SegmentTyped, SizeTyped DEF SegmentSize

\* A segment that goes on is not smaller.
LEMMA LaterEndIsMore ==
    ASSUME NEW d \in Seq(Block), NEW b \in 1..Len(d), NEW e \in b..Len(d), NEW f \in e..Len(d)
    PROVE  SegmentSize(d, b, e) <= SegmentSize(d, b, f)
<1> DEFINE S == {i \in e..Len(d) : SegmentSize(d, b, e) <= SegmentSize(d, b, i)}
<1>1. e \in S
  BY SegmentSizeTyped
<1>2. ASSUME NEW i \in e..Len(d) - 1, i \in S PROVE i + 1 \in S
  <2>1. i \in b..Len(d) - 1 /\ i + 1 \in e..Len(d) /\ i + 1 \in b..Len(d) /\ i \in b..Len(d)
    OBVIOUS
  <2>2. PICK next \in Pieces :
           SegmentSize(d, b, i + 1) = SegmentSize(d, b, i) + PieceSize(next)
    BY <2>1, SegmentGrows DEF SegmentSize
  <2>3. PieceSize(next) \in Nat
    BY PieceSizeTyped
  <2>4. SegmentSize(d, b, i) \in Nat /\ SegmentSize(d, b, e) \in Nat
    BY <2>1, SegmentSizeTyped
  <2> QED BY <1>2, <2>1, <2>2, <2>3, <2>4
<1> HIDE DEF S
<1>3. Hereditary(S, e, Len(d))
  BY <1>1, <1>2 DEF Hereditary
<1>4. e \in Nat /\ Len(d) \in Nat
  OBVIOUS
<1>5. f \in S
  BY <1>3, <1>4, Induction
<1> QED BY <1>5 DEF S

\* The heading moves along, and what was before it is gone.
LEMMA NextStartIsLess ==
    ASSUME NEW d \in Seq(Block), NEW b \in 1..Len(d), NEW e \in b + 1..Len(d)
    PROVE  SegmentSize(d, b + 1, e) <= SegmentSize(d, b, e)
<1> DEFINE S == {i \in b + 1..Len(d) : SegmentSize(d, b + 1, i) <= SegmentSize(d, b, i)}
<1>0. b + 1 \in 1..Len(d) /\ b \in b..Len(d) - 1 /\ d[b] \in Block /\ d[b + 1] \in Block
  OBVIOUS
<1>1. b + 1 \in S
  <2>1. SegmentSize(d, b + 1, b + 1) = d[b + 1].size + Heading
    BY <1>0, SegmentBegins DEF SegmentSize
  <2>2. SegmentSize(d, b, b) = d[b].size + Heading
    BY <1>0, SegmentBegins DEF SegmentSize
  <2> DEFINE next == Piece(d[b + 1], d[b + 1].target # d[b].target)
  <2>3. SegmentSize(d, b, b + 1) = SegmentSize(d, b, b) + PieceSize(next)
    BY <1>0, SegmentGrows DEF SegmentSize
  <2>4. PieceSize(next) >= d[b + 1].size /\ PieceSize(next) \in Nat
    <3> DEFINE headed == d[b + 1].target # d[b].target
    <3>1. d[b + 1].size \in Nat /\ Heading \in Nat /\ headed \in BOOLEAN
      BY <1>0, DigestAssumption DEF Block
    <3>2. PieceSize(next) = d[b + 1].size + (IF headed THEN Heading ELSE 0)
      BY <1>0, <3>1, PieceTyped
    <3> HIDE DEF headed, next
    <3> QED BY <3>1, <3>2
  <2>5. d[b].size \in Nat /\ d[b + 1].size \in Nat /\ Heading \in Nat
    BY <1>0, DigestAssumption DEF Block
  <2> HIDE DEF next
  <2>6. SegmentSize(d, b + 1, b + 1) <= SegmentSize(d, b, b + 1)
    BY <2>1, <2>2, <2>3, <2>4, <2>5
  <2> QED BY <1>0, <2>6
<1>2. ASSUME NEW i \in b + 1..Len(d) - 1, i \in S PROVE i + 1 \in S
  <2> DEFINE next == Piece(d[i + 1], d[i + 1].target # d[i].target)
  <2>1. i \in b..Len(d) - 1 /\ i + 1 \in b + 1..Len(d) /\ i \in b..Len(d) /\ i \in b + 1..Len(d)
    OBVIOUS
  <2>2. /\ SegmentSize(d, b, i + 1) = SegmentSize(d, b, i) + PieceSize(next)
        /\ SegmentSize(d, b + 1, i + 1) = SegmentSize(d, b + 1, i) + PieceSize(next)
        /\ next \in Pieces
    BY <1>0, <2>1, SegmentGrows DEF SegmentSize
  <2> HIDE DEF next
  <2>3. PieceSize(next) \in Nat
    BY <2>2, PieceSizeTyped
  <2>4. SegmentSize(d, b, i) \in Nat /\ SegmentSize(d, b + 1, i) \in Nat
    BY <1>0, <2>1, SegmentSizeTyped
  <2>5. SegmentSize(d, b + 1, i) <= SegmentSize(d, b, i)
    BY <1>2
  <2>6. SegmentSize(d, b + 1, i + 1) <= SegmentSize(d, b, i + 1)
    BY <2>2, <2>3, <2>4, <2>5
  <2> QED BY <2>1, <2>6
<1> HIDE DEF S
<1>3. Hereditary(S, b + 1, Len(d))
  BY <1>1, <1>2 DEF Hereditary
<1>4. b + 1 \in Nat /\ Len(d) \in Nat
  OBVIOUS
<1>5. e \in S
  BY <1>3, <1>4, Induction
<1> QED BY <1>5 DEF S

\* A segment is not larger than one around it.
LEMMA WiderIsMore ==
    ASSUME NEW d \in Seq(Block), NEW a \in 1..Len(d), NEW b \in a..Len(d),
           NEW e \in b..Len(d), NEW f \in e..Len(d)
    PROVE  SegmentSize(d, b, e) <= SegmentSize(d, a, f)
<1> DEFINE S == {i \in a..b : SegmentSize(d, i, f) <= SegmentSize(d, a, f)}
<1>1. a \in S
  BY SegmentSizeTyped
<1>2. ASSUME NEW i \in a..b - 1, i \in S PROVE i + 1 \in S
  <2>1. i \in 1..Len(d) /\ f \in i + 1..Len(d) /\ f \in i..Len(d) /\ i + 1 \in 1..Len(d)
        /\ i + 1 \in a..b /\ f \in a..Len(d)
    OBVIOUS
  <2>2. SegmentSize(d, i + 1, f) <= SegmentSize(d, i, f)
    BY <2>1, NextStartIsLess
  <2>3. /\ SegmentSize(d, i + 1, f) \in Nat /\ SegmentSize(d, i, f) \in Nat
        /\ SegmentSize(d, a, f) \in Nat
    BY <2>1, SegmentSizeTyped
  <2>4. SegmentSize(d, i, f) <= SegmentSize(d, a, f)
    BY <1>2
  <2>5. SegmentSize(d, i + 1, f) <= SegmentSize(d, a, f)
    BY <2>2, <2>3, <2>4
  <2> QED BY <2>1, <2>5
<1> HIDE DEF S
<1>3. Hereditary(S, a, b)
  BY <1>1, <1>2 DEF Hereditary
<1>4. a \in Nat /\ b \in Nat
  OBVIOUS
<1>5. b \in S
  BY <1>3, <1>4, Induction
<1>6. SegmentSize(d, b, f) <= SegmentSize(d, a, f)
  BY <1>5 DEF S
<1>7. SegmentSize(d, b, e) <= SegmentSize(d, b, f)
  BY LaterEndIsMore
<1>8. /\ SegmentSize(d, b, e) \in Nat /\ SegmentSize(d, b, f) \in Nat
      /\ SegmentSize(d, a, f) \in Nat
  BY SegmentSizeTyped
<1> QED BY <1>6, <1>7, <1>8

-----------------------------------------------------------------------------
\* From is right after the last cut before the end, or at the beginning.
LEMMA FromIsStart ==
    ASSUME NEW n \in Nat \ {0}, NEW cuts \in SUBSET (1..n - 1), NEW end \in cuts \cup {n}
    PROVE  /\ From(cuts, end) \in {c + 1 : c \in cuts \cup {0}}
           /\ From(cuts, end) <= end
           /\ \A c \in cuts : c < end => c < From(cuts, end)
<1> DEFINE before == {c \in cuts \cup {0} : c < end}
           gaps == {end - c : c \in before}
           IsIt(b) == b <= end /\ \A c \in cuts : c < end => c < b
           starts == {c + 1 : c \in cuts \cup {0}}
<1>1. end \in 1..n /\ cuts \cup {0} \subseteq Nat
  OBVIOUS
<1>2. gaps \in SUBSET Nat /\ gaps # {}
  <2>1. 0 \in before
    BY <1>1
  <2>2. \A c \in before : end - c \in Nat
    BY <1>1
  <2> QED BY <2>1, <2>2
<1>3. PICK gap \in gaps : \A other \in gaps : gap <= other
  <2> HIDE DEF gaps
  <2> QED BY <1>2, Least
<1>4. PICK c \in before : gap = end - c
  BY <1>3
<1>5. \A other \in before : other <= c
  <2> SUFFICES ASSUME NEW other \in before PROVE other <= c
    OBVIOUS
  <2>1. end - other \in gaps
    OBVIOUS
  <2>2. end - c <= end - other
    BY <1>3, <1>4, <2>1
  <2>3. end \in Int /\ c \in Int /\ other \in Int
    BY <1>1
  <2> QED BY <2>2, <2>3
<1>6. c + 1 \in starts /\ IsIt(c + 1)
  <2>1. c \in Nat /\ c < end /\ \A o \in cuts : o < end => o <= c /\ o \in Nat
    BY <1>1, <1>5
  <2>2. c + 1 \in starts
    OBVIOUS
  <2> QED BY <1>1, <2>1, <2>2
<1>7. From(cuts, end) = CHOOSE b \in starts : IsIt(b)
  BY DEF From
<1>8. From(cuts, end) \in starts /\ IsIt(From(cuts, end))
  <2> HIDE DEF IsIt, starts
  <2> QED BY <1>6, <1>7
<1> QED BY <1>8

\* A cut by which everything fits separates what does not fit together.
LEMMA CutBetween ==
    ASSUME NEW d \in Seq(Block), NEW budget \in Nat, NEW cuts \in SUBSET (1..Len(d) - 1),
           AllFit(d, cuts, budget), NEW i \in 1..Len(d) - 1, NEW start \in 1..i,
           SegmentSize(d, start, i + 1) > budget
    PROVE  \E c \in cuts : start <= c /\ c <= i
<1> SUFFICES ASSUME \A c \in cuts : ~(start <= c /\ c <= i) PROVE FALSE
  OBVIOUS
<1> DEFINE n == Len(d)
           later == {e \in cuts \cup {n} : e >= i + 1}
<1>1. n \in Nat \ {0} /\ later \in SUBSET Nat /\ n \in later
  <2>1. n \in Nat /\ i \in Nat /\ i + 1 <= n
    OBVIOUS
  <2>2. cuts \cup {n} \subseteq Nat
    <3>1. 1..n - 1 \subseteq Nat
      BY <2>1
    <3> QED BY <2>1, <3>1
  <2> QED BY <2>1, <2>2
<1>2. PICK e \in later : \A f \in later : e <= f
  <2> HIDE DEF later
  <2> QED BY <1>1, Least
<1>3. e \in cuts \cup {n} /\ e \in i + 1..n
  BY <1>1, <1>2
<1> DEFINE b == From(cuts, e)
<1>4. b \in {c + 1 : c \in cuts \cup {0}} /\ b <= e
  BY <1>1, <1>3, FromIsStart
<1>5. PICK c \in cuts \cup {0} : b = c + 1
  BY <1>4
<1> HIDE DEF b
<1>6. c \in Nat /\ c < e
  BY <1>3, <1>4, <1>5
<1>7. c < start
  <2>1. c \notin later
    BY <1>2, <1>3, <1>6
  <2>2. c < i + 1
    BY <2>1, <1>6
  <2> QED BY <2>2, <1>6
<1>8. b \in 1..start /\ b \in 1..n /\ start \in b..n /\ i + 1 \in start..n /\ e \in i + 1..n
      /\ e \in b..n
  BY <1>1, <1>3, <1>5, <1>6, <1>7
<1>9. Fits(SubSeq(d, b, e), budget)
  BY <1>3 DEF AllFit, b
<1>10. Len(SubSeq(d, b, e)) = e - b + 1
  BY <1>8, SubSeqTyped
<1>11. SegmentSize(d, b, e) <= budget
  <2>1. Len(SubSeq(d, b, e)) # 1
    BY <1>8, <1>10
  <2> QED BY <1>9, <2>1 DEF Fits, SegmentSize, Segment
<1>12. SegmentSize(d, start, i + 1) <= SegmentSize(d, b, e)
  BY <1>8, WiderIsMore
<1>13. SegmentSize(d, start, i + 1) \in Nat /\ SegmentSize(d, b, e) \in Nat
  BY <1>8, SegmentSizeTyped
<1> QED BY <1>11, <1>12, <1>13

\* The blocks of a chunk.
LEMMA BlocksTyped ==
    ASSUME NEW c \in Seq(Pieces)
    PROVE  /\ Blocks(c) \in Seq(Block) /\ Len(Blocks(c)) = Len(c)
           /\ \A i \in 1..Len(c) : Blocks(c)[i] = c[i].block
<1>1. DOMAIN c = 1..Len(c) /\ Len(c) \in Nat /\ \A i \in 1..Len(c) : c[i].block \in Block
  <2>1. DOMAIN c = 1..Len(c) /\ Len(c) \in Nat /\ \A i \in 1..Len(c) : c[i] \in Pieces
    OBVIOUS
  <2>2. \A p \in Pieces : p.block \in Block
    BY DEF Pieces
  <2> QED BY <2>1, <2>2
<1>2. Blocks(c) \in [1..Len(c) -> Block]
  BY <1>1 DEF Blocks
<1>3. Blocks(c) \in Seq(Block) /\ Len(Blocks(c)) = Len(c)
  BY <1>1, <1>2, FunctionIsSeq
<1> QED BY <1>1, <1>3 DEF Blocks

\* One more piece is one more block.
LEMMA BlocksAppend ==
    ASSUME NEW c \in Seq(Pieces), NEW p \in Pieces
    PROVE  Blocks(Append(c, p)) = Append(Blocks(c), p.block)
<1> DEFINE more == Append(c, p)
<1>1. /\ more \in Seq(Pieces) /\ Len(more) = Len(c) + 1 /\ Len(c) \in Nat
      /\ \A i \in 1..Len(c) : more[i] = c[i]
      /\ more[Len(c) + 1] = p
  BY AppendProperties, LenProperties
<1>2. p.block \in Block
  BY DEF Pieces
<1> HIDE DEF more
<1>3. /\ Blocks(c) \in Seq(Block) /\ Len(Blocks(c)) = Len(c)
      /\ \A i \in 1..Len(c) : Blocks(c)[i] = c[i].block
  BY BlocksTyped
<1>4. /\ Blocks(more) \in Seq(Block) /\ Len(Blocks(more)) = Len(c) + 1
      /\ \A i \in 1..Len(c) + 1 : Blocks(more)[i] = more[i].block
  BY <1>1, BlocksTyped
<1>5. /\ Append(Blocks(c), p.block) \in Seq(Block)
      /\ Len(Append(Blocks(c), p.block)) = Len(c) + 1
      /\ \A i \in 1..Len(c) : Append(Blocks(c), p.block)[i] = Blocks(c)[i]
      /\ Append(Blocks(c), p.block)[Len(c) + 1] = p.block
  BY <1>2, <1>3, AppendProperties
<1>6. ASSUME NEW i \in 1..Len(c) + 1 PROVE Blocks(more)[i] = Append(Blocks(c), p.block)[i]
  <2>1. CASE i = Len(c) + 1
    BY <2>1, <1>1, <1>4, <1>5
  <2>2. CASE i # Len(c) + 1
    <3>1. i \in 1..Len(c)
      BY <2>2, <1>1
    <3> QED BY <3>1, <1>1, <1>3, <1>4, <1>5
  <2> QED BY <2>1, <2>2
<1> QED BY <1>4, <1>5, <1>6, SeqEqual DEF more

\* A segment has the blocks it was made of.
LEMMA BlocksOfSegment ==
    ASSUME NEW d \in Seq(Block), NEW b \in 1..Len(d), NEW e \in b..Len(d)
    PROVE  Blocks(Segment(d, b, e)) = SubSeq(d, b, e)
<1> DEFINE seg == Segment(d, b, e)
           sub == SubSeq(d, b, e)
<1>1. /\ seg \in Seq(Pieces) /\ Len(seg) = e - b + 1
      /\ \A i \in 1..e - b + 1 :
            seg[i] = Piece(d[b + i - 1], i = 1 \/ d[b + i - 1].target # d[b + i - 2].target)
  BY SegmentTyped
<1>2. /\ sub \in Seq(Block) /\ Len(sub) = e - b + 1
      /\ \A i \in 1..e - b + 1 : sub[i] = d[b + i - 1]
  BY SubSeqTyped
<1> HIDE DEF seg, sub
<1>3. /\ Blocks(seg) \in Seq(Block) /\ Len(Blocks(seg)) = Len(seg)
      /\ \A i \in 1..Len(seg) : Blocks(seg)[i] = seg[i].block
  BY <1>1, BlocksTyped
<1>4. ASSUME NEW i \in 1..Len(sub) PROVE Blocks(seg)[i] = sub[i]
  <2>1. i \in 1..e - b + 1 /\ i \in 1..Len(seg)
    BY <1>1, <1>2
  <2>2. Blocks(seg)[i] = seg[i].block /\ sub[i] = d[b + i - 1]
    BY <1>2, <1>3, <2>1
  <2>3. seg[i] = Piece(d[b + i - 1], i = 1 \/ d[b + i - 1].target # d[b + i - 2].target)
    BY <1>1, <2>1
  <2>4. seg[i].block = d[b + i - 1]
    BY <2>3 DEF Piece
  <2> QED BY <2>2, <2>4
<1> QED BY <1>1, <1>2, <1>3, <1>4, SeqEqual DEF seg, sub

\* What a sequence of chunks tells.
Told(chunks) == FlattenSeq([k \in DOMAIN chunks |-> Blocks(chunks[k])])

\* What pack returns.
ChunkSeqs == Seq(Seq(Pieces))

\* Chunks without their headings are sequences of blocks.
LEMMA ToldTyped ==
    ASSUME NEW chunks \in ChunkSeqs
    PROVE  LET told == [k \in DOMAIN chunks |-> Blocks(chunks[k])]
           IN  /\ told \in Seq(Seq(Block)) /\ Len(told) = Len(chunks)
               /\ \A k \in 1..Len(chunks) : told[k] = Blocks(chunks[k])
<1> DEFINE told == [k \in DOMAIN chunks |-> Blocks(chunks[k])]
<1>1. /\ DOMAIN chunks = 1..Len(chunks) /\ Len(chunks) \in Nat
      /\ \A k \in 1..Len(chunks) : chunks[k] \in Seq(Pieces)
  BY DEF ChunkSeqs
<1>2. \A k \in 1..Len(chunks) : Blocks(chunks[k]) \in Seq(Block)
  BY <1>1, BlocksTyped
<1>3. told \in [1..Len(chunks) -> Seq(Block)] /\ \A k \in 1..Len(chunks) : told[k] = Blocks(chunks[k])
  BY <1>1, <1>2
<1> HIDE DEF told
<1>4. told \in Seq(Seq(Block)) /\ Len(told) = Len(chunks)
  BY <1>1, <1>3, FunctionIsSeq
<1> QED BY <1>3, <1>4 DEF told

\* A new chunk tells its blocks after all others.
LEMMA ToldAppend ==
    ASSUME NEW chunks \in ChunkSeqs, NEW c \in Seq(Pieces)
    PROVE  Told(Append(chunks, c)) = Told(chunks) \o Blocks(c)
<1> DEFINE Tell(cs) == [k \in DOMAIN cs |-> Blocks(cs[k])]
           more == Append(chunks, c)
<1>1. /\ more \in ChunkSeqs /\ Len(more) = Len(chunks) + 1 /\ Len(chunks) \in Nat
      /\ \A i \in 1..Len(chunks) : more[i] = chunks[i]
      /\ more[Len(chunks) + 1] = c
  BY AppendProperties, LenProperties DEF ChunkSeqs
<1> HIDE DEF more
<1>2. /\ Tell(chunks) \in Seq(Seq(Block)) /\ Len(Tell(chunks)) = Len(chunks)
      /\ \A k \in 1..Len(chunks) : Tell(chunks)[k] = Blocks(chunks[k])
  BY ToldTyped
<1>3. /\ Tell(more) \in Seq(Seq(Block)) /\ Len(Tell(more)) = Len(chunks) + 1
      /\ \A k \in 1..Len(chunks) + 1 : Tell(more)[k] = Blocks(more[k])
  BY <1>1, ToldTyped
<1>4. Blocks(c) \in Seq(Block)
  BY BlocksTyped
<1>5. Told(chunks) = FlattenSeq(Tell(chunks)) /\ Told(more) = FlattenSeq(Tell(more))
  BY DEF Told
<1> HIDE DEF Tell
<1>6. /\ Append(Tell(chunks), Blocks(c)) \in Seq(Seq(Block))
      /\ Len(Append(Tell(chunks), Blocks(c))) = Len(chunks) + 1
      /\ \A k \in 1..Len(chunks) : Append(Tell(chunks), Blocks(c))[k] = Tell(chunks)[k]
      /\ Append(Tell(chunks), Blocks(c))[Len(chunks) + 1] = Blocks(c)
  BY <1>2, <1>4, AppendProperties
<1>7. ASSUME NEW k \in 1..Len(chunks) + 1
      PROVE  Tell(more)[k] = Append(Tell(chunks), Blocks(c))[k]
  <2>1. CASE k = Len(chunks) + 1
    BY <2>1, <1>1, <1>3, <1>6
  <2>2. CASE k # Len(chunks) + 1
    <3>1. k \in 1..Len(chunks)
      BY <2>2, <1>1
    <3> QED BY <3>1, <1>1, <1>2, <1>3, <1>6
  <2> QED BY <2>1, <2>2
<1>8. Tell(more) = Append(Tell(chunks), Blocks(c))
  BY <1>3, <1>6, <1>7, SeqEqual
<1>9. FlattenSeq(Append(Tell(chunks), Blocks(c))) = FlattenSeq(Tell(chunks)) \o Blocks(c)
  BY <1>2, <1>4, FlattenAppend
<1> QED BY <1>5, <1>8, <1>9 DEF more

\* A block that is written to the last chunk is told last.
LEMMA ToldGrows ==
    ASSUME NEW chunks \in ChunkSeqs, chunks # <<>>, NEW p \in Pieces
    PROVE  LET more == [chunks EXCEPT ![Len(chunks)] = Append(Last(chunks), p)]
           IN  /\ more \in ChunkSeqs /\ Len(more) = Len(chunks)
               /\ \A k \in 1..Len(chunks) - 1 : more[k] = chunks[k]
               /\ Last(more) = Append(Last(chunks), p)
               /\ Told(more) = Append(Told(chunks), p.block)
<1> DEFINE Tell(cs) == [k \in DOMAIN cs |-> Blocks(cs[k])]
           more == [chunks EXCEPT ![Len(chunks)] = Append(Last(chunks), p)]
           n == Len(chunks)
           grown == Append(Last(chunks), p)
<1>1. n \in Nat /\ n >= 1 /\ n \in 1..n /\ chunks \in Seq(Seq(Pieces))
  BY DEF ChunkSeqs
<1>2. Last(chunks) = chunks[n] /\ Last(chunks) \in Seq(Pieces)
  BY <1>1 DEF Last
<1>3. grown \in Seq(Pieces) /\ Blocks(grown) = Append(Blocks(Last(chunks)), p.block)
  BY <1>2, AppendProperties, BlocksAppend
<1>4. p.block \in Block
  BY DEF Pieces
<1>5. /\ more \in Seq(Seq(Pieces)) /\ Len(more) = n
      /\ \A k \in 1..n : more[k] = IF k = n THEN grown ELSE chunks[k]
  <2> HIDE DEF grown
  <2>1. [chunks EXCEPT ![n] = grown] \in Seq(Seq(Pieces))
        /\ Len([chunks EXCEPT ![n] = grown]) = n
        /\ \A k \in 1..n : [chunks EXCEPT ![n] = grown][k] = IF k = n THEN grown ELSE chunks[k]
    BY <1>1, <1>3, ExceptSeq
  <2> QED BY <2>1 DEF grown
<1> HIDE DEF more, grown
<1>6. Last(more) = grown
  BY <1>1, <1>5 DEF Last
<1>7. /\ Tell(chunks) \in Seq(Seq(Block)) /\ Len(Tell(chunks)) = n
      /\ \A k \in 1..n : Tell(chunks)[k] = Blocks(chunks[k])
  BY ToldTyped
<1>8. /\ Tell(more) \in Seq(Seq(Block)) /\ Len(Tell(more)) = n
      /\ \A k \in 1..n : Tell(more)[k] = Blocks(more[k])
  BY <1>5, ToldTyped DEF ChunkSeqs
<1>9. Told(chunks) = FlattenSeq(Tell(chunks)) /\ Told(more) = FlattenSeq(Tell(more))
  BY DEF Told
<1> HIDE DEF Tell, n
<1> DEFINE longer == [Tell(chunks) EXCEPT ![Len(Tell(chunks))] = Append(Last(Tell(chunks)), p.block)]
<1>10. Last(Tell(chunks)) = Blocks(Last(chunks)) /\ Tell(chunks) # <<>>
  BY <1>1, <1>2, <1>7 DEF Last
<1>11. /\ longer \in Seq(Seq(Block)) /\ Len(longer) = n
       /\ \A k \in 1..n : longer[k] = IF k = n THEN Blocks(grown) ELSE Tell(chunks)[k]
  <2>1. Blocks(grown) \in Seq(Block)
    BY <1>3, BlocksTyped
  <2>2. longer = [Tell(chunks) EXCEPT ![n] = Blocks(grown)]
    BY <1>3, <1>7, <1>10
  <2> HIDE DEF longer
  <2>3. /\ [Tell(chunks) EXCEPT ![n] = Blocks(grown)] \in Seq(Seq(Block))
        /\ Len([Tell(chunks) EXCEPT ![n] = Blocks(grown)]) = n
        /\ \A k \in 1..n : [Tell(chunks) EXCEPT ![n] = Blocks(grown)][k] =
                              IF k = n THEN Blocks(grown) ELSE Tell(chunks)[k]
    BY <1>1, <1>7, <2>1, ExceptSeq
  <2> QED BY <2>2, <2>3
<1>12. Told(chunks) \in Seq(Block) /\ FlattenSeq(longer) = Append(FlattenSeq(Tell(chunks)), p.block)
  BY <1>4, <1>7, <1>9, <1>10, FlattenGrows, FlattenTyped
<1> HIDE DEF longer
<1>13. \A k \in 1..n : Tell(more)[k] = longer[k]
  BY <1>5, <1>7, <1>8, <1>11
<1>14. Tell(more) = longer
  BY <1>8, <1>11, <1>13, SeqEqual
<1>15. \A k \in 1..n - 1 : more[k] = chunks[k]
  BY <1>1, <1>5
<1> QED BY <1>5, <1>6, <1>9, <1>12, <1>14, <1>15 DEF more, grown, n, ChunkSeqs

-----------------------------------------------------------------------------
\* Every fit cut of the digest cuts off at least n chunks before start.
AsFew(d, budget, start, n) ==
    \A cuts \in SUBSET (1..Len(d) - 1) :
        AllFit(d, cuts, budget) => n <= Cardinality({c \in cuts : c < start})

\* A chunk as it should be: not empty, all targets named, within the budget.
IsRight(c, budget) == c # <<>> /\ c = Chunk(Blocks(c)) /\ Fits(Blocks(c), budget)

\* The chunks after the first i blocks.
PackInv(d, budget, i, chunks) ==
    /\ chunks \in ChunkSeqs /\ Len(chunks) \in 1..i
    /\ Told(chunks) = SubSeq(d, 1, i)
    /\ \A k \in 1..Len(chunks) : IsRight(chunks[k], budget)
    /\ \E start \in 1..i :
          Last(chunks) = Segment(d, start, i) /\ AsFew(d, budget, start, Len(chunks) - 1)

\* A segment that fits, or is one block, is a chunk as it should be.
LEMMA SegmentIsRight ==
    ASSUME NEW d \in Seq(Block), NEW b \in 1..Len(d), NEW e \in b..Len(d), NEW budget \in Nat,
           b = e \/ SegmentSize(d, b, e) <= budget
    PROVE  IsRight(Segment(d, b, e), budget)
<1>1. Blocks(Segment(d, b, e)) = SubSeq(d, b, e)
  BY BlocksOfSegment
<1>2. Len(SubSeq(d, b, e)) = e - b + 1
  BY SubSeqTyped
<1>3. Len(Segment(d, b, e)) = e - b + 1 /\ Segment(d, b, e) \in Seq(Pieces)
  BY SegmentTyped
<1>4. Segment(d, b, e) # <<>>
  BY <1>3
<1>5. Fits(SubSeq(d, b, e), budget)
  BY <1>2 DEF Fits, SegmentSize, Segment
<1> QED BY <1>1, <1>4, <1>5 DEF IsRight, Segment

\* Cuts are counted up to a place; those between two places count for the later.
LEMMA FewerBefore ==
    ASSUME NEW n \in Nat, NEW cuts \in SUBSET (1..n), NEW a \in Nat, NEW b \in Nat, a <= b
    PROVE  /\ Cardinality({c \in cuts : c < a}) \in Nat
           /\ Cardinality({c \in cuts : c < b}) \in Nat
           /\ Cardinality({c \in cuts : c < a}) <= Cardinality({c \in cuts : c < b})
           /\ (\E c \in cuts : a <= c /\ c < b) =>
                 Cardinality({c \in cuts : c < a}) + 1 <= Cardinality({c \in cuts : c < b})
<1> DEFINE A == {c \in cuts : c < a}
           B == {c \in cuts : c < b}
<1>1. IsFiniteSet(1..n)
  BY FS_Interval
<1>2. cuts \subseteq Nat /\ A \subseteq B /\ B \subseteq 1..n
  <2>1. cuts \subseteq 1..n /\ \A c \in 1..n : c \in Nat
    OBVIOUS
  <2>2. \A c \in cuts : c < a => c < b
    BY <2>1
  <2> QED BY <2>1, <2>2
<1>3. IsFiniteSet(B) /\ IsFiniteSet(A)
  BY <1>1, <1>2, FS_Subset
<1>4. Cardinality(A) \in Nat /\ Cardinality(B) \in Nat /\ Cardinality(A) <= Cardinality(B)
  BY <1>2, <1>3, FS_Subset, FS_CardinalityType
<1>5. ASSUME NEW c \in cuts, a <= c, c < b PROVE Cardinality(A) + 1 <= Cardinality(B)
  <2>1. c \in B /\ c \notin A
    BY <1>2, <1>5
  <2>2. A # B
    BY <2>1
  <2>3. Cardinality(A) # Cardinality(B)
    <3> HIDE DEF A, B
    <3> QED BY <1>2, <1>3, <2>2, FS_Subset
  <2> HIDE DEF A, B
  <2> QED BY <1>4, <2>3
<1> QED BY <1>4, <1>5

\* The first block goes to the chunk that is there, with its heading.
LEMMA PackBegins ==
    ASSUME NEW d \in Seq(Block), d # <<>>, d[1].target # NoTarget, NEW budget \in Nat
    PROVE  PackInv(d, budget, 1, PackNext(<<(<<>>)>>, d[1], Named(d, 1), budget))
<1> DEFINE p == Piece(d[1], d[1].target # Named(d, 1))
           empty == <<(<<>>)>>
           chunks == PackNext(empty, d[1], Named(d, 1), budget)
<1>1. 1 \in 1..Len(d) /\ 1 \in 1..1 /\ d[1] \in Block /\ Len(d) \in Nat
  OBVIOUS
<1>2. p = Piece(d[1], TRUE)
  BY DEF Named, Piece
<1>3. p \in Pieces /\ p.block = d[1]
  BY <1>1, <1>2, PieceTyped DEF Piece
<1>4. Segment(d, 1, 1) = <<p>>
  BY <1>1, <1>2, SegmentBegins
<1> HIDE DEF p
<1>5. /\ Append(<<>>, p) = <<p>> /\ <<p>> \in Seq(Pieces)
  BY <1>3, OneIsSeq
<1>6. empty \in Seq(Seq(Pieces)) /\ Len(empty) = 1 /\ empty[1] = <<>> /\ Last(empty) = <<>>
  BY OneIsSeq DEF Last
<1> HIDE DEF empty
<1>7. chunks = [empty EXCEPT ![1] = <<p>>]
  BY <1>5, <1>6 DEF PackNext, p
<1> HIDE DEF chunks
<1>8. chunks \in ChunkSeqs /\ Len(chunks) = 1 /\ chunks[1] = <<p>> /\ Last(chunks) = <<p>>
  <2>1. 1 \in 1..Len(empty)
    BY <1>6
  <2>2. /\ chunks \in Seq(Seq(Pieces)) /\ Len(chunks) = 1
        /\ \A j \in 1..1 : chunks[j] = IF j = 1 THEN <<p>> ELSE empty[j]
    <3> DEFINE one == <<p>>
    <3>1. one \in Seq(Pieces)
      BY <1>5
    <3> DEFINE n == Len(empty)
    <3>2. chunks = [empty EXCEPT ![n] = one] /\ n \in 1..Len(empty) /\ n = 1
      BY <1>6, <1>7
    <3> HIDE DEF one, n
    <3>3. /\ [empty EXCEPT ![n] = one] \in Seq(Seq(Pieces)) /\ Len([empty EXCEPT ![n] = one]) = Len(empty)
          /\ \A j \in 1..Len(empty) : [empty EXCEPT ![n] = one][j] = IF j = n THEN one ELSE empty[j]
      <4>1. empty \in Seq(Seq(Pieces)) /\ n \in 1..Len(empty)
        BY <1>6, <3>2
      <4> QED BY <3>1, <4>1, ExceptSeq
    <3>4. /\ chunks \in Seq(Seq(Pieces)) /\ Len(chunks) = 1
          /\ \A j \in 1..1 : chunks[j] = IF j = 1 THEN one ELSE empty[j]
      BY <1>6, <3>2, <3>3
    <3> QED BY <3>4 DEF one
  <2> QED BY <2>2 DEF ChunkSeqs, Last
<1>9. Told(chunks) = SubSeq(d, 1, 1)
  <2>1. Blocks(<<p>>) = SubSeq(d, 1, 1) /\ SubSeq(d, 1, 1) \in Seq(Block)
    BY <1>1, <1>4, BlocksOfSegment, SubSeqTyped
  <2>2. chunks = Append(<<>>, <<p>>)
    <3>1. Append(<<>>, <<p>>) = <<(<<p>>)>> /\ <<(<<p>>)>> \in Seq(Seq(Pieces)) /\ Len(<<(<<p>>)>>) = 1
          /\ <<(<<p>>)>>[1] = <<p>>
      BY <1>5, OneIsSeq
    <3>2. \A i \in 1..1 : chunks[i] = <<(<<p>>)>>[i]
      <4>1. \A i \in 1..1 : i = 1
        OBVIOUS
      <4> QED BY <1>8, <3>1, <4>1
    <3> QED BY <1>8, <3>1, <3>2, SeqEqual DEF ChunkSeqs
  <2>3. Told(<<>>) = <<>>
    <3>1. [k \in DOMAIN <<>> |-> Blocks((<<>>)[k])] = <<>>
      OBVIOUS
    <3> QED BY <3>1, FlattenNone DEF Told
  <2>4. <<>> \in ChunkSeqs
    BY DEF ChunkSeqs
  <2>5. Told(chunks) = (<<>>) \o SubSeq(d, 1, 1)
    BY <1>5, <2>1, <2>2, <2>3, <2>4, ToldAppend
  <2> QED BY <2>1, <2>5, ConcatEmptySeq
<1>10. IsRight(<<p>>, budget)
  BY <1>1, <1>4, SegmentIsRight
<1>11. AsFew(d, budget, 1, 0)
  <2> SUFFICES ASSUME NEW cuts \in SUBSET (1..Len(d) - 1)
               PROVE  0 <= Cardinality({c \in cuts : c < 1})
    BY DEF AsFew
  <2>1. Len(d) - 1 \in Nat /\ 1 \in Nat /\ 1 <= 1
    BY <1>1
  <2>2. Cardinality({c \in cuts : c < 1}) \in Nat
    BY <2>1, FewerBefore
  <2> QED BY <2>2
<1>12. \A k \in 1..Len(chunks) : IsRight(chunks[k], budget)
  <2>1. \A k \in 1..Len(chunks) : k = 1
    BY <1>8
  <2> QED BY <1>8, <1>10, <2>1
<1>13. Len(chunks) \in 1..1 /\ Len(chunks) - 1 = 0
  BY <1>8
<1>14. \E start \in 1..1 :
          Last(chunks) = Segment(d, start, 1) /\ AsFew(d, budget, start, Len(chunks) - 1)
  BY <1>1, <1>4, <1>8, <1>11, <1>13
<1> QED BY <1>8, <1>9, <1>12, <1>13, <1>14 DEF PackInv, chunks, empty

\* A block goes to the last chunk or begins the next. The next begins only where
\* every cut by which all fits has one of its own since the last began.
LEMMA PackGoesOn ==
    ASSUME NEW d \in Seq(Block), NEW budget \in Nat, NEW i \in 1..Len(d) - 1,
           NEW chunks, PackInv(d, budget, i, chunks)
    PROVE  PackInv(d, budget, i + 1, PackNext(chunks, d[i + 1], Named(d, i + 1), budget))
<1> DEFINE p == Piece(d[i + 1], d[i + 1].target # d[i].target)
           new == PackNext(chunks, d[i + 1], Named(d, i + 1), budget)
           last == Last(chunks)
<1>1. /\ chunks \in ChunkSeqs /\ Len(chunks) \in 1..i
      /\ Told(chunks) = SubSeq(d, 1, i)
      /\ \A k \in 1..Len(chunks) : IsRight(chunks[k], budget)
  BY DEF PackInv
<1>2. PICK start \in 1..i : last = Segment(d, start, i) /\ AsFew(d, budget, start, Len(chunks) - 1)
  BY DEF PackInv
<1>3. /\ i \in Nat /\ i >= 1 /\ i + 1 \in 1..Len(d) /\ i \in 1..Len(d) /\ start \in 1..Len(d)
      /\ start \in Nat /\ i \in start..Len(d) - 1 /\ i \in start..Len(d) /\ i + 1 \in start..Len(d)
      /\ (i + 1) - 1 = i /\ i + 1 # 1 /\ start # i + 1 /\ start <= i + 1
      /\ d[i + 1] \in Block
  OBVIOUS
<1>4. Named(d, i + 1) = d[i].target
  BY <1>3 DEF Named
<1>5. /\ p \in Pieces /\ Segment(d, start, i + 1) = Append(last, p)
      /\ SegmentSize(d, start, i + 1) = Size(last) + PieceSize(p)
  BY <1>2, <1>3, SegmentGrows DEF SegmentSize
<1>6. p.block = d[i + 1]
  BY DEF Piece
<1>7. last \in Seq(Pieces) /\ last # <<>>
  <2> HIDE DEF last, p, new
  <2>1. last \in Seq(Pieces) /\ Len(last) = i - start + 1
    <3>1. Segment(d, start, i) \in Seq(Pieces) /\ Len(Segment(d, start, i)) = i - start + 1
      BY <1>3, SegmentTyped
    <3> QED BY <1>2, <3>1
  <2> QED BY <1>3, <2>1
<1>8. new = IF Size(last) + PieceSize(p) > budget THEN Append(chunks, <<Piece(d[i + 1], TRUE)>>)
            ELSE [chunks EXCEPT ![Len(chunks)] = Append(last, p)]
  BY <1>4, <1>7 DEF PackNext
<1>9. SubSeq(d, 1, i) \in Seq(Block) /\ SubSeq(d, 1, i + 1) = Append(SubSeq(d, 1, i), d[i + 1])
  <2>1. 1 \in 1..Len(d) /\ i \in 1..Len(d) /\ i + 1 \in 1..Len(d)
    BY <1>3
  <2>2. SubSeq(d, 1, i) \in Seq(Block)
    BY <2>1, SubSeqTyped
  <2>3. SubSeq(d, 1, i + 1) = SubSeq(d, 1, i) \o <<d[i + 1]>>
    BY <1>3, <2>1, SubSeqRecursiveSecond
  <2> QED BY <1>3, <2>2, <2>3, AppendIsConcat
<1>10. CASE SegmentSize(d, start, i + 1) > budget
  <2> DEFINE c == <<Piece(d[i + 1], TRUE)>>
  <2>1. new = Append(chunks, c)
    BY <1>5, <1>8, <1>10
  <2>2. i + 1 \in i + 1..Len(d)
    BY <1>3
  <2>3. c = Segment(d, i + 1, i + 1)
    BY <1>3, SegmentBegins
  <2> HIDE DEF c
  <2>4. c \in Seq(Pieces) /\ IsRight(c, budget) /\ Blocks(c) = SubSeq(d, i + 1, i + 1)
    BY <1>3, <2>2, <2>3, SegmentTyped, SegmentIsRight, BlocksOfSegment
  <2>5. /\ new \in ChunkSeqs /\ Len(new) = Len(chunks) + 1
        /\ \A k \in 1..Len(chunks) : new[k] = chunks[k]
        /\ new[Len(chunks) + 1] = c
    <3>1. chunks \in Seq(Seq(Pieces))
      BY <1>1 DEF ChunkSeqs
    <3>2. /\ Append(chunks, c) \in Seq(Seq(Pieces)) /\ Len(Append(chunks, c)) = Len(chunks) + 1
          /\ \A k \in 1..Len(chunks) : Append(chunks, c)[k] = chunks[k]
          /\ Append(chunks, c)[Len(chunks) + 1] = c
      BY <2>4, <3>1, AppendProperties
    <3> HIDE DEF new
    <3> QED BY <2>1, <3>2 DEF ChunkSeqs
  <2>6. Told(new) = SubSeq(d, 1, i + 1)
    <3>1. Told(new) = SubSeq(d, 1, i) \o SubSeq(d, i + 1, i + 1)
      BY <1>1, <2>1, <2>4, ToldAppend
    <3>2. 1 \in 1..Len(d) + 1 /\ i \in 1 - 1..Len(d) /\ i + 1 \in i..Len(d)
      BY <1>3
    <3> QED BY <3>1, <3>2, ConcatAdjacentSubSeq
  <2>7. \A k \in 1..Len(new) : IsRight(new[k], budget)
    <3> SUFFICES ASSUME NEW k \in 1..Len(new) PROVE IsRight(new[k], budget)
      OBVIOUS
    <3>1. k \in 1..Len(chunks) \/ k = Len(chunks) + 1
      BY <1>1, <2>5
    <3> QED BY <1>1, <2>4, <2>5, <3>1
  <2>8. Last(new) = Segment(d, i + 1, i + 1)
    BY <2>3, <2>5 DEF Last
  <2>9. AsFew(d, budget, i + 1, Len(chunks))
    <3> SUFFICES ASSUME NEW cuts \in SUBSET (1..Len(d) - 1), AllFit(d, cuts, budget)
                 PROVE  Len(chunks) <= Cardinality({e \in cuts : e < i + 1})
      BY DEF AsFew
    <3>1. \E e \in cuts : start <= e /\ e <= i
      BY <1>3, <1>10, CutBetween
    <3>2. \E e \in cuts : start <= e /\ e < i + 1
      BY <1>3, <3>1
    <3>3. Len(chunks) - 1 <= Cardinality({e \in cuts : e < start})
      BY <1>2 DEF AsFew
    <3>4. /\ Cardinality({e \in cuts : e < start}) \in Nat
          /\ Cardinality({e \in cuts : e < i + 1}) \in Nat
          /\ Cardinality({e \in cuts : e < start}) + 1 <= Cardinality({e \in cuts : e < i + 1})
      <4>1. Len(d) - 1 \in Nat /\ i + 1 \in Nat
        BY <1>3
      <4> QED BY <1>3, <3>2, <4>1, FewerBefore
    <3> QED BY <1>1, <3>3, <3>4
  <2>10. Len(new) \in 1..i + 1 /\ Len(new) - 1 = Len(chunks) /\ i + 1 \in 1..i + 1
    BY <1>1, <1>3, <2>5
  <2> HIDE DEF new
  <2>11. \E s \in 1..i + 1 : Last(new) = Segment(d, s, i + 1) /\ AsFew(d, budget, s, Len(new) - 1)
    BY <2>8, <2>9, <2>10
  <2>12. PackInv(d, budget, i + 1, new)
    BY <2>5, <2>6, <2>7, <2>10, <2>11 DEF PackInv
  <2> QED BY <2>12 DEF new
<1>11. CASE ~(SegmentSize(d, start, i + 1) > budget)
  <2>1. new = [chunks EXCEPT ![Len(chunks)] = Append(last, p)]
    BY <1>5, <1>8, <1>11
  <2>2. /\ new \in ChunkSeqs /\ Len(new) = Len(chunks)
        /\ \A k \in 1..Len(chunks) - 1 : new[k] = chunks[k]
        /\ Last(new) = Append(last, p)
        /\ Told(new) = Append(Told(chunks), d[i + 1])
    <3>1. chunks # <<>>
      BY <1>1
    <3> DEFINE more == [chunks EXCEPT ![Len(chunks)] = Append(last, p)]
    <3> HIDE DEF p
    <3>2. /\ more \in ChunkSeqs /\ Len(more) = Len(chunks)
          /\ \A k \in 1..Len(chunks) - 1 : more[k] = chunks[k]
          /\ Last(more) = Append(last, p)
          /\ Told(more) = Append(Told(chunks), p.block)
      BY <1>1, <1>5, <3>1, ToldGrows
    <3> HIDE DEF new, more, last
    <3>3. new = more
      BY <2>1 DEF more
    <3> QED BY <1>6, <3>2, <3>3
  <2>3. IsRight(Last(new), budget)
    <3>1. SegmentSize(d, start, i + 1) \in Nat
      BY <1>3, SegmentSizeTyped
    <3>2. SegmentSize(d, start, i + 1) <= budget
      BY <1>11, <3>1
    <3> QED BY <1>3, <1>5, <2>2, <3>2, SegmentIsRight
  <2>4. \A k \in 1..Len(new) : IsRight(new[k], budget)
    <3> SUFFICES ASSUME NEW k \in 1..Len(new) PROVE IsRight(new[k], budget)
      OBVIOUS
    <3>1. k \in 1..Len(chunks) /\ (k \in 1..Len(chunks) - 1 \/ k = Len(new))
      BY <1>1, <2>2
    <3> QED BY <1>1, <2>2, <2>3, <3>1 DEF Last
  <2>5. Len(new) \in 1..i + 1 /\ start \in 1..i + 1 /\ Len(new) - 1 = Len(chunks) - 1
    BY <1>1, <1>3, <2>2
  <2> HIDE DEF new
  <2>6. \E s \in 1..i + 1 : Last(new) = Segment(d, s, i + 1) /\ AsFew(d, budget, s, Len(new) - 1)
    BY <1>2, <1>5, <2>2, <2>5
  <2>7. PackInv(d, budget, i + 1, new)
    BY <1>1, <1>9, <2>2, <2>4, <2>5, <2>6 DEF PackInv
  <2> QED BY <2>7 DEF new
<1> QED BY <1>10, <1>11

\* A turn of the loop leaves chunks, of which there is at least one.
LEMMA PackNextTyped ==
    ASSUME NEW chunks \in ChunkSeqs \ {<<>>}, NEW block \in Block, NEW named, NEW budget \in Nat
    PROVE  PackNext(chunks, block, named, budget) \in ChunkSeqs \ {<<>>}
<1> DEFINE p == Piece(block, block.target # named)
           q == Piece(block, TRUE)
           last == Last(chunks)
           grown == Append(last, p)
<1>1. p \in Pieces /\ q \in Pieces
  <2>1. (block.target # named) \in BOOLEAN /\ TRUE \in BOOLEAN
    OBVIOUS
  <2> QED BY <2>1, PieceTyped
<1>2. chunks \in Seq(Seq(Pieces)) /\ Len(chunks) \in 1..Len(chunks)
  BY DEF ChunkSeqs
<1>3. last \in Seq(Pieces)
  BY <1>2 DEF Last
<1> HIDE DEF p, q, last
<1>4. grown \in Seq(Pieces) /\ <<q>> \in Seq(Pieces)
  BY <1>1, <1>3, AppendProperties, OneIsSeq
<1> HIDE DEF grown
<1>5. /\ Append(chunks, <<q>>) \in Seq(Seq(Pieces)) /\ Append(chunks, <<q>>) # <<>>
      /\ [chunks EXCEPT ![Len(chunks)] = grown] \in Seq(Seq(Pieces))
      /\ Len([chunks EXCEPT ![Len(chunks)] = grown]) = Len(chunks)
  <2> DEFINE one == <<q>>
             n == Len(chunks)
  <2>1. one \in Seq(Pieces) /\ n \in 1..Len(chunks)
    BY <1>2, <1>4
  <2> HIDE DEF one, n
  <2>2. Append(chunks, one) \in Seq(Seq(Pieces)) /\ Append(chunks, one) # <<>>
    BY <1>2, <2>1, AppendProperties
  <2>3. /\ [chunks EXCEPT ![n] = grown] \in Seq(Seq(Pieces))
        /\ Len([chunks EXCEPT ![n] = grown]) = Len(chunks)
    BY <1>2, <1>4, <2>1, ExceptSeq
  <2> QED BY <2>2, <2>3 DEF one, n
<1>6. [chunks EXCEPT ![Len(chunks)] = grown] # <<>>
  BY <1>2, <1>5
<1>7. PackNext(chunks, block, named, budget) \in
         {Append(chunks, <<q>>), [chunks EXCEPT ![Len(chunks)] = grown]}
  BY DEF PackNext, p, q, last, grown
<1> QED BY <1>5, <1>6, <1>7 DEF ChunkSeqs

\* After the loop the chunks are those of the whole digest.
LEMMA PackIsRight ==
    ASSUME NEW d \in Seq(Block), d # <<>>, NEW budget \in Nat
    PROVE  PackInv(d, budget, Len(d), Pack(d, budget))
<1> DEFINE n == Len(d)
           V == ChunkSeqs \ {<<>>}
           empty == <<(<<>>)>>
           next == [i \in 0 + 1..n |-> [v \in V |-> PackNext(v, d[i], Named(d, i), budget)]]
           IsIt(g) == g = [i \in 0..n |-> IF i = 0 THEN empty ELSE PackNext(g[i - 1], d[i], Named(d, i), budget)]
           h == CHOOSE g : IsIt(g)
<1>1. n \in Nat /\ n >= 1 /\ \A i \in 1..n : d[i] \in Block
  OBVIOUS
<1>2. empty \in V
  <2>1. <<>> \in Seq(Pieces)
    OBVIOUS
  <2>2. empty \in Seq(Seq(Pieces)) /\ empty # <<>>
    BY <2>1, OneIsSeq
  <2> QED BY <2>2 DEF ChunkSeqs
<1> HIDE DEF empty
<1>3. PICK f : Climbs(f, 0, n, V, empty, next)
  <2>1. ASSUME NEW i \in 0 + 1..n, NEW v \in V PROVE PackNext(v, d[i], Named(d, i), budget) \in V
    BY <1>1, PackNextTyped
  <2>2. Climbable(0, n, V, empty, next)
    <3> HIDE DEF V
    <3> QED BY <1>2, <2>1 DEF Climbable
  <2> HIDE DEF next, n, V
  <2> QED BY <2>2, <1>1, Recursion
<1>4. /\ f \in [0..n -> V] /\ f[0] = empty
      /\ \A i \in 1..n : f[i] = PackNext(f[i - 1], d[i], Named(d, i), budget)
  <2>1. ASSUME NEW i \in 1..n PROVE f[i] = PackNext(f[i - 1], d[i], Named(d, i), budget)
    <3>1. i \in 0 + 1..n /\ i - 1 \in 0..n
      BY <1>1
    <3>2. f[i] = next[i][f[i - 1]] /\ f[i - 1] \in V
      <4> HIDE DEF next, n, V
      <4> QED BY <3>1, <1>3 DEF Climbs
    <3> HIDE DEF V
    <3> QED BY <3>1, <3>2
  <2> HIDE DEF V, next, n
  <2> QED BY <1>3, <2>1 DEF Climbs
<1> HIDE DEF V
<1>5. IsIt(f)
  <2>1. ASSUME NEW i \in 0..n
        PROVE  f[i] = IF i = 0 THEN empty ELSE PackNext(f[i - 1], d[i], Named(d, i), budget)
    <3>1. i = 0 \/ i \in 1..n
      BY <1>1
    <3> QED BY <1>1, <1>4, <3>1
  <2> QED BY <1>4, <2>1
<1>6. IsIt(h)
  <2> HIDE DEF IsIt
  <2> QED BY <1>5
<1>7. Pack(d, budget) = h[n]
  BY DEF Pack, empty
<1> HIDE DEF h
<1>8. Alike(h, f, 0, n)
  <2>1. h[0] = empty
    BY <1>1, <1>6
  <2>2. ASSUME NEW i \in 0 + 1..n PROVE h[i] = PackNext(h[i - 1], d[i], Named(d, i), budget)
    <3>1. i \in 0..n /\ i # 0
      BY <1>1
    <3> QED BY <1>6, <3>1
  <2>3. \A i \in 0 + 1..n : f[i] = PackNext(f[i - 1], d[i], Named(d, i), budget)
    BY <1>4
  <2> HIDE DEF IsIt, n
  <2> QED BY <1>4, <2>1, <2>2, <2>3 DEF Alike
<1>9. h[n] = f[n]
  BY <1>1, <1>8, Uniqueness
<1> DEFINE S == {i \in 1..n : PackInv(d, budget, i, f[i])}
<1>10. 1 \in S
  <2>1. d[1].target # NoTarget
    BY <1>1, DigestAssumption DEF Block
  <2>2. f[1] = PackNext(empty, d[1], Named(d, 1), budget)
    <3>1. 1 \in 1..n /\ 1 - 1 = 0
      BY <1>1
    <3> QED BY <1>4, <3>1
  <2>3. PackInv(d, budget, 1, f[1])
    BY <2>1, <2>2, PackBegins DEF empty
  <2> QED BY <1>1, <2>3
<1>11. ASSUME NEW i \in 1..n - 1, i \in S PROVE i + 1 \in S
  <2>1. i + 1 \in 1..n /\ (i + 1) - 1 = i
    BY <1>1
  <2>2. f[i + 1] = PackNext(f[i], d[i + 1], Named(d, i + 1), budget)
    BY <1>4, <2>1
  <2>3. PackInv(d, budget, i, f[i])
    BY <1>11
  <2>4. PackInv(d, budget, i + 1, f[i + 1])
    BY <2>2, <2>3, PackGoesOn
  <2> QED BY <2>1, <2>4
<1> HIDE DEF S
<1>12. n \in S
  <2>1. Hereditary(S, 1, n)
    BY <1>10, <1>11 DEF Hereditary
  <2>2. n \in 1..n
    BY <1>1
  <2> HIDE DEF n
  <2> QED BY <1>1, <2>1, <2>2, Induction
<1> QED BY <1>7, <1>9, <1>12 DEF S

\* The chunks cannot be fewer.
LEMMA ChunksAreFew ==
    ASSUME NEW d \in Seq(Block), d # <<>>, NEW budget \in Nat,
           NEW chunks, PackInv(d, budget, Len(d), chunks),
           NEW cuts \in SUBSET (1..Len(d) - 1)
    PROVE  Len(chunks) <= ChunksOf(d, cuts, budget)
<1>1. Len(d) \in Nat /\ Len(d) - 1 \in Nat /\ Len(chunks) \in 1..Len(d)
  BY DEF PackInv
<1>2. CASE ~AllFit(d, cuts, budget)
  BY <1>1, <1>2 DEF ChunksOf
<1>3. CASE AllFit(d, cuts, budget)
  <2>1. PICK start \in 1..Len(d) : AsFew(d, budget, start, Len(chunks) - 1)
    BY DEF PackInv
  <2>2. Len(chunks) - 1 <= Cardinality({c \in cuts : c < start})
    BY <1>3, <2>1 DEF AsFew
  <2>3. /\ Cardinality({c \in cuts : c < start}) \in Nat
        /\ Cardinality({c \in cuts : c < Len(d)}) \in Nat
        /\ Cardinality({c \in cuts : c < start}) <= Cardinality({c \in cuts : c < Len(d)})
    <3>1. start \in Nat /\ Len(d) \in Nat /\ start <= Len(d)
      BY <1>1
    <3> QED BY <1>1, <3>1, FewerBefore
  <2>4. {c \in cuts : c < Len(d)} = cuts
    <3>1. \A c \in 1..Len(d) - 1 : c < Len(d)
      BY <1>1
    <3> QED BY <3>1
  <2>5. ChunksOf(d, cuts, budget) = Cardinality(cuts) + 1
    BY <1>3 DEF ChunksOf
  <2>6. Cardinality(cuts) \in Nat /\ Cardinality({c \in cuts : c < start}) <= Cardinality(cuts)
    BY <2>3, <2>4
  <2> QED BY <1>1, <2>2, <2>3, <2>5, <2>6
<1> QED BY <1>2, <1>3

-----------------------------------------------------------------------------
\* Where the chunks that Slack gets in the first i messages end.
SlackEnd(n, i) == IF i * Sections < n THEN i * Sections ELSE n

\* How many messages n chunks make, Sections at a time.
LEMMA SlackCounts ==
    ASSUME NEW n \in Nat \ {0}
    PROVE  LET m == (n + Sections - 1) \div Sections
           IN  m \in Nat /\ m >= 1 /\ (m - 1) * Sections < n /\ n <= m * Sections
<1> DEFINE S == Sections
           m == (n + S - 1) \div S
<1>0. S \in Nat /\ S # 0
  BY DigestAssumption
<1> HIDE DEF S
<1>1. m \in Int /\ S * m <= n + S - 1 /\ n + S - 1 < S * m + S
  BY <1>0
<1> HIDE DEF m
<1>2. n <= S * m
  BY <1>0, <1>1
<1>3. m >= 1
  <2>1. SUFFICES ASSUME m <= 0 PROVE FALSE
    BY <1>1
  <2>2. S * m <= 0
    BY <1>0, <1>1, <2>1
  <2>3. S * m \in Int
    BY <1>0, <1>1
  <2> QED BY <1>2, <2>2, <2>3
<1>4. (m - 1) * S < n /\ m * S = S * m
  <2>1. (m - 1) * S = S * m - S /\ m * S = S * m
    BY <1>0, <1>1
  <2> QED BY <1>0, <1>1, <2>1
<1> QED BY <1>1, <1>2, <1>3, <1>4 DEF m, S

\* Each of them goes on where the one before it ends, and the last is not empty.
LEMMA SlackParts ==
    ASSUME NEW n \in Nat \ {0}, NEW m \in Nat, (m - 1) * Sections < n, n <= m * Sections,
           NEW i \in 1..m
    PROVE  /\ (i - 1) * Sections \in 0..n - 1
           /\ SlackEnd(n, i) \in (i - 1) * Sections + 1..n
           /\ SlackEnd(n, i) - (i - 1) * Sections <= Sections
           /\ i > 1 => SlackEnd(n, i - 1) = (i - 1) * Sections
           /\ i = m => SlackEnd(n, i) = n
<1>0. Sections \in Nat /\ Sections >= 1 /\ i \in Nat /\ i >= 1
  BY DigestAssumption
<1>1. (i - 1) * Sections <= (m - 1) * Sections /\ 0 <= (i - 1) * Sections
  BY <1>0
<1>2. i * Sections = (i - 1) * Sections + Sections
  BY <1>0
<1>3. (i - 1) * Sections \in Int /\ (m - 1) * Sections \in Int /\ i * Sections \in Int
  BY <1>0
<1>4. (i - 1) * Sections \in 0..n - 1
  BY <1>1, <1>3
<1>5. SlackEnd(n, i) \in (i - 1) * Sections + 1..n /\ SlackEnd(n, i) - (i - 1) * Sections <= Sections
  BY <1>0, <1>2, <1>3, <1>4 DEF SlackEnd
<1>6. SlackEnd(n, i - 1) = (i - 1) * Sections
  BY <1>3, <1>4 DEF SlackEnd
<1>7. i = m => SlackEnd(n, i) = n
  BY <1>3 DEF SlackEnd
<1> QED BY <1>4, <1>5, <1>6, <1>7

\* What is asked of the messages: all of the chunks, in messages of the sizes
\* the service takes.
Delivers(chunks, messages) ==
    /\ messages \in Seq(Seq(Seq(Pieces)))
    /\ FlattenSeq(messages) = chunks
    /\ \A i \in 1..Len(messages) : Len(messages[i]) \in 1..Sections

\* A sequence cut at the ends of its parts flattens to itself.
Parts(chunks, messages, end) ==
    /\ end \in [0..Len(messages) -> 0..Len(chunks)]
    /\ end[0] = 0 /\ end[Len(messages)] = Len(chunks)
    /\ \A i \in 1..Len(messages) :
          /\ end[i - 1] < end[i]
          /\ messages[i] = SubSeq(chunks, end[i - 1] + 1, end[i])

\* What is cut into parts is put together again by flattening them.
LEMMA PartsFlatten ==
    ASSUME NEW V, NEW chunks \in Seq(V), NEW messages \in Seq(Seq(V)), messages # <<>>,
           NEW end, Parts(chunks, messages, end)
    PROVE  FlattenSeq(messages) = chunks
<1> DEFINE n == Len(messages)
           g == [i \in 1..n |-> SubSeq(chunks, 1, end[i])]
<1>1. /\ n \in Nat /\ n >= 1 /\ Len(chunks) \in Nat
      /\ end \in [0..n -> 0..Len(chunks)] /\ end[0] = 0 /\ end[n] = Len(chunks)
      /\ \A i \in 1..n : end[i - 1] < end[i] /\ messages[i] = SubSeq(chunks, end[i - 1] + 1, end[i])
  BY DEF Parts
<1>2. PICK f : Flattens(f, V, messages) /\ FlattenSeq(messages) = f[n]
  BY FlattenSeqFlattens
<1> HIDE DEF n
<1>3. Alike(f, g, 1, n)
  <2>1. f[1] = g[1]
    <3>1. 1 \in 1..n /\ 1 - 1 = 0
      BY <1>1
    <3>2. messages[1] = SubSeq(chunks, 0 + 1, end[1])
      BY <1>1, <3>1
    <3>3. f[1] = messages[1]
      BY <1>2 DEF Flattens
    <3>4. g[1] = SubSeq(chunks, 1, end[1])
      BY <3>1
    <3>5. 0 + 1 = 1
      OBVIOUS
    <3> HIDE DEF g
    <3> QED BY <3>2, <3>3, <3>4, <3>5
  <2>2. ASSUME NEW i \in 1 + 1..n, f[i - 1] = g[i - 1] PROVE f[i] = g[i]
    <3>1. i \in 1..n /\ i \in 2..n /\ i - 1 \in 1..n /\ i - 1 \in 0..n /\ i \in 0..n
      BY <1>1
    <3>2. f[i] = f[i - 1] \o messages[i]
      BY <1>2, <3>1 DEF Flattens, n
    <3>3. f[i] = SubSeq(chunks, 1, end[i - 1]) \o SubSeq(chunks, end[i - 1] + 1, end[i])
      BY <1>1, <2>2, <3>1, <3>2
    <3>4. /\ 1 \in 1..Len(chunks) + 1 /\ end[i - 1] \in 1 - 1..Len(chunks)
          /\ end[i] \in end[i - 1]..Len(chunks)
      <4>1. end[i - 1] \in 0..Len(chunks) /\ end[i] \in 0..Len(chunks) /\ end[i - 1] < end[i]
        BY <1>1, <3>1
      <4> DEFINE a == end[i - 1]
                 b == end[i]
                 len == Len(chunks)
      <4>2. a \in 0..len /\ b \in 0..len /\ a < b /\ len \in Nat
        BY <1>1, <4>1
      <4> HIDE DEF a, b, len
      <4>3. 1 \in 1..len + 1 /\ a \in 1 - 1..len /\ b \in a..len
        BY <4>2
      <4> QED BY <4>3 DEF a, b, len
    <3>5. f[i] = SubSeq(chunks, 1, end[i])
      BY <3>3, <3>4, ConcatAdjacentSubSeq
    <3> QED BY <3>1, <3>5
  <2> HIDE DEF g
  <2> QED BY <2>1, <2>2 DEF Alike
<1>4. f[n] = g[n]
  <2> HIDE DEF g
  <2> QED BY <1>1, <1>3, Uniqueness
<1>5. g[n] = SubSeq(chunks, 1, Len(chunks))
  BY <1>1
<1> QED BY <1>2, <1>4, <1>5, SubSeqFull

\* One chunk a message: all of them arrive.
LEMMA TelegramDelivers ==
    ASSUME NEW chunks \in ChunkSeqs, chunks # <<>>
    PROVE  Delivers(chunks, TelegramMessages(chunks))
<1> DEFINE n == Len(chunks)
           messages == TelegramMessages(chunks)
           end == [i \in 0..n |-> i]
<1>1. /\ n \in Nat /\ n >= 1 /\ DOMAIN chunks = 1..n /\ chunks \in Seq(Seq(Pieces))
      /\ \A i \in 1..n : chunks[i] \in Seq(Pieces)
  BY DEF ChunkSeqs
<1>2. \A i \in 1..n : <<chunks[i]>> \in Seq(Seq(Pieces)) /\ Len(<<chunks[i]>>) = 1
  BY <1>1, OneIsSeq
<1>3. messages \in [1..n -> Seq(Seq(Pieces))] /\ \A i \in 1..n : messages[i] = <<chunks[i]>>
  BY <1>1, <1>2 DEF TelegramMessages
<1> HIDE DEF messages
<1>4. messages \in Seq(Seq(Seq(Pieces))) /\ Len(messages) = n
  BY <1>1, <1>3, FunctionIsSeq
<1>5. Parts(chunks, messages, end)
  <2>1. ASSUME NEW i \in 1..n
        PROVE  end[i - 1] < end[i] /\ messages[i] = SubSeq(chunks, end[i - 1] + 1, end[i])
    <3>1. end[i - 1] = i - 1 /\ end[i] = i /\ end[i - 1] + 1 = i
      BY <1>1
    <3>2. SubSeq(chunks, i, i) = <<chunks[i]>>
      <4>1. i \in i..Len(chunks) /\ i \in 1..Len(chunks) /\ i - i + 1 = 1 /\ i + 1 - 1 = i
        BY <1>1
      <4>2. /\ SubSeq(chunks, i, i) \in Seq(Seq(Pieces)) /\ Len(SubSeq(chunks, i, i)) = 1
            /\ \A k \in 1..1 : SubSeq(chunks, i, i)[k] = chunks[i + k - 1]
        BY <1>1, <4>1, SubSeqTyped
      <4>3. \A k \in 1..1 : k = 1 /\ <<chunks[i]>>[k] = chunks[i]
        OBVIOUS
      <4>4. \A k \in 1..1 : SubSeq(chunks, i, i)[k] = <<chunks[i]>>[k]
        BY <4>1, <4>2, <4>3
      <4> QED BY <1>2, <4>2, <4>4, SeqEqual
    <3> HIDE DEF end
    <3> QED BY <1>1, <1>3, <3>1, <3>2
  <2>2. end \in [0..n -> 0..n] /\ end[0] = 0 /\ end[n] = n
    BY <1>1
  <2> HIDE DEF end
  <2> QED BY <1>4, <2>1, <2>2 DEF Parts
<1>6. FlattenSeq(messages) = chunks
  <2>1. messages # <<>>
    BY <1>1, <1>4
  <2> HIDE DEF end
  <2> QED BY <1>1, <1>4, <1>5, <2>1, PartsFlatten
<1>7. \A i \in 1..n : Len(messages[i]) \in 1..Sections
  <2>1. 1 \in 1..Sections
    BY DigestAssumption
  <2>2. \A i \in 1..n : Len(messages[i]) = 1
    BY <1>2, <1>3
  <2> QED BY <2>1, <2>2
<1> QED BY <1>4, <1>6, <1>7 DEF Delivers, messages

\* Sections at a time: all of them arrive.
LEMMA SlackDelivers ==
    ASSUME NEW chunks \in ChunkSeqs, chunks # <<>>
    PROVE  Delivers(chunks, SlackMessages(chunks))
<1> DEFINE n == Len(chunks)
           m == (n + Sections - 1) \div Sections
           messages == SlackMessages(chunks)
           end == [i \in 0..m |-> IF i = 0 THEN 0 ELSE SlackEnd(n, i)]
<1>1. n \in Nat \ {0} /\ chunks \in Seq(Seq(Pieces))
  BY DEF ChunkSeqs
<1>2. m \in Nat /\ m >= 1 /\ (m - 1) * Sections < n /\ n <= m * Sections
  BY <1>1, SlackCounts
<1>3. messages = [i \in 1..m |-> SubSeq(chunks, (i - 1) * Sections + 1, SlackEnd(n, i))]
  BY DEF SlackMessages, SlackEnd
<1> HIDE DEF m, n, messages
<1>4. ASSUME NEW i \in 1..m
      PROVE  /\ (i - 1) * Sections \in 0..n - 1
             /\ SlackEnd(n, i) \in (i - 1) * Sections + 1..n
             /\ SlackEnd(n, i) - (i - 1) * Sections <= Sections
             /\ i > 1 => SlackEnd(n, i - 1) = (i - 1) * Sections
             /\ i = m => SlackEnd(n, i) = n
  BY <1>1, <1>2, SlackParts
<1>5. ASSUME NEW i \in 1..m
      PROVE  /\ messages[i] = SubSeq(chunks, (i - 1) * Sections + 1, SlackEnd(n, i))
             /\ messages[i] \in Seq(Seq(Pieces)) /\ Len(messages[i]) \in 1..Sections
  <2> DEFINE b == (i - 1) * Sections + 1
             e == SlackEnd(n, i)
  <2>1. b \in 1..n /\ e \in b..n /\ e - b + 1 \in 1..Sections
    <3>1. Sections \in Nat
      BY DigestAssumption
    <3>2. (i - 1) * Sections \in Int
      BY <3>1
    <3> HIDE DEF e
    <3>3. (i - 1) * Sections \in 0..n - 1 /\ e \in (i - 1) * Sections + 1..n /\ e - (i - 1) * Sections <= Sections
      BY <1>4 DEF e
    <3> QED BY <1>1, <3>1, <3>2, <3>3
  <2>2. messages[i] = SubSeq(chunks, b, e)
    BY <1>3
  <2> HIDE DEF b, e
  <2>3. SubSeq(chunks, b, e) \in Seq(Seq(Pieces)) /\ Len(SubSeq(chunks, b, e)) = e - b + 1
    BY <1>1, <2>1, SubSeqTyped DEF n
  <2> QED BY <2>1, <2>2, <2>3 DEF b, e
<1>6. messages \in Seq(Seq(Seq(Pieces))) /\ Len(messages) = m
  <2>1. messages \in [1..m -> Seq(Seq(Pieces))]
    BY <1>3, <1>5
  <2> QED BY <1>2, <2>1, FunctionIsSeq
<1>7. Parts(chunks, messages, end)
  <2>1. ASSUME NEW i \in 1..m
        PROVE  /\ end[i - 1] = (i - 1) * Sections /\ end[i] = SlackEnd(n, i)
               /\ end[i - 1] < end[i] /\ end[i] \in 0..n
    <3>1. end[i] = SlackEnd(n, i)
      BY <1>2
    <3>2. end[i - 1] = (i - 1) * Sections
      <4>1. CASE i = 1
        <5>1. end[0] = 0 /\ 0 * Sections = 0 /\ i - 1 = 0
          BY <1>2, <4>1, DigestAssumption
        <5> QED BY <5>1
      <4>2. CASE i # 1
        <5>1. i - 1 \in 0..m /\ i - 1 # 0 /\ i > 1
          BY <1>2, <4>2
        <5>2. end[i - 1] = SlackEnd(n, i - 1)
          BY <5>1
        <5> QED BY <1>4, <5>1, <5>2
      <4> QED BY <4>1, <4>2
    <3>3. (i - 1) * Sections \in 0..n - 1 /\ SlackEnd(n, i) \in (i - 1) * Sections + 1..n
      BY <1>4
    <3> HIDE DEF end
    <3> QED BY <1>1, <3>1, <3>2, <3>3
  <2>2. end[0] = 0 /\ end[m] = n
    <3>1. m \in 1..m /\ 0 \in 0..m
      BY <1>2
    <3> QED BY <1>4, <2>1, <3>1
  <2>3. end \in [0..m -> 0..n]
    <3>1. ASSUME NEW i \in 0..m PROVE end[i] \in 0..n
      <4>1. i = 0 \/ i \in 1..m
        BY <1>2
      <4> HIDE DEF end
      <4> QED BY <1>1, <2>1, <2>2, <4>1
    <3> QED BY <3>1
  <2> HIDE DEF end
  <2>4. \A i \in 1..m : messages[i] = SubSeq(chunks, end[i - 1] + 1, end[i])
    BY <1>5, <2>1
  <2> QED BY <1>6, <2>1, <2>2, <2>3, <2>4 DEF Parts, n
<1>8. FlattenSeq(messages) = chunks
  <2>1. messages # <<>>
    BY <1>2, <1>6
  <2> HIDE DEF end
  <2> QED BY <1>1, <1>6, <1>7, <2>1, PartsFlatten
<1> QED BY <1>5, <1>6, <1>8 DEF Delivers, messages

\* The sizes EmbedsSize adds up.
EmbedSizes(message) == [i \in DOMAIN message |-> EmbedSize(message[i])]

\* One more embed adds its size to the message's.
LEMMA EmbedsSizeAppend ==
    ASSUME NEW message \in ChunkSeqs, NEW chunk \in Seq(Pieces)
    PROVE  /\ EmbedsSize(message) \in Nat /\ EmbedSize(chunk) \in Nat
           /\ EmbedsSize(Append(message, chunk)) = EmbedsSize(message) + EmbedSize(chunk)
<1> DEFINE more == Append(message, chunk)
           n == Len(message)
<1>1. /\ message \in ChunkSeqs /\ more \in ChunkSeqs /\ Len(more) = n + 1 /\ n \in Nat
      /\ \A i \in 1..n : more[i] = message[i]
      /\ more[n + 1] = chunk
  BY AppendProperties, LenProperties DEF ChunkSeqs
<1>2. ASSUME NEW c \in Seq(Pieces) PROVE EmbedSize(c) \in Nat
  <2>1. Size(c) \in Nat /\ Frame \in Nat
    BY SizeTyped, DigestAssumption
  <2> QED BY <2>1 DEF EmbedSize
<1>3. ASSUME NEW ms \in ChunkSeqs
      PROVE  /\ EmbedSizes(ms) \in Seq(Nat) /\ Len(EmbedSizes(ms)) = Len(ms)
             /\ \A i \in 1..Len(ms) : EmbedSizes(ms)[i] = EmbedSize(ms[i])
             /\ EmbedsSize(ms) = Total(EmbedSizes(ms))
  <2>1. DOMAIN ms = 1..Len(ms) /\ Len(ms) \in Nat /\ \A i \in 1..Len(ms) : ms[i] \in Seq(Pieces)
    BY DEF ChunkSeqs
  <2>2. /\ EmbedSizes(ms) \in [1..Len(ms) -> Nat]
        /\ \A i \in 1..Len(ms) : EmbedSizes(ms)[i] = EmbedSize(ms[i])
    BY <1>2, <2>1 DEF EmbedSizes
  <2>3. EmbedSizes(ms) \in Seq(Nat) /\ Len(EmbedSizes(ms)) = Len(ms)
    BY <2>1, <2>2, FunctionIsSeq
  <2> QED BY <2>2, <2>3 DEF EmbedsSize, EmbedSizes
<1> HIDE DEF more, n
<1> DEFINE sizes == EmbedSizes(message)
           x == EmbedSize(chunk)
<1>4. /\ sizes \in Seq(Nat) /\ Len(sizes) = n /\ \A i \in 1..n : sizes[i] = EmbedSize(message[i])
      /\ EmbedSizes(more) \in Seq(Nat) /\ Len(EmbedSizes(more)) = n + 1
      /\ \A i \in 1..n + 1 : EmbedSizes(more)[i] = EmbedSize(more[i])
      /\ x \in Nat
  BY <1>1, <1>2, <1>3 DEF n
<1> HIDE DEF sizes, x
<1>5. /\ Append(sizes, x) \in Seq(Nat) /\ Len(Append(sizes, x)) = n + 1
      /\ \A i \in 1..n : Append(sizes, x)[i] = sizes[i]
      /\ Append(sizes, x)[n + 1] = x
  BY <1>4, AppendProperties
<1>6. ASSUME NEW i \in 1..n + 1 PROVE EmbedSizes(more)[i] = Append(sizes, x)[i]
  <2>1. CASE i = n + 1
    BY <2>1, <1>1, <1>4, <1>5 DEF x
  <2>2. CASE i # n + 1
    <3>1. i \in 1..n
      BY <2>2, <1>1
    <3> QED BY <3>1, <1>1, <1>4, <1>5
  <2> QED BY <2>1, <2>2
<1>7. EmbedSizes(more) = Append(sizes, x)
  BY <1>4, <1>5, <1>6, SeqEqual
<1>8. Total(Append(sizes, x)) = Total(sizes) + x /\ Total(sizes) \in Nat
  BY <1>4, TotalAppend, TotalTyped
<1> QED BY <1>1, <1>3, <1>4, <1>7, <1>8 DEF more, sizes, x

\* What discordMessages returns.
MessageSeqs == Seq(ChunkSeqs)

\* A message Discord takes, but for a single embed that is too large.
WithinDiscord(message) ==
    /\ Len(message) \in 1..Sections
    /\ Len(message) > 1 => EmbedsSize(message) <= Embedded

\* The messages after the first j chunks.
GroupInv(chunks, j, messages) ==
    /\ messages \in MessageSeqs /\ messages # <<>>
    /\ FlattenSeq(messages) = SubSeq(chunks, 1, j)
    /\ \A i \in 1..Len(messages) : WithinDiscord(messages[i])

\* One embed is always accepted.
LEMMA SingleIsWithin ==
    ASSUME NEW c \in Seq(Pieces) PROVE <<c>> \in ChunkSeqs /\ WithinDiscord(<<c>>)
  BY OneIsSeq, DigestAssumption DEF WithinDiscord, ChunkSeqs

\* The loop starts with a message in which there is nothing.
LEMMA EmptyMessages ==
    LET empty == <<(<<>>)>>
    IN  /\ empty \in MessageSeqs /\ empty # <<>> /\ Len(empty) = 1 /\ empty[1] = <<>>
        /\ <<>> \in ChunkSeqs /\ FlattenSeq(empty) = <<>>
<1> DEFINE empty == <<(<<>>)>>
<1>1. <<>> \in ChunkSeqs
  BY DEF ChunkSeqs
<1>2. empty \in MessageSeqs /\ empty # <<>> /\ Len(empty) = 1 /\ empty[1] = <<>>
      /\ empty = Append(<<>>, <<>>) /\ <<>> \in Seq(ChunkSeqs)
  BY <1>1, OneIsSeq DEF MessageSeqs
<1> HIDE DEF empty
<1>3. FlattenSeq(empty) = <<>>
  <2>1. FlattenSeq(Append(<<>>, <<>>)) = FlattenSeq(<<>>) \o <<>>
    BY <1>1, <1>2, FlattenAppend DEF ChunkSeqs
  <2> QED BY <1>2, <2>1, FlattenNone, ConcatEmptySeq
<1> QED BY <1>1, <1>2, <1>3 DEF empty

\* A turn of the loop leaves messages, of which there is at least one.
LEMMA GroupNextTyped ==
    ASSUME NEW messages \in MessageSeqs \ {<<>>}, NEW c \in Seq(Pieces)
    PROVE  GroupNext(messages, c) \in MessageSeqs \ {<<>>}
<1> DEFINE last == Last(messages)
           grown == Append(last, c)
           one == <<c>>
           n == Len(messages)
<1>1. messages \in Seq(ChunkSeqs) /\ n \in 1..Len(messages)
  BY DEF MessageSeqs
<1>2. last \in ChunkSeqs
  BY <1>1 DEF Last
<1> HIDE DEF last
<1>3. grown \in ChunkSeqs /\ one \in ChunkSeqs
  BY <1>2, AppendProperties, OneIsSeq DEF ChunkSeqs
<1> HIDE DEF grown, one, n
<1>4. Append(messages, one) \in Seq(ChunkSeqs) /\ Append(messages, one) # <<>>
  BY <1>1, <1>3, AppendProperties
<1>5. /\ [messages EXCEPT ![n] = grown] \in Seq(ChunkSeqs)
      /\ Len([messages EXCEPT ![n] = grown]) = Len(messages)
  BY <1>1, <1>3, ExceptSeq
<1>6. [messages EXCEPT ![n] = grown] # <<>>
  BY <1>1, <1>5
<1>7. GroupNext(messages, c) \in {Append(messages, one), [messages EXCEPT ![n] = grown]}
  BY DEF GroupNext, last, grown, one, n
<1> QED BY <1>4, <1>5, <1>6, <1>7 DEF MessageSeqs

\* The first chunk goes to the message that is there.
LEMMA GroupBegins ==
    ASSUME NEW chunks \in ChunkSeqs, chunks # <<>>
    PROVE  GroupInv(chunks, 1, GroupNext(<<(<<>>)>>, chunks[1]))
<1> DEFINE empty == <<(<<>>)>>
           c == chunks[1]
           one == <<c>>
           new == GroupNext(empty, c)
           n == Len(empty)
<1>1. /\ chunks \in Seq(Seq(Pieces)) /\ c \in Seq(Pieces) /\ 1 \in 1..Len(chunks)
  BY DEF ChunkSeqs
<1>2. /\ empty \in MessageSeqs /\ empty # <<>> /\ Len(empty) = 1 /\ empty[1] = <<>>
      /\ FlattenSeq(empty) = <<>> /\ <<>> \in ChunkSeqs
  BY EmptyMessages
<1> HIDE DEF empty, c
<1>3. one \in ChunkSeqs /\ WithinDiscord(one) /\ Append(<<>>, c) = one
  BY <1>1, SingleIsWithin, OneIsSeq
<1>4. Last(empty) = <<>>
  BY <1>2 DEF Last
<1> HIDE DEF one
<1>5. new = [empty EXCEPT ![n] = one]
  BY <1>3, <1>4 DEF GroupNext
<1>6. n \in 1..Len(empty) /\ n = 1
  BY <1>2
<1> HIDE DEF new, n
<1>7. /\ new \in Seq(ChunkSeqs) /\ Len(new) = Len(empty)
      /\ \A j \in 1..Len(empty) : new[j] = IF j = n THEN one ELSE empty[j]
  <2>1. empty \in Seq(ChunkSeqs)
    BY <1>2 DEF MessageSeqs
  <2> QED BY <1>3, <1>5, <1>6, <2>1, ExceptSeq
<1>8. Len(new) = 1 /\ new[1] = one /\ new # <<>>
  BY <1>2, <1>6, <1>7
<1>9. FlattenSeq(new) = one
  <2>1. /\ Append(<<>>, one) \in Seq(ChunkSeqs) /\ Len(Append(<<>>, one)) = 1
        /\ Append(<<>>, one)[1] = one /\ <<>> \in Seq(ChunkSeqs)
    <3>1. <<>> \in Seq(ChunkSeqs) /\ Len(<<>>) = 0 /\ 0 + 1 = 1
      OBVIOUS
    <3> QED BY <1>3, <3>1, AppendProperties
  <2>2. \A j \in 1..1 : new[j] = Append(<<>>, one)[j]
    <3>1. \A j \in 1..1 : j = 1
      OBVIOUS
    <3> QED BY <1>8, <2>1, <3>1
  <2>3. new = Append(<<>>, one)
    BY <1>7, <1>8, <2>1, <2>2, SeqEqual
  <2>4. FlattenSeq(Append(<<>>, one)) = FlattenSeq(<<>>) \o one
    BY <1>3, <2>1, FlattenAppend DEF ChunkSeqs
  <2> QED BY <1>3, <2>3, <2>4, FlattenNone, ConcatEmptySeq DEF ChunkSeqs
<1>10. SubSeq(chunks, 1, 1) = one
  <2>1. 1 \in 1..Len(chunks) /\ 1 - 1 + 1 = 1 /\ 1 + 1 - 1 = 1 /\ 1 \in 1..1
    BY <1>1
  <2>2. /\ SubSeq(chunks, 1, 1) \in Seq(Seq(Pieces)) /\ Len(SubSeq(chunks, 1, 1)) = 1
        /\ SubSeq(chunks, 1, 1)[1] = c
    BY <1>1, <2>1, SubSeqTyped DEF c
  <2>3. one \in Seq(Seq(Pieces)) /\ Len(one) = 1 /\ one[1] = c
    BY <1>1, <1>3, OneIsSeq DEF one
  <2>4. \A j \in 1..1 : SubSeq(chunks, 1, 1)[j] = one[j]
    <3>1. \A j \in 1..1 : j = 1
      OBVIOUS
    <3> QED BY <2>2, <2>3, <3>1
  <2> QED BY <2>2, <2>3, <2>4, SeqEqual
<1>11. \A i \in 1..Len(new) : WithinDiscord(new[i])
  <2>1. \A i \in 1..Len(new) : i = 1
    BY <1>8
  <2> QED BY <1>3, <1>8, <2>1
<1> QED BY <1>7, <1>8, <1>9, <1>10, <1>11 DEF GroupInv, MessageSeqs, new, empty, c

\* A chunk goes to the last message, or begins one when that is full.
LEMMA GroupGoesOn ==
    ASSUME NEW chunks \in ChunkSeqs, NEW j \in 1..Len(chunks) - 1,
           NEW messages, GroupInv(chunks, j, messages)
    PROVE  GroupInv(chunks, j + 1, GroupNext(messages, chunks[j + 1]))
<1> DEFINE c == chunks[j + 1]
           new == GroupNext(messages, c)
           last == Last(messages)
           grown == Append(last, c)
           one == <<c>>
           n == Len(messages)
<1>1. /\ messages \in MessageSeqs /\ messages \in Seq(ChunkSeqs) /\ messages # <<>>
      /\ FlattenSeq(messages) = SubSeq(chunks, 1, j)
      /\ \A i \in 1..Len(messages) : WithinDiscord(messages[i])
  BY DEF GroupInv, MessageSeqs
<1>2. j \in Nat /\ j >= 1 /\ j \in 1..Len(chunks) /\ j + 1 \in 1..Len(chunks) /\ (j + 1) - 1 = j
      /\ 1 \in 1..Len(chunks) /\ j + 1 \in 1..Len(chunks)
  OBVIOUS
<1>3. chunks \in Seq(Seq(Pieces)) /\ c \in Seq(Pieces)
  BY <1>2 DEF ChunkSeqs
<1>4. n \in Nat /\ n >= 1 /\ n \in 1..Len(messages)
  BY <1>1
<1>5. last \in ChunkSeqs /\ WithinDiscord(last) /\ last = messages[n]
  BY <1>1, <1>4 DEF Last
<1> HIDE DEF c, last
<1>6. last # <<>> /\ Len(last) \in 1..Sections
  BY <1>5, DigestAssumption DEF WithinDiscord
<1>7. /\ SubSeq(chunks, 1, j) \in Seq(Seq(Pieces))
      /\ SubSeq(chunks, 1, j + 1) = SubSeq(chunks, 1, j) \o one
      /\ SubSeq(chunks, 1, j + 1) = Append(SubSeq(chunks, 1, j), c)
  <2>1. SubSeq(chunks, 1, j) \in Seq(Seq(Pieces))
    BY <1>2, <1>3, SubSeqTyped
  <2>2. SubSeq(chunks, 1, j + 1) = SubSeq(chunks, 1, j) \o <<chunks[j + 1]>>
    BY <1>2, <1>3, SubSeqRecursiveSecond
  <2>3. Append(SubSeq(chunks, 1, j), c) = SubSeq(chunks, 1, j) \o <<c>>
    BY <1>3, <2>1, AppendIsConcat
  <2> QED BY <2>1, <2>2, <2>3 DEF c
<1>8. one \in ChunkSeqs /\ WithinDiscord(one)
  BY <1>3, SingleIsWithin
<1>9. /\ grown \in ChunkSeqs /\ Len(grown) = Len(last) + 1
      /\ EmbedsSize(grown) = EmbedsSize(last) + EmbedSize(c)
      /\ EmbedsSize(last) + EmbedSize(c) \in Nat
  BY <1>3, <1>5, AppendProperties, EmbedsSizeAppend DEF ChunkSeqs
<1> HIDE DEF one, grown, n
<1>10. CASE Len(last) = Sections \/ EmbedsSize(last) + EmbedSize(c) > Embedded
  <2>1. new = Append(messages, one)
    BY <1>6, <1>10 DEF GroupNext, last, one
  <2> HIDE DEF new
  <2>2. /\ new \in Seq(ChunkSeqs) /\ new # <<>> /\ Len(new) = n + 1
        /\ \A i \in 1..n : new[i] = messages[i]
        /\ new[n + 1] = one
    BY <1>1, <1>8, <2>1, AppendProperties DEF n
  <2>3. FlattenSeq(new) = SubSeq(chunks, 1, j + 1)
    BY <1>1, <1>7, <1>8, <2>1, FlattenAppend DEF ChunkSeqs
  <2>4. ASSUME NEW i \in 1..Len(new) PROVE WithinDiscord(new[i])
    <3>1. i \in 1..n \/ i = n + 1
      BY <1>4, <2>2
    <3> QED BY <1>1, <1>8, <2>2, <3>1 DEF n
  <2>5. GroupInv(chunks, j + 1, new)
    BY <2>2, <2>3, <2>4 DEF GroupInv, MessageSeqs
  <2> QED BY <2>5 DEF new, c
<1>11. CASE ~(Len(last) = Sections \/ EmbedsSize(last) + EmbedSize(c) > Embedded)
  <2>1. new = [messages EXCEPT ![n] = grown]
    BY <1>11 DEF GroupNext, last, grown, n
  <2> HIDE DEF new
  <2>2. /\ new \in Seq(ChunkSeqs) /\ Len(new) = n
        /\ \A i \in 1..n : new[i] = IF i = n THEN grown ELSE messages[i]
    BY <1>1, <1>4, <1>9, <2>1, ExceptSeq DEF n
  <2>3. new # <<>>
    BY <1>4, <2>2
  <2>4. FlattenSeq(new) = SubSeq(chunks, 1, j + 1)
    <3>1. new = [messages EXCEPT ![Len(messages)] = Append(Last(messages), c)]
      BY <2>1 DEF n, grown, last
    <3>2. messages \in Seq(Seq(Seq(Pieces)))
      BY <1>1 DEF ChunkSeqs
    <3>3. FlattenSeq(new) = Append(FlattenSeq(messages), c)
      BY <1>1, <1>3, <3>1, <3>2, FlattenGrows
    <3> QED BY <1>1, <1>7, <3>3
  <2>5. WithinDiscord(grown)
    BY <1>6, <1>9, <1>11, DigestAssumption DEF WithinDiscord
  <2>6. ASSUME NEW i \in 1..Len(new) PROVE WithinDiscord(new[i])
    BY <1>1, <2>2, <2>5 DEF n
  <2>7. GroupInv(chunks, j + 1, new)
    BY <2>2, <2>3, <2>4, <2>6 DEF GroupInv, MessageSeqs
  <2> QED BY <2>7 DEF new, c
<1> QED BY <1>10, <1>11

\* After the loop the messages have all chunks.
LEMMA DiscordDelivers ==
    ASSUME NEW chunks \in ChunkSeqs, chunks # <<>>
    PROVE  GroupInv(chunks, Len(chunks), DiscordMessages(chunks))
<1> DEFINE n == Len(chunks)
           V == MessageSeqs \ {<<>>}
           empty == <<(<<>>)>>
           next == [i \in 0 + 1..n |-> [v \in V |-> GroupNext(v, chunks[i])]]
           IsIt(g) == g = [i \in 0..n |-> IF i = 0 THEN empty ELSE GroupNext(g[i - 1], chunks[i])]
           h == CHOOSE g : IsIt(g)
<1>1. n \in Nat /\ n >= 1 /\ \A i \in 1..n : chunks[i] \in Seq(Pieces)
  BY DEF ChunkSeqs
<1>2. empty \in V
  BY EmptyMessages
<1> HIDE DEF empty
<1>3. PICK f : Climbs(f, 0, n, V, empty, next)
  <2>1. ASSUME NEW i \in 0 + 1..n, NEW v \in V PROVE GroupNext(v, chunks[i]) \in V
    BY <1>1, GroupNextTyped
  <2>2. Climbable(0, n, V, empty, next)
    <3> HIDE DEF V
    <3> QED BY <1>2, <2>1 DEF Climbable
  <2> HIDE DEF next, n, V
  <2> QED BY <2>2, <1>1, Recursion
<1>4. /\ f \in [0..n -> V] /\ f[0] = empty
      /\ \A i \in 1..n : f[i] = GroupNext(f[i - 1], chunks[i])
  <2>1. ASSUME NEW i \in 1..n PROVE f[i] = GroupNext(f[i - 1], chunks[i])
    <3>1. i \in 0 + 1..n /\ i - 1 \in 0..n
      BY <1>1
    <3>2. f[i] = next[i][f[i - 1]] /\ f[i - 1] \in V
      <4> HIDE DEF next, n, V
      <4> QED BY <3>1, <1>3 DEF Climbs
    <3> HIDE DEF V
    <3> QED BY <3>1, <3>2
  <2> HIDE DEF V, next, n
  <2> QED BY <1>3, <2>1 DEF Climbs
<1> HIDE DEF V
<1>5. IsIt(f)
  <2>1. ASSUME NEW i \in 0..n
        PROVE  f[i] = IF i = 0 THEN empty ELSE GroupNext(f[i - 1], chunks[i])
    <3>1. i = 0 \/ i \in 1..n
      BY <1>1
    <3> QED BY <1>1, <1>4, <3>1
  <2> QED BY <1>4, <2>1
<1>6. IsIt(h)
  <2> HIDE DEF IsIt
  <2> QED BY <1>5
<1>7. DiscordMessages(chunks) = h[n]
  BY DEF DiscordMessages, empty
<1> HIDE DEF h
<1>8. Alike(h, f, 0, n)
  <2>1. h[0] = empty
    BY <1>1, <1>6
  <2>2. ASSUME NEW i \in 0 + 1..n PROVE h[i] = GroupNext(h[i - 1], chunks[i])
    <3>1. i \in 0..n /\ i # 0
      BY <1>1
    <3> QED BY <1>6, <3>1
  <2>3. \A i \in 0 + 1..n : f[i] = GroupNext(f[i - 1], chunks[i])
    BY <1>4
  <2> HIDE DEF IsIt, n
  <2> QED BY <1>4, <2>1, <2>2, <2>3 DEF Alike
<1>9. h[n] = f[n]
  BY <1>1, <1>8, Uniqueness
<1> DEFINE S == {i \in 1..n : GroupInv(chunks, i, f[i])}
<1>10. 1 \in S
  <2>1. f[1] = GroupNext(empty, chunks[1])
    <3>1. 1 \in 1..n /\ 1 - 1 = 0
      BY <1>1
    <3> QED BY <1>4, <3>1
  <2>2. GroupInv(chunks, 1, f[1])
    BY <2>1, GroupBegins DEF empty
  <2> QED BY <1>1, <2>2
<1>11. ASSUME NEW i \in 1..n - 1, i \in S PROVE i + 1 \in S
  <2>1. i + 1 \in 1..n /\ (i + 1) - 1 = i
    BY <1>1
  <2>2. f[i + 1] = GroupNext(f[i], chunks[i + 1])
    BY <1>4, <2>1
  <2>3. GroupInv(chunks, i, f[i])
    BY <1>11
  <2>4. GroupInv(chunks, i + 1, f[i + 1])
    BY <2>2, <2>3, GroupGoesOn
  <2> QED BY <2>1, <2>4
<1> HIDE DEF S
<1>12. n \in S
  <2>1. Hereditary(S, 1, n)
    BY <1>10, <1>11 DEF Hereditary
  <2>2. n \in 1..n
    BY <1>1
  <2> HIDE DEF n
  <2> QED BY <1>1, <2>1, <2>2, Induction
<1> QED BY <1>7, <1>9, <1>12 DEF S

(***************************************************************************)
(* Whatever a digest says of however many targets, and whatever the limits *)
(* of the services are: its messages tell all of it in order, each chunk   *)
(* names its targets and fits, no cut would make fewer chunks, and no      *)
(* message has more of them than the service takes (pack, discordMessages, *)
(* slackMessages).                                                         *)
(***************************************************************************)
THEOREM CuttingLosesNothing ==
    ASSUME NEW d \in Seq(Block), d # <<>>, NEW service \in {"telegram", "discord", "slack"}
    PROVE  IsWhole(service, d)
<1> DEFINE budget == Budget(service)
           chunks == Pack(d, budget)
           messages == Rendered(service, d)
           n == Len(chunks)
<1>1. budget \in Nat
  BY DigestAssumption DEF Budget
<1> HIDE DEF budget
<1>2. PackInv(d, budget, Len(d), chunks)
  BY <1>1, PackIsRight
<1>3. /\ chunks \in ChunkSeqs /\ chunks # <<>> /\ Told(chunks) = SubSeq(d, 1, Len(d))
      /\ \A k \in 1..n : IsRight(chunks[k], budget)
      /\ n \in Nat /\ DOMAIN chunks = 1..n
  BY <1>2 DEF PackInv, ChunkSeqs
<1>4. Told(chunks) = d
  BY <1>3, SubSeqFull
<1>5. \A cuts \in SUBSET (1..Len(d) - 1) : n <= ChunksOf(d, cuts, budget)
  BY <1>1, <1>2, ChunksAreFew
<1> HIDE DEF chunks, messages, n
<1>6. /\ FlattenSeq(messages) = chunks
      /\ \A i \in DOMAIN messages :
            /\ Len(messages[i]) \in 1..Sections
            /\ service = "discord" /\ Len(messages[i]) > 1 => EmbedsSize(messages[i]) <= Embedded
  <2>1. CASE service = "telegram"
    <3>1. messages = TelegramMessages(chunks)
      BY <2>1 DEF messages, Rendered, chunks, budget
    <3>2. Delivers(chunks, messages)
      BY <1>3, <3>1, TelegramDelivers
    <3>3. DOMAIN messages = 1..Len(messages)
      BY <3>2 DEF Delivers
    <3> QED BY <2>1, <3>2, <3>3 DEF Delivers
  <2>2. CASE service = "slack"
    <3>1. messages = SlackMessages(chunks)
      BY <2>2 DEF messages, Rendered, chunks, budget
    <3>2. Delivers(chunks, messages)
      BY <1>3, <3>1, SlackDelivers
    <3>3. DOMAIN messages = 1..Len(messages)
      BY <3>2 DEF Delivers
    <3> QED BY <2>2, <3>2, <3>3 DEF Delivers
  <2>3. CASE service = "discord"
    <3>1. messages = DiscordMessages(chunks)
      BY <2>3 DEF messages, Rendered, chunks, budget
    <3>2. GroupInv(chunks, Len(chunks), messages)
      BY <1>3, <3>1, DiscordDelivers
    <3>3. DOMAIN messages = 1..Len(messages)
      BY <3>2 DEF GroupInv, MessageSeqs
    <3>4. FlattenSeq(messages) = chunks
      <4>1. FlattenSeq(messages) = SubSeq(chunks, 1, Len(chunks))
        BY <3>2 DEF GroupInv
      <4>2. chunks \in Seq(Seq(Pieces))
        BY <1>3 DEF ChunkSeqs
      <4> QED BY <4>1, <4>2, SubSeqFull
    <3> QED BY <3>2, <3>3, <3>4 DEF GroupInv, WithinDiscord
  <2> QED BY <2>1, <2>2, <2>3
<1>7. FlattenSeq([i \in DOMAIN chunks |-> Blocks(chunks[i])]) = d
  BY <1>4 DEF Told
<1>8. \A i \in DOMAIN chunks :
         chunks[i] = Chunk(Blocks(chunks[i])) /\ Fits(Blocks(chunks[i]), Budget(service))
  BY <1>3 DEF IsRight, budget
<1>9. \A cuts \in SUBSET (1..Len(d) - 1) : Len(chunks) <= ChunksOf(d, cuts, Budget(service))
  BY <1>5 DEF n, budget
<1> QED BY <1>6, <1>7, <1>8, <1>9 DEF IsWhole, messages

\* A digest is cut only while it is still there, for the notifier that asked.
DigestInv ==
    digest # <<>> => via \in {"telegram", "discord", "slack"} /\ digest \in Digests

(***************************************************************************)
(* Nothing of any digest a notifier is given is lost, repeated or cut off  *)
(* where it is cut into messages (pack and the functions that call it).    *)
(***************************************************************************)
THEOREM DigestsStayWhole == TransportSpec => []DigestsAreWhole
<1>1. TransportInit => DigestInv
  BY DEF TransportInit, DigestInv
<1>2. DigestInv /\ [TransportNext]_transportVars => DigestInv'
  BY DEF DigestInv, TransportNext, transportVars, Render, PostNext, SendMailNext, Elsewhere
<1>3. DigestInv => DigestsAreWhole
  BY CuttingLosesNothing, DigestsAssumption DEF DigestInv, DigestsAreWhole
<1>4. QED
  BY <1>1, <1>2, <1>3, PTL DEF TransportSpec
=============================================================================
