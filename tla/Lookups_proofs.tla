--------------------------- MODULE Lookups_proofs ---------------------------
(***************************************************************************)
(* Proofs about the lookups of a run: about SingleFlight, by which all who *)
(* ask the same get one answer, for any set of callers, and about Resolver,*)
(* which asks the servers, for any servers, types and domains.             *)
(***************************************************************************)
EXTENDS SingleFlight, Resolver, TLAPS

\* Setting a flag of an entry leaves an entry.
LEMMA EntryTyped ==
    ASSUME NEW e \in Entry
    PROVE  [e EXCEPT !.done = TRUE] \in Entry /\ [e EXCEPT !.retry = TRUE] \in Entry
  BY DEF Entry

\* Initially nobody has asked.
LEMMA InitHolds == Init => FlightInv
  BY CallerAssumption DEF Init, FlightInv, Entry, TypeOK, SlotInv, EntryInv, EntryOK, WaitInv,
     AnswersAreAnswers, Working, NoEntry, States, Outcomes

\* The invariant is inductive: one case per action.
LEMMA StepHolds == FlightInv /\ [Next]_vars => FlightInv'
<1> SUFFICES ASSUME FlightInv, [Next]_vars PROVE FlightInv'
  OBVIOUS
<1> USE CallerAssumption DEF FlightInv, TypeOK, SlotInv, EntryInv, EntryOK, WaitInv, Working,
        AnswersAreAnswers, Answer, Kept, Goto, NoEntry, Entry, States, Outcomes, IsError
<1>1. ASSUME NEW c \in Callers, Lead(c) PROVE FlightInv'
  <2>1. /\ pc' = [pc EXCEPT ![c] = "running"]
        /\ entry[c] = NoEntry
        /\ slot = Nobody /\ slot' = c
        /\ UNCHANGED <<ended, waitsFor>>
    BY <1>1 DEF Lead
  <2>2. /\ \A d \in Callers \ {c} : entry'[d] = entry[d]
        /\ entry'[c].out = "none"
        /\ entry'[c].retry
        /\ ~entry'[c].done
    BY <1>1, <2>1 DEF Lead
  <2>3. \A d \in Callers : pc[d] # "answered"
    BY <2>1
  <2>4. TypeOK'
    <3>1. entry' = [entry EXCEPT ![c] = [entry[c] EXCEPT !.retry = TRUE]]
      BY <1>1 DEF Lead
    <3>2. entry' \in [Callers -> Entry]
      BY ONLY TypeOK, <3>1, EntryTyped DEF TypeOK
    <3>3. QED
      BY <2>1, <3>2
  <2>5. SlotInv' /\ WaitInv' /\ AnswersAreAnswers'
    BY <2>1, <2>2, <2>3
  <2>6. EntryInv'
    <3>1. EntryOK(c)'
      BY <2>1, <2>2
    <3>2. ASSUME NEW d \in Callers \ {c} PROVE EntryOK(d)'
      <4>1. entry'[d] = entry[d] /\ pc'[d] = pc[d] /\ slot # d /\ slot' # d /\ ended' = ended
        BY <2>1, <2>2
      <4>2. QED
        BY ONLY EntryInv, <3>2, <4>1 DEF EntryInv, EntryOK
    <3>3. QED
      BY <3>1, <3>2 DEF EntryInv
  <2>7. QED
    BY <2>4, <2>5, <2>6
<1>2. ASSUME NEW c \in Callers, Join(c) PROVE FlightInv'
  BY <1>2 DEF Join
<1>3. ASSUME NEW c \in Callers, FnReturns(c) PROVE FlightInv'
  BY <1>3 DEF FnReturns
<1>4. ASSUME NEW c \in Callers, FnPanics(c) PROVE FlightInv'
  BY <1>4 DEF FnPanics
<1>5. ASSUME NEW c \in Callers, Judge(c) PROVE FlightInv'
  BY <1>5 DEF Judge
<1>6. ASSUME NEW c \in Callers, Clean(c) PROVE FlightInv'
  BY <1>6 DEF Clean
<1>7. ASSUME NEW c \in Callers, Close(c) PROVE FlightInv'
  <2>1. /\ pc[c] = "closing"
        /\ pc' = [pc EXCEPT ![c] = IF entry[c].retry THEN "gaveUp" ELSE "answered"]
        /\ UNCHANGED <<slot, ended, waitsFor>>
    BY <1>7 DEF Close
  <2>2. /\ \A d \in Callers \ {c} : entry'[d] = entry[d]
        /\ entry'[c].out = entry[c].out
        /\ entry'[c].retry = entry[c].retry
        /\ entry'[c].done
    BY <1>7 DEF Close
  <2>3. TypeOK'
    <3>1. entry' = [entry EXCEPT ![c] = [entry[c] EXCEPT !.done = TRUE]]
      BY <1>7 DEF Close
    <3>2. entry' \in [Callers -> Entry]
      BY ONLY TypeOK, <3>1, EntryTyped DEF TypeOK
    <3>3. QED
      BY <2>1, <3>2
  <2>4. SlotInv'
    BY <2>1, <2>2
  <2>5. EntryInv'
    <3>1. EntryOK(c)'
      BY <2>1, <2>2
    <3>2. ASSUME NEW d \in Callers \ {c} PROVE EntryOK(d)'
      <4>1. entry'[d] = entry[d] /\ pc'[d] = pc[d] /\ slot' = slot /\ ended' = ended
        BY <2>1, <2>2
      <4>2. QED
        BY ONLY EntryInv, <3>2, <4>1 DEF EntryInv, EntryOK
    <3>3. QED
      BY <3>1, <3>2 DEF EntryInv
  <2>6. WaitInv'
    BY <2>1
  <2>7. CASE entry[c].retry
    BY <2>1, <2>2, <2>3, <2>4, <2>5, <2>6, <2>7
  <2>8. CASE ~entry[c].retry
    <3>1. slot = c /\ slot' = c /\ ~entry'[c].retry
      BY <2>1, <2>2, <2>8
    <3>2. Answer = c /\ Answer' = c
      BY <2>8, <3>1
    <3>3. AnswersAreAnswers'
      BY <2>1, <2>2, <2>8, <3>2
    <3>4. QED
      BY <2>3, <2>4, <2>5, <2>6, <3>3
  <2>9. QED
    BY <2>7, <2>8
<1>8. ASSUME NEW c \in Callers, Receive(c) PROVE FlightInv'
  BY <1>8 DEF Receive
<1>9. ASSUME NEW c \in Callers, GiveUp(c) PROVE FlightInv'
  BY <1>9 DEF GiveUp
<1>10. ASSUME NEW c \in Callers, EndContext(c) PROVE FlightInv'
  BY <1>10 DEF EndContext
<1>11. CASE UNCHANGED vars
  BY <1>11 DEF vars
<1>12. QED
  BY <1>1, <1>2, <1>3, <1>4, <1>5, <1>6, <1>7, <1>8, <1>9, <1>10, <1>11 DEF Next, Step, Done

(***************************************************************************)
(* The invariant holds in every reachable state (fill and Memoize: who may *)
(* delete and close which entry when).                                     *)
(***************************************************************************)
THEOREM FlightInvariant == Spec => []FlightInv
  BY InitHolds, StepHolds, PTL DEF Spec

(***************************************************************************)
(* fn runs for one caller at a time, and for none beside a kept answer     *)
(* ("running fn at most once per run", Memoize).                           *)
(***************************************************************************)
THEOREM OneComputation == Spec => []OneAtATime
<1>1. FlightInv => OneAtATime
  BY CallerAssumption DEF FlightInv, TypeOK, SlotInv, EntryInv, EntryOK, Working, OneAtATime, Kept
<1>2. QED
  BY <1>1, FlightInvariant, PTL

(***************************************************************************)
(* Whoever is answered gets what fn returned to the one leader whose entry *)
(* stays (Memoize and Cache.lookup: the retry loop).                       *)
(***************************************************************************)
THEOREM OneRealAnswer == Spec => []AnswersAreAnswers
<1>1. FlightInv => AnswersAreAnswers
  BY DEF FlightInv
<1>2. QED
  BY <1>1, FlightInvariant, PTL

(***************************************************************************)
(* No caller waits on an entry that is already given up (the order of      *)
(* fill's deferred calls).                                                 *)
(***************************************************************************)
THEOREM NobodyJoinsTheDead == Spec => JoinsLiveWork
<1>1. ASSUME FlightInv, [Next]_vars, NEW c \in Callers, pc[c] = "start", pc'[c] = "waiting"
      PROVE  ~(entry[slot].done /\ entry[slot].retry)
  <2>1. slot \in Callers
    <3>1. Join(c)
      BY <1>1 DEF FlightInv, TypeOK, Next, Step, Done, vars, Lead, Join, FnReturns, FnPanics,
         Judge, Clean, Close, Receive, GiveUp, EndContext, Goto
    <3>2. QED
      BY <1>1, <3>1 DEF Join, FlightInv, TypeOK
  <2>2. EntryOK(slot)
    BY <1>1, <2>1 DEF FlightInv, EntryInv
  <2>3. Working(slot) \/ ~entry[slot].retry
    BY <1>1, <2>1 DEF FlightInv, SlotInv
  <2>4. QED
    BY <2>2, <2>3 DEF EntryOK, Working
<1>2. FlightInv /\ [Next]_vars =>
        [\A c \in Callers : pc[c] = "start" /\ pc'[c] = "waiting" =>
            ~(entry[slot].done /\ entry[slot].retry)]_vars
  BY <1>1
<1>3. QED
  BY <1>2, FlightInvariant, PTL DEF JoinsLiveWork, Spec

-----------------------------------------------------------------------------
\* An entry that is not kept leaves the shared answer unset.
LEMMA AnswerOf ==
    ASSUME FlightInv
    PROVE  /\ slot = Nobody => Answer = Nobody
           /\ \A c \in Callers : slot = c => Answer = (IF entry[c].retry THEN Nobody ELSE c)
  BY CallerAssumption DEF FlightInv, TypeOK, Answer, Kept

\* The same one step later.
LEMMA AnswerOfPrimed ==
    ASSUME FlightInv'
    PROVE  /\ slot' = Nobody => Answer' = Nobody
           /\ \A c \in Callers : slot' = c => Answer' = (IF entry'[c].retry THEN Nobody ELSE c)
  BY CallerAssumption DEF FlightInv, TypeOK, Answer, Kept

\* What a step of one caller does to the outcomes.
LEMMA OutcomeMoves ==
    ASSUME TypeOK, NEW c \in Callers, NEW state \in States, Goto(c, state)
    PROVE  Outcome' = [Outcome EXCEPT ![c] = OutcomeAt(state)]
  BY DEF TypeOK, Goto, Outcome

\* A caller that does not return has the outcome it had.
LEMMA OutcomeStays ==
    ASSUME TypeOK, NEW c \in Callers, NEW state \in States, Goto(c, state),
           pc[c] \notin {"answered", "gaveUp"}, state \notin {"answered", "gaveUp"}
    PROVE  Outcome' = Outcome
<1>1. \A d \in Callers : OutcomeAt(pc'[d]) = OutcomeAt(pc[d])
  <2> SUFFICES ASSUME NEW d \in Callers PROVE OutcomeAt(pc'[d]) = OutcomeAt(pc[d])
    OBVIOUS
  <2>1. CASE d = c
    BY <2>1 DEF TypeOK, Goto, OutcomeAt
  <2>2. CASE d # c
    BY <2>2 DEF TypeOK, Goto
  <2>3. QED
    BY <2>1, <2>2
<1>2. QED
  BY <1>1 DEF Outcome

\* A step that leaves the outcomes, the excuses and the answer alone.
LEMMA Stutters ==
    ASSUME FlightInv, FlightInv', Outcome' = Outcome, Excused' = Excused, Answer' = Answer
    PROVE  UNCHANGED Shared!vars
  BY DEF Shared!vars

(***************************************************************************)
(* Memoize and Cache.lookup implement SharedAnswer: who leads, retries and *)
(* waits is not observable in what the callers get.                        *)
(***************************************************************************)
THEOREM SharingIsInvisible == Spec => ImplementsSharedAnswer
<1>1. Init => Shared!Init
  BY CallerAssumption DEF Init, Shared!Init, Answer, Kept, Outcome, OutcomeAt, Excused, NoEntry
<1>2. FlightInv /\ FlightInv' /\ [Next]_vars => [Shared!Next]_(Shared!vars)
  <2> SUFFICES ASSUME FlightInv, FlightInv', [Next]_vars
               PROVE  Shared!Next \/ UNCHANGED Shared!vars
    OBVIOUS
  <2> USE DEF FlightInv
  <2>1. ASSUME NEW c \in Callers, Lead(c) PROVE UNCHANGED Shared!vars
    <3>1. Outcome' = Outcome
      BY <2>1, OutcomeStays DEF Lead, States
    <3>2. Excused' = Excused
      BY <2>1 DEF Lead, Excused, TypeOK, Entry
    <3>3. Answer' = Answer
      BY <2>1, AnswerOf, AnswerOfPrimed DEF Lead, TypeOK, Entry
    <3>4. QED
      BY <3>1, <3>2, <3>3, Stutters
  <2>2. ASSUME NEW c \in Callers, Join(c) PROVE UNCHANGED Shared!vars
    <3>1. Outcome' = Outcome
      BY <2>2, OutcomeStays DEF Join, States
    <3>2. QED
      BY <2>2, <3>1 DEF Join, Shared!vars, Excused, Answer, Kept
  <2>3. ASSUME NEW c \in Callers, FnReturns(c) PROVE UNCHANGED Shared!vars
    <3>1. Outcome' = Outcome
      BY <2>3, OutcomeStays DEF FnReturns, States
    <3>2. Excused' = Excused
      BY <2>3 DEF FnReturns, Excused, TypeOK, Entry, EntryInv, EntryOK
    <3>3. Answer' = Answer
      <4>1. slot = c /\ slot' = c
        BY <2>3 DEF FnReturns, SlotInv, Working
      <4>2. entry[c].retry /\ entry'[c].retry
        BY <2>3 DEF FnReturns, EntryInv, EntryOK, Goto, TypeOK
      <4>3. QED
        BY <4>1, <4>2, AnswerOf, AnswerOfPrimed
    <3>4. QED
      BY <3>1, <3>2, <3>3, Stutters
  <2>4. ASSUME NEW c \in Callers, FnPanics(c) PROVE Shared!Excuse(c)
    <3>1. Outcome' = Outcome
      BY <2>4, OutcomeStays DEF FnPanics, States
    <3>2. Excused' = Excused \cup {c}
      BY <2>4 DEF FnPanics, Excused, TypeOK, Entry
    <3>3. Answer' = Answer
      <4>1. slot = c /\ slot' = c
        BY <2>4 DEF FnPanics, SlotInv, Working
      <4>2. entry[c].retry
        BY <2>4 DEF FnPanics, EntryInv, EntryOK
      <4>3. entry'[c].retry = entry[c].retry
        BY <2>4 DEF FnPanics, TypeOK, Entry
      <4>4. QED
        BY <4>1, <4>2, <4>3, AnswerOf, AnswerOfPrimed
    <3>4. QED
      BY <3>1, <3>2, <3>3 DEF Shared!Excuse
  <2>5. ASSUME NEW c \in Callers, Judge(c) PROVE Shared!Settle \/ UNCHANGED Shared!vars
    <3>1. Outcome' = Outcome
      BY <2>5, OutcomeStays DEF Judge, States
    <3>2. Excused' = Excused
      BY <2>5 DEF Judge, Excused, TypeOK, Entry
    <3>3. Answer = Nobody
      BY <2>5, AnswerOf DEF Judge, SlotInv, Working, EntryInv, EntryOK
    <3>4. Answer' \in Callers \cup {Nobody}
      BY <2>5, AnswerOfPrimed DEF Judge, TypeOK
    <3>5. CASE Answer' = Nobody
      BY <3>1, <3>2, <3>3, <3>5, Stutters
    <3>6. CASE Answer' \in Callers
      BY <3>1, <3>2, <3>3, <3>6 DEF Shared!Settle
    <3>7. QED
      BY <3>4, <3>5, <3>6
  <2>6. ASSUME NEW c \in Callers, Clean(c) PROVE UNCHANGED Shared!vars
    <3>1. Outcome' = Outcome
      BY <2>6, OutcomeStays DEF Clean, States
    <3>2. slot = c /\ entry' = entry /\ slot' = IF entry[c].retry THEN Nobody ELSE slot
      BY <2>6 DEF Clean, SlotInv, Working
    <3>3. Answer' = Answer
      BY <3>2, AnswerOf, AnswerOfPrimed
    <3>4. Excused' = Excused
      BY <2>6 DEF Clean, Excused
    <3>5. QED
      BY <3>1, <3>3, <3>4, Stutters
  <2>7. ASSUME NEW c \in Callers, Close(c) PROVE Shared!Receive(c) \/ Shared!Fail(c)
    <3>1. Outcome[c] = "asking" /\ slot' = slot
      BY <2>7 DEF Close, Outcome, OutcomeAt
    <3>2. \A d \in Callers : entry'[d].out = entry[d].out /\ entry'[d].retry = entry[d].retry
      BY <2>7 DEF Close, TypeOK, Entry
    <3>3. Excused' = Excused
      BY <2>7, <3>2 DEF Close, Excused
    <3>4. Answer' = Answer
      BY <3>1, <3>2 DEF Answer, Kept
    <3>5. CASE entry[c].retry
      <4>1. c \in Excused
        BY <2>7, <3>5 DEF Close, EntryInv, EntryOK, Excused
      <4>2. Goto(c, "gaveUp")
        BY <2>7, <3>5 DEF Close
      <4>3. Outcome' = [Outcome EXCEPT ![c] = "failed"]
        BY <4>2, OutcomeMoves DEF States, OutcomeAt
      <4>4. QED
        BY <3>1, <3>3, <3>4, <4>1, <4>3 DEF Shared!Fail
    <3>6. CASE ~entry[c].retry
      <4>1. Answer = c
        BY <2>7, <3>6, AnswerOf DEF Close, SlotInv
      <4>2. Goto(c, "answered")
        BY <2>7, <3>6 DEF Close
      <4>3. Outcome' = [Outcome EXCEPT ![c] = "answered"]
        BY <4>2, OutcomeMoves DEF States, OutcomeAt
      <4>4. QED
        BY <3>1, <3>3, <3>4, <4>1, <4>3, CallerAssumption DEF Shared!Receive
    <3>7. QED
      BY <3>5, <3>6
  <2>8. ASSUME NEW c \in Callers, Receive(c) PROVE Shared!Receive(c) \/ UNCHANGED Shared!vars
    <3>1. Excused' = Excused /\ Answer' = Answer /\ Outcome[c] = "asking"
      BY <2>8 DEF Receive, Excused, Answer, Kept, Outcome, OutcomeAt
    <3>2. waitsFor[c] \in Callers /\ entry[waitsFor[c]].done
      BY <2>8 DEF Receive, WaitInv
    <3>3. CASE entry[waitsFor[c]].retry
      <4>1. Goto(c, "start")
        BY <2>8, <3>3 DEF Receive
      <4>2. Outcome' = Outcome
        BY <2>8, <4>1, OutcomeStays DEF Receive, States
      <4>3. QED
        BY <3>1, <4>2, Stutters
    <3>4. CASE ~entry[waitsFor[c]].retry
      <4>1. Answer = waitsFor[c]
        BY <3>2, <3>4, AnswerOf DEF EntryInv, EntryOK
      <4>2. Goto(c, "answered")
        BY <2>8, <3>4 DEF Receive
      <4>3. Outcome' = [Outcome EXCEPT ![c] = "answered"]
        BY <4>2, OutcomeMoves DEF States, OutcomeAt
      <4>4. QED
        BY <3>1, <3>2, <4>1, <4>3, CallerAssumption DEF Shared!Receive
    <3>5. QED
      BY <3>3, <3>4
  <2>9. ASSUME NEW c \in Callers, GiveUp(c) PROVE Shared!Fail(c)
    <3>1. Outcome[c] = "asking" /\ c \in Excused /\ Excused' = Excused /\ Answer' = Answer
      BY <2>9 DEF GiveUp, Outcome, OutcomeAt, Excused, Answer, Kept
    <3>2. Outcome' = [Outcome EXCEPT ![c] = "failed"]
      BY <2>9, OutcomeMoves DEF GiveUp, States, OutcomeAt
    <3>3. QED
      BY <3>1, <3>2 DEF Shared!Fail
  <2>10. ASSUME NEW c \in Callers, EndContext(c) PROVE Shared!Excuse(c)
    BY <2>10 DEF EndContext, Shared!Excuse, Excused, Answer, Kept, Outcome
  <2>11. CASE UNCHANGED vars
    BY <2>11 DEF vars, Shared!vars, Excused, Answer, Kept, Outcome
  <2>12. QED
    BY <2>1, <2>2, <2>3, <2>4, <2>5, <2>6, <2>7, <2>8, <2>9, <2>10, <2>11
       DEF Next, Step, Done, Shared!Next
<1>3. QED
  BY <1>1, <1>2, FlightInvariant, PTL DEF Spec, ImplementsSharedAnswer, Shared!Spec

-----------------------------------------------------------------------------
(* Resolver *)

(***************************************************************************)
(* Whatever is in use is a non-empty sequence of servers, so every lookup  *)
(* starts at a server (NewClient refuses an empty list).                   *)
(***************************************************************************)
LEMMA InUseIsServers ==
    ASSUME choice \in 0..Len(EncryptedChoices)
    PROVE  /\ InUse \in Seq(Servers)
           /\ Len(InUse) \in Nat \ {0}
           /\ DOMAIN InUse = 1..Len(InUse)
           /\ \A i \in DOMAIN InUse : InUse[i] \in Servers
<1>1. \A s \in Seq(Servers) : s # <<>> => Len(s) \in Nat \ {0}
  OBVIOUS
<1>2. InUse \in Seq(Servers) /\ InUse # <<>>
  <2>1. CASE choice = 0
    BY <2>1, ServerAssumption DEF InUse
  <2>2. CASE choice # 0
    <3>1. EncryptedChoices[choice] \in Seq(Servers) \ {<<>>}
      BY <2>2, ServerAssumption
    <3>2. QED
      BY <2>2, <3>1 DEF InUse
  <2>3. QED
    BY <2>1, <2>2
<1>3. QED
  BY <1>1, <1>2

(***************************************************************************)
(* A server's answer is one ResultInv allows for.                          *)
(***************************************************************************)
LEMMA AnswersFit ==
    ASSUME ResolverTypeOK, NEW q \in Questions
    PROVE  /\ InUse[at[q]] \in Used
           /\ Says(InUse[at[q]], q) = "records" => q[1] \notin withholds[InUse[at[q]]]
           /\ Says(InUse[at[q]], q) = "empty" =>
                 changed[q[1]] = q[2] \/ q[1] \in withholds[InUse[at[q]]]
           /\ Says(InUse[at[q]], q) \in {"records", "empty"}
<1>1. at[q] \in DOMAIN InUse
  BY DEF ResolverTypeOK
<1>2. QED
  BY <1>1 DEF Says, Used

(***************************************************************************)
(* The invariant of lookups, probe and choice.                             *)
(***************************************************************************)
THEOREM ResolverInvariant == ResolverSpec => []ResolverInv
<1>1. ResolverInit => ResolverInv
  <2> SUFFICES ASSUME ResolverInit PROVE ResolverInv
    OBVIOUS
  <2>1. ResolverTypeOK
    <3>1. choice \in 0..Len(EncryptedChoices) /\ choice = 0
      BY ServerAssumption DEF ResolverInit
    <3>2. 1 \in DOMAIN InUse
      BY <3>1, InUseIsServers
    <3>3. QED
      BY <3>1, <3>2 DEF ResolverInit, ResolverTypeOK, Results
  <2>2. QED
    BY <2>1 DEF ResolverInit, ResolverInv, ResultInv, WithholdingIsNoticed
<1>2. ResolverInv /\ [ResolverNext]_resolverVars => ResolverInv'
  <2> SUFFICES ASSUME ResolverInv, [ResolverNext]_resolverVars PROVE ResolverInv'
    OBVIOUS
  <2> USE DEF ResolverInv
  <2>1. ASSUME NEW q \in Questions, Answered(q) PROVE ResolverInv'
    <3> USE <2>1 DEF Answered, UnderWay, world
    <3>1. InUse' = InUse /\ Used' = Used
      BY DEF InUse, Used
    <3>2. ResolverTypeOK'
      BY <3>1, AnswersFit DEF ResolverTypeOK, Results
    <3>3. ASSUME NEW p \in Questions PROVE ResultInv(p)'
      <4>1. CASE p = q
        <5>1. res'[p] = Says(InUse[at[q]], q)
          BY <4>1 DEF ResolverTypeOK
        <5>2. QED
          BY <4>1, <5>1, <3>1, AnswersFit DEF ResultInv
      <4>2. CASE p # q
        <5>1. res'[p] = res[p]
          BY <4>2 DEF ResolverTypeOK
        <5>2. QED
          BY <5>1, <3>1 DEF ResultInv
      <4>3. QED
        BY <4>1, <4>2
    <3>4. stage' # "rejected"
      OBVIOUS
    <3>5. QED
      BY <3>1, <3>2, <3>3, <3>4 DEF WithholdingIsNoticed
  <2>2. ASSUME NEW q \in Questions, TryNext(q) PROVE ResolverInv'
    <3> USE <2>2 DEF TryNext, UnderWay, world
    <3>1. InUse' = InUse /\ Used' = Used
      BY DEF InUse, Used
    <3>2. at[q] < Len(InUse) => at[q] + 1 \in DOMAIN InUse
      BY InUseIsServers DEF ResolverTypeOK
    <3>3. at' \in [Questions -> Nat] /\ \A p \in Questions : at'[p] \in DOMAIN InUse
      BY <3>2, InUseIsServers DEF ResolverTypeOK
    <3>4. ResolverTypeOK'
      BY <3>1, <3>3 DEF ResolverTypeOK, Results
    <3>5. \A p \in Questions : ResultInv(p)'
      BY <3>1 DEF ResultInv, ResolverTypeOK
    <3>6. stage' # "rejected"
      OBVIOUS
    <3>7. QED
      BY <3>1, <3>4, <3>5, <3>6 DEF WithholdingIsNoticed
  <2>3. ASSUME NEW q \in Questions, Break(q) \/ (q \in Scanned /\ AskAgain(q)) PROVE ResolverInv'
    <3> USE <2>3 DEF Break, AskAgain, UnderWay, world
    <3>1. InUse' = InUse /\ Used' = Used
      BY DEF InUse, Used
    <3>2. 1 \in DOMAIN InUse
      BY InUseIsServers DEF ResolverTypeOK
    <3>3. at' \in [Questions -> Nat] /\ \A p \in Questions : at'[p] \in DOMAIN InUse
      BY <3>2 DEF ResolverTypeOK
    <3>4. ResolverTypeOK'
      BY <3>1, <3>3 DEF ResolverTypeOK, Results
    <3>5. \A p \in Questions : ResultInv(p)'
      BY <3>1 DEF ResultInv, ResolverTypeOK
    <3>6. stage' # "rejected"
      OBVIOUS
    <3>7. QED
      BY <3>1, <3>4, <3>5, <3>6 DEF WithholdingIsNoticed
  <2>4. ASSUME JudgeProbe PROVE ResolverInv'
    <3> USE <2>4 DEF JudgeProbe, world
    <3>1. InUse' = InUse /\ Used' = Used
      BY DEF InUse, Used
    <3>2. ResolverTypeOK'
      BY <3>1 DEF ResolverTypeOK
    <3>3. \A p \in Questions : ResultInv(p)'
      BY <3>1 DEF ResultInv
    <3>4. Passes' = Passes /\ Withheld' = Withheld
      BY DEF Passes, Withheld, Served, AnsweredEmpty
    <3>5. Passes => \A t \in Types : \E s \in Used : t \notin withholds[s]
      <4> SUFFICES ASSUME Passes, NEW t \in Types PROVE \E s \in Used : t \notin withholds[s]
        OBVIOUS
      <4>1. PICK d \in Domains : res[<<t, d>>] = "records"
        BY DEF Passes, Served
      <4>2. <<t, d>> \in Questions /\ <<t, d>>[1] = t
        BY DEF Questions, Canaries
      <4>3. ResultInv(<<t, d>>)
        BY <4>2
      <4>4. QED
        BY <4>1, <4>2, <4>3 DEF ResultInv
    <3>6. QED
      BY <3>1, <3>2, <3>3, <3>4, <3>5 DEF WithholdingIsNoticed
  <2>5. ASSUME TryChoice PROVE ResolverInv'
    <3> USE <2>5 DEF TryChoice, Fresh, world
    <3>1. choice' \in 0..Len(EncryptedChoices)
      BY ServerAssumption DEF ResolverTypeOK
    <3>2. 1 \in DOMAIN InUse'
      <4>1. EncryptedChoices[choice'] \in Seq(Servers) \ {<<>>} /\ choice' # 0
        BY <3>1, ServerAssumption DEF ResolverTypeOK
      <4>2. QED
        BY <4>1 DEF InUse
    <3>3. ResolverTypeOK'
      BY <3>1, <3>2 DEF ResolverTypeOK, Results
    <3>4. QED
      BY <3>3 DEF ResultInv, WithholdingIsNoticed
  <2>6. ASSUME Refuse \/ Ask \/ SayNo \/ End \/ Over \/ UNCHANGED resolverVars PROVE ResolverInv'
    <3> USE <2>6 DEF Refuse, Ask, SayNo, End, Over, resolverVars, world
    <3>1. InUse' = InUse /\ Used' = Used
      BY DEF InUse, Used
    <3>2. ResolverTypeOK'
      BY <3>1 DEF ResolverTypeOK
    <3>3. \A p \in Questions : ResultInv(p)'
      BY <3>1 DEF ResultInv
    <3>4. Passes' = Passes /\ Withheld' = Withheld
      BY DEF Passes, Withheld, Served, AnsweredEmpty
    <3>5. QED
      BY <3>1, <3>2, <3>3, <3>4 DEF WithholdingIsNoticed
  <2>7. Scanned \subseteq Questions
    BY DEF Questions
  <2>8. QED
    BY <2>1, <2>2, <2>3, <2>4, <2>5, <2>6, <2>7 DEF ResolverNext, Setup, Lookup
<1>3. QED
  BY <1>1, <1>2, PTL DEF ResolverSpec

(***************************************************************************)
(* A failure, of any servers at any time, never passes for a missing       *)
(* record (Resolver).                                                      *)
(***************************************************************************)
THEOREM FailuresStayFailures == ResolverSpec => []FailureIsNotAbsence
<1>1. ResolverInv => FailureIsNotAbsence
  <2> SUFFICES ASSUME ResolverInv, NEW t \in Types, \A s \in Used : t \notin withholds[s],
                      NEW q \in Questions, q[1] = t, q[2] = Own \/ changed[t] # q[2]
               PROVE  res[q] # "empty"
    BY DEF FailureIsNotAbsence, Questions, Canaries, Scanned
  <2>1. changed[t] # Own
    BY ServerAssumption DEF ResolverInv, ResolverTypeOK
  <2>2. QED
    BY <2>1 DEF ResolverInv, ResultInv
<1>2. QED
  BY <1>1, ResolverInvariant, PTL

(***************************************************************************)
(* No scan goes through servers that all withhold a type (setupResolver).  *)
(***************************************************************************)
THEOREM ScansAreProbed == ResolverSpec => []WithholdingIsNoticed
<1>1. ResolverInv => WithholdingIsNoticed
  BY DEF ResolverInv
<1>2. QED
  BY <1>1, ResolverInvariant, PTL

(***************************************************************************)
(* Honest servers are turned away for failing only (Probe).                *)
(***************************************************************************)
THEOREM VerdictsAreFair == ResolverSpec => []VerdictIsFair
<1>1. ResolverInv => VerdictIsFair
  <2> SUFFICES ASSUME ResolverInv, stage = "rejected", \A s \in Used : withholds[s] = {}
               PROVE  /\ \E t \in Types : \A d \in Domains :
                            d # changed[t] => res[<<t, d>>] = "failed"
                      /\ tampered => \E t \in Types : changed[t] # None
    BY DEF VerdictIsFair
  <2>1. ASSUME NEW t \in Types, NEW d \in Domains, res[<<t, d>>] = "empty"
        PROVE  changed[t] = d
    BY <2>1 DEF ResolverInv, ResultInv, Questions, Canaries
  <2>2. \E t \in Types : \A d \in Domains : d # changed[t] => res[<<t, d>>] = "failed"
    <3>1. PICK t \in Types : ~Served(t)
      BY DEF ResolverInv, Passes
    <3>2. ASSUME NEW d \in Domains, d # changed[t] PROVE res[<<t, d>>] = "failed"
      <4>1. <<t, d>> \in Canaries /\ <<t, d>> \in Questions
        BY DEF Canaries, Questions
      <4>2. res[<<t, d>>] \in Results /\ res[<<t, d>>] # "none"
        BY <4>1 DEF ResolverInv, ResolverTypeOK
      <4>3. res[<<t, d>>] # "records"
        BY <3>1 DEF Served
      <4>4. res[<<t, d>>] # "empty"
        BY <2>1, <3>2
      <4>5. QED
        BY <4>2, <4>3, <4>4 DEF Results
    <3>3. QED
      BY <3>2
  <2>3. tampered => \E t \in Types : changed[t] # None
    <3> SUFFICES ASSUME tampered PROVE \E t \in Types : changed[t] # None
      OBVIOUS
    <3>1. PICK t \in Types : AnsweredEmpty(t)
      BY DEF ResolverInv, Withheld
    <3>2. PICK d \in Domains : res[<<t, d>>] = "empty"
      BY <3>1 DEF AnsweredEmpty
    <3>3. changed[t] = d
      BY <3>2, <2>1
    <3>4. QED
      BY <3>3, ServerAssumption
  <2>4. QED
    BY <2>2, <2>3
<1>2. QED
  BY <1>1, ResolverInvariant, PTL
=============================================================================
