-------------------------- MODULE DaemonRun_proofs --------------------------
(***************************************************************************)
(* Proofs about the daemon's runs and the delivery of their changes, for   *)
(* any findings, channels, rules, heartbeats and cap on what is kept.      *)
(***************************************************************************)
EXTENDS DaemonRun, FiniteSetTheorems, TLAPS

\* A message without changes.
LEMMA EmptyTyped == Empty \in [Findings -> Change] /\ Proper(Empty) /\ Mentioned(Empty) = {}
BY DEF Empty, Proper, Mentioned, Change, NoChange, Kinds

\* Mentioning nothing is being empty.
LEMMA EmptyMentions ==
    ASSUME NEW m \in [Findings -> Change] PROVE (m = Empty) <=> (Mentioned(m) = {})
BY DEF Empty, Mentioned

\* Only NoChange has the kind "none".
LEMMA NoChangeKind ==
    ASSUME NEW m \in [Findings -> Change], Proper(m), NEW f \in Findings
    PROVE  /\ m[f] = NoChange <=> m[f].kind = "none"
           /\ m[f].kind \in Kinds \cup {"none"}
           /\ f \in Mentioned(m) => m[f].kind \in Kinds /\ m[f].severity \in Nat
BY DEF Proper, Mentioned, NoChange, Kinds, Change

-----------------------------------------------------------------------------
(***************************************************************************)
(* The order of a digest's changes (state.CompareChanges) is total: no two *)
(* findings are tied, so the sort and the cut of the sorted slice depend   *)
(* on nothing else.                                                        *)
(***************************************************************************)
LEMMA OrderIsTotal ==
    ASSUME NEW m \in [Findings -> Change], Proper(m),
           NEW f \in Mentioned(m), NEW g \in Mentioned(m), NEW h \in Mentioned(m)
    PROVE  /\ ~Before(m, f, f)
           /\ Before(m, f, g) /\ Before(m, g, h) => Before(m, f, h)
           /\ f = g \/ Before(m, f, g) \/ Before(m, g, f)
<1> DEFINE a(x) == TargetRank[TargetOf[x]]
           j(x) == KindOrder[m[x].kind]
           s(x) == m[x].severity
           r(x) == Rank[x]
<1>1. \A x \in Mentioned(m) : x \in Findings /\ a(x) \in Int /\ j(x) \in Int /\ s(x) \in Int /\ r(x) \in Int
  <2> SUFFICES ASSUME NEW x \in Mentioned(m)
               PROVE  x \in Findings /\ a(x) \in Int /\ j(x) \in Int /\ s(x) \in Int /\ r(x) \in Int
    OBVIOUS
  <2>1. x \in Findings
    BY DEF Mentioned
  <2>2. m[x].kind \in Kinds /\ m[x].severity \in Nat
    BY <2>1, NoChangeKind
  <2>3. j(x) \in Int
    BY <2>2 DEF Kinds, KindOrder
  <2>4. a(x) \in Int /\ r(x) \in Int
    BY <2>1, ChannelAssumption, FindingAssumption
  <2> QED
    BY <2>1, <2>2, <2>3, <2>4
<1>2. \A x, y \in Mentioned(m) :
        Before(m, x, y) <=> \/ a(x) < a(y)
                            \/ a(x) = a(y) /\ j(x) < j(y)
                            \/ a(x) = a(y) /\ j(x) = j(y) /\ s(x) > s(y)
                            \/ a(x) = a(y) /\ j(x) = j(y) /\ s(x) = s(y) /\ r(x) < r(y)
  BY DEF Before
<1>3. \A x, y \in Mentioned(m) : a(x) = a(y) /\ r(x) = r(y) => x = y
  <2> SUFFICES ASSUME NEW x \in Mentioned(m), NEW y \in Mentioned(m), a(x) = a(y), r(x) = r(y)
               PROVE  x = y
    OBVIOUS
  <2>1. TargetOf[x] \in Targets /\ TargetOf[y] \in Targets
    BY <1>1, FindingAssumption
  <2>2. TargetOf[x] = TargetOf[y]
    BY <2>1, OrderAssumption
  <2> QED
    BY <1>1, <2>2, OrderAssumption
<1> HIDE DEF a, j, s, r
<1>4. ~Before(m, f, f)
  BY <1>1, <1>2
<1>5. Before(m, f, g) /\ Before(m, g, h) => Before(m, f, h)
  BY <1>1, <1>2
<1>6. f = g \/ Before(m, f, g) \/ Before(m, g, f)
  BY <1>1, <1>2, <1>3
<1> QED
  BY <1>4, <1>5, <1>6

\* A message mentions finitely many findings.
LEMMA MentionsFinite ==
    ASSUME NEW m
    PROVE  IsFiniteSet(Mentioned(m)) /\ Cardinality(Mentioned(m)) \in Nat
<1>1. Mentioned(m) \in SUBSET Findings
  BY DEF Mentioned
<1> QED
  BY <1>1, OrderAssumption, FS_Subset, FS_CardinalityType

(***************************************************************************)
(* Counting from the end, every change of a sorted message has a place of  *)
(* its own, and every place is taken.                                      *)
(***************************************************************************)
LEMMA PlacesAreTaken ==
    ASSUME NEW m \in [Findings -> Change], Proper(m)
    PROVE  [f \in Mentioned(m) |-> Cardinality(FromOn(m, f))]
               \in Bijection(Mentioned(m), 1..Cardinality(Mentioned(m)))
<1> DEFINE M == Mentioned(m)
           n == Cardinality(M)
           place == [f \in M |-> Cardinality(FromOn(m, f))]
<1>1. IsFiniteSet(M) /\ n \in Nat
  BY MentionsFinite
<1>2. ASSUME NEW f \in M
      PROVE  /\ FromOn(m, f) \in SUBSET M /\ f \in FromOn(m, f)
             /\ IsFiniteSet(FromOn(m, f))
             /\ Cardinality(FromOn(m, f)) \in 1..n
  <2>1. FromOn(m, f) \in SUBSET M /\ f \in FromOn(m, f)
    BY DEF FromOn
  <2>2. IsFiniteSet(FromOn(m, f)) /\ Cardinality(FromOn(m, f)) <= n
    BY <1>1, <2>1, FS_Subset
  <2>3. Cardinality(FromOn(m, f)) \in Nat
    BY <2>2, FS_CardinalityType
  <2>4. Cardinality(FromOn(m, f)) # 0
    BY <2>1, <2>2, FS_EmptySet
  <2> QED
    BY <1>1, <2>1, <2>2, <2>3, <2>4
<1>3. ASSUME NEW f \in M, NEW g \in M, Before(m, f, g)
      PROVE  Cardinality(FromOn(m, f)) # Cardinality(FromOn(m, g))
  <2>1. FromOn(m, g) \in SUBSET FromOn(m, f)
    BY <1>3, OrderIsTotal DEF FromOn
  <2>2. f \notin FromOn(m, g)
    <3>1. f # g
      BY <1>3, OrderIsTotal
    <3>2. ~Before(m, g, f)
      BY <1>3, OrderIsTotal
    <3> QED
      BY <3>1, <3>2 DEF FromOn
  <2>3. FromOn(m, f) # FromOn(m, g)
    BY <1>2, <2>2
  <2> QED
    BY <1>2, <2>1, <2>3, FS_Subset
<1>4. place \in Injection(M, 1..n)
  <2>1. place \in [M -> 1..n]
    BY <1>2
  <2>2. ASSUME NEW f \in M, NEW g \in M, place[f] = place[g] PROVE f = g
    BY <1>3, <2>2, OrderIsTotal
  <2> QED
    BY <2>1, <2>2 DEF Injection, IsInjective
<1>5. IsFiniteSet(1..n) /\ Cardinality(1..n) = n
  BY <1>1, FS_Interval
<1>6. place \in Surjection(M, 1..n)
  BY <1>4, <1>5, FS_Injection
<1> QED
  BY <1>4, <1>6 DEF Bijection

(***************************************************************************)
(* What is kept of a digest is part of it and fits the cap, and something  *)
(* is only left out when the cap is filled (deliver: maxPending).          *)
(***************************************************************************)
LEMMA TruncateFillsTheCap ==
    ASSUME NEW m \in [Findings -> Change], Proper(m)
    PROVE  /\ Truncate(m) \in [Findings -> Change] /\ Proper(Truncate(m))
           /\ Mentioned(Truncate(m)) \subseteq Mentioned(m)
           /\ Cardinality(Mentioned(Truncate(m))) <= MaxPending
           /\ Truncate(m) # m => Cardinality(Mentioned(Truncate(m))) = MaxPending
           /\ Cardinality(Mentioned(m)) <= MaxPending => Truncate(m) = m
<1> DEFINE M == Mentioned(m)
           n == Cardinality(M)
           place == [f \in M |-> Cardinality(FromOn(m, f))]
           K == Mentioned(Truncate(m))
           placeOfKept == [f \in K |-> place[f]]
<1>1. /\ Truncate(m) \in [Findings -> Change] /\ Proper(Truncate(m))
      /\ \A f \in Findings : Truncate(m)[f] \in {m[f], NoChange}
  BY DEF Truncate, Proper, Change, NoChange, Kinds
<1>2. place \in Bijection(M, 1..n)
  BY PlacesAreTaken
<1>3. /\ \A f \in M : place[f] \in 1..n
      /\ \A f, g \in M : place[f] = place[g] => f = g
      /\ \A i \in 1..n : \E f \in M : place[f] = i
  BY <1>2 DEF Bijection, Injection, Surjection, IsInjective
<1>4. n \in Nat /\ MaxPending \in Nat
  BY MentionsFinite, ChannelAssumption
<1>5. K = {f \in M : place[f] <= MaxPending}
  BY DEF Truncate, Mentioned
<1>6. CASE n <= MaxPending
  <2>1. K = M
    BY <1>3, <1>4, <1>5, <1>6
  <2>2. \A f \in Findings : Truncate(m)[f] = m[f]
    BY <1>1, <2>1 DEF Mentioned
  <2>3. Truncate(m) = m
    BY <1>1, <2>2
  <2> QED
    BY <1>1, <1>6, <2>1, <2>3
<1>7. CASE n > MaxPending
  <2>1. placeOfKept \in Injection(K, 1..MaxPending)
    <3>1. placeOfKept \in [K -> 1..MaxPending]
      BY <1>3, <1>4, <1>5
    <3>2. ASSUME NEW f \in K, NEW g \in K, placeOfKept[f] = placeOfKept[g] PROVE f = g
      BY <1>3, <1>5, <3>2
    <3> QED
      BY <3>1, <3>2 DEF Injection, IsInjective
  <2>2. placeOfKept \in Surjection(K, 1..MaxPending)
    <3>1. ASSUME NEW i \in 1..MaxPending PROVE \E f \in K : placeOfKept[f] = i
      <4>1. i \in 1..n
        BY <1>4, <1>7
      <4>2. PICK f \in M : place[f] = i
        BY <1>3, <4>1
      <4>3. f \in K
        BY <1>4, <1>5, <4>2
      <4> QED
        BY <4>2, <4>3
    <3>2. placeOfKept \in [K -> 1..MaxPending]
      BY <2>1 DEF Injection
    <3> QED
      BY <3>1, <3>2 DEF Surjection
  <2>3. IsFiniteSet(1..MaxPending) /\ Cardinality(1..MaxPending) = MaxPending
    BY <1>4, ChannelAssumption, FS_Interval
  <2>4. Cardinality(K) = MaxPending
    BY <2>1, <2>2, <2>3, FS_Injection
  <2>5. K \subseteq M
    BY <1>5
  <2> QED
    BY <1>1, <1>4, <1>7, <2>4, <2>5
<1> QED
  BY <1>4, <1>6, <1>7

-----------------------------------------------------------------------------
\* A rule lets through changes of the kinds it names, and nothing else.
LEMMA FilterTyped ==
    ASSUME NEW ch \in Channels, NEW changes \in [Findings -> Change]
    PROVE  Filter(ch, changes) \in [Findings -> Change] /\ Proper(Filter(ch, changes))
<1>1. On[ch] \subseteq Kinds
  BY ChannelAssumption
<1>2. NoChange \in Change
  BY DEF NoChange, Change, Kinds
<1>3. Filter(ch, changes) \in [Findings -> Change]
  BY <1>2 DEF Filter
<1> QED
  BY <1>1, <1>3 DEF Filter, Proper, Wanted

(***************************************************************************)
(* Merging this run's changes into those kept does to every finding what   *)
(* happens to the debt, and forgets no finding (merge).                    *)
(***************************************************************************)
LEMMA MergeOwes ==
    ASSUME NEW old \in [Findings -> Change], Proper(old),
           NEW new \in [Findings -> Change], Proper(new)
    PROVE  /\ Merge(old, new) \in [Findings -> Change] /\ Proper(Merge(old, new))
           /\ Mentioned(old) \subseteq Mentioned(Merge(old, new))
           /\ \A f \in Findings : Merge(old, new)[f].kind = Owe(old[f].kind, new[f].kind)
<1>1. Merge(old, new) \in [Findings -> Change] /\ Proper(Merge(old, new))
  BY DEF Merge, Proper
<1>2. Mentioned(old) \subseteq Mentioned(Merge(old, new))
  BY DEF Merge, Mentioned
<1>3. ASSUME NEW f \in Findings PROVE Merge(old, new)[f].kind = Owe(old[f].kind, new[f].kind)
  <2>1. /\ old[f] = NoChange <=> old[f].kind = "none"
        /\ new[f] = NoChange <=> new[f].kind = "none"
    BY NoChangeKind
  <2> QED
    BY <2>1 DEF Merge, Owe
<1> QED
  BY <1>1, <1>2, <1>3

\* A present finding or a stored one has a severity, an absent one none.
LEMMA ChangeOfTyped ==
    ASSUME NEW f \in Findings, NEW row \in Row \cup {NoRow}, NEW res, IsResult(res)
    PROVE  ChangeOf(row, f, res) \in Change
<1>1. KindOf(row, f, res) \in Kinds \cup {"none"}
  BY DEF KindOf, Kinds
<1>2. row # NoRow => row.suppressed \in BOOLEAN /\ row.severity \in Nat
  BY FindingAssumption DEF Row
<1>3. res.severity[f] \in Nat
  BY FindingAssumption DEF IsResult
<1>4. CASE f \in res.present
  BY <1>1, <1>3, <1>4 DEF ChangeOf, Change
<1>5. CASE f \notin res.present /\ row # NoRow
  BY <1>1, <1>2, <1>5 DEF ChangeOf, Change
<1>6. CASE f \notin res.present /\ row = NoRow
  BY <1>1, <1>6 DEF ChangeOf, Change
<1> QED
  BY <1>4, <1>5, <1>6

\* A recorded row is a row, or none.
LEMMA NextRowTyped ==
    ASSUME NEW f \in Findings, NEW row \in Row \cup {NoRow}, NEW res, IsResult(res)
    PROVE  NextRow(row, f, res, 0) \in Row \cup {NoRow}
<1>1. SeenRow(row, f, res, 0) \in Row
  <2>1. res.severity[f] \in Severities
    BY DEF IsResult
  <2>2. (IF row = NoRow THEN 0 ELSE row.firstSeen) \in Nat
    BY DEF Row
  <2> QED
    BY <2>1, <2>2 DEF SeenRow, Row
<1>2. row # NoRow => MissedRow(row, 0) \in Row
  <2> SUFFICES ASSUME row \in Row PROVE MissedRow(row, 0) \in Row
    OBVIOUS
  <2>1. [row EXCEPT !.open = FALSE, !.missing = 0, !.resolvedAt = 0] \in Row
    BY DEF Row
  <2>2. [row EXCEPT !.missing = row.missing + 1] \in Row
    BY DEF Row
  <2> QED
    BY <2>1, <2>2 DEF MissedRow
<1> QED
  BY <1>1, <1>2 DEF NextRow

-----------------------------------------------------------------------------
\* Everything that is known of a state, whatever fails or interrupts the run.
RunInv == TypeOK /\ DeliverInv

\* Nothing is kept and nothing runs.
LEMMA InitHolds == Init => RunInv
<1> SUFFICES ASSUME Init PROVE RunInv
  OBVIOUS
<1>1. Empty \in [Findings -> Change] /\ Proper(Empty) /\ Mentioned(Empty) = {}
  BY EmptyTyped
<1>2. MaxPending >= 0 /\ Cardinality({}) = 0
  BY ChannelAssumption, FS_EmptySet
<1>3. PendingBounded
  BY <1>1, <1>2 DEF Init, DispatchInit, PendingBounded
<1>4. /\ rows \in [Findings -> Row \cup {NoRow}] /\ stage \in {"idle", "checking", "dispatching", "stopped"}
      /\ cancelled \in BOOLEAN /\ failed \subseteq Channels
      /\ diff \in [Findings -> Change]
      /\ pending \in [Channels -> [Findings -> Change]] /\ msg \in [Channels -> [Findings -> Change]]
  BY <1>1 DEF Init, DispatchInit
<1>5. /\ age \in [Channels -> Nat \cup {Nil}]
      /\ pc \in [Channels -> {"idle", "get", "due", "send", "keep", "forget", "stamp", "done"}]
  BY DEF Init, DispatchInit
<1>6. /\ owed \in [Channels -> [Findings -> Kinds \cup {"none"}]]
      /\ belief \in [Channels -> [Findings -> {"nothing", "open", "closed"}]]
      /\ ideal \in [Channels -> [Findings -> {"nothing", "open", "closed"}]]
  BY DEF Init, DispatchInit
<1>7. DeliverInv
  BY <1>1 DEF Init, DispatchInit, DeliverInv
<1> QED
  BY <1>3, <1>4, <1>5, <1>6, <1>7 DEF RunInv, TypeOK

\* Moving one channel on leaves the others where they are.
LEMMA GotoMoves ==
    ASSUME TypeOK, NEW ch \in Channels,
           NEW label \in {"idle", "get", "due", "send", "keep", "forget", "stamp", "done"},
           Goto(ch, label)
    PROVE  /\ pc' \in [Channels -> {"idle", "get", "due", "send", "keep", "forget", "stamp", "done"}]
           /\ pc'[ch] = label
           /\ \A other \in Channels : other # ch => pc'[other] = pc[other]
BY DEF TypeOK, Goto

\* A deliver that returns is done.
LEMMA ReturnMoves ==
    ASSUME TypeOK, NEW ch \in Channels, ReturnError(ch) \/ ReturnNil(ch)
    PROVE  Goto(ch, "done") /\ failed' \subseteq Channels
<1>1. CASE ReturnError(ch)
  BY <1>1 DEF ReturnError, TypeOK
<1>2. CASE ReturnNil(ch)
  BY <1>2 DEF ReturnNil, TypeOK
<1> QED
  BY <1>1, <1>2

\* What the reader of one channel gets concerns no other reader.
LEMMA ReceiveTyped ==
    ASSUME TypeOK, NEW ch \in Channels, NEW part, Receive(ch, part)
    PROVE  /\ belief' \in [Channels -> [Findings -> {"nothing", "open", "closed"}]]
           /\ \A f \in Findings :
                belief'[ch][f] = IF f \in part THEN Believe(belief[ch][f], msg[ch][f].kind)
                                 ELSE belief[ch][f]
           /\ \A other \in Channels : other # ch => belief'[other] = belief[other]
<1> DEFINE new == [f \in Findings |-> IF f \in part THEN Believe(belief[ch][f], msg[ch][f].kind)
                                     ELSE belief[ch][f]]
<1>1. belief[ch] \in [Findings -> {"nothing", "open", "closed"}]
  BY DEF TypeOK
<1>2. new \in [Findings -> {"nothing", "open", "closed"}]
  BY <1>1 DEF Believe
<1>3. belief' = [belief EXCEPT ![ch] = new]
  BY DEF Receive
<1> HIDE DEF new
<1>4. /\ belief' \in [Channels -> [Findings -> {"nothing", "open", "closed"}]]
      /\ belief'[ch] = new
      /\ \A other \in Channels : other # ch => belief'[other] = belief[other]
  BY <1>2, <1>3 DEF TypeOK
<1> QED
  BY <1>4 DEF new

\* An accepted digest settles what was owed as it stands in the digest.
LEMMA SendSettles ==
    ASSUME TypeOK, NEW ch \in Channels, Send(ch)
    PROVE  /\ owed' \in [Channels -> [Findings -> Kinds \cup {"none"}]]
           /\ \A f \in Findings :
                owed'[ch][f] = IF owed[ch][f] = msg[ch][f].kind THEN "none" ELSE owed[ch][f]
           /\ \A other \in Channels : other # ch => owed'[other] = owed[other]
<1> DEFINE new == [f \in Findings |-> IF owed[ch][f] = msg[ch][f].kind THEN "none" ELSE owed[ch][f]]
<1>1. new \in [Findings -> Kinds \cup {"none"}]
  BY DEF TypeOK
<1>2. owed' = [owed EXCEPT ![ch] = new]
  BY DEF Send
<1> HIDE DEF new
<1>3. /\ owed' \in [Channels -> [Findings -> Kinds \cup {"none"}]]
      /\ owed'[ch] = new
      /\ \A other \in Channels : other # ch => owed'[other] = owed[other]
  BY <1>1, <1>2 DEF TypeOK
<1> QED
  BY <1>3 DEF new

(***************************************************************************)
(* What a step of a deliver does to the channel it serves, in the order of *)
(* the function: each line is one way through it.  The other channels are  *)
(* left alone.                                                             *)
(***************************************************************************)
Loads(ch) ==
    LET m == Merge(pending[ch], Filter(ch, diff)) IN
    /\ pc[ch] = "get"
    /\ msg' = [msg EXCEPT ![ch] = m] /\ UNCHANGED <<pending, owed, belief>>
    /\ \/ m # Empty /\ pc'[ch] = "send"
       \/ m = Empty /\ pc'[ch] \in {"due", "done"}

Waits(ch) ==
    /\ UNCHANGED <<pending, msg, owed, belief>>
    /\ \/ pc[ch] = "due" /\ pc'[ch] \in {"send", "done"}
       \/ pc[ch] = "stamp" /\ pc'[ch] = "done"
       \/ CanFail("get") /\ pc[ch] \in {"get", "due"} /\ pc'[ch] = "done"
       \/ "keep" \in Faults /\ pc[ch] = "keep" /\ pc'[ch] = "done"
       \/ CanFail("forget") /\ pc[ch] = "forget" /\ pc'[ch] = "done"

Sends(ch) ==
    /\ pc[ch] = "send" /\ Send(ch) /\ UNCHANGED <<pending, msg>>
    /\ pc'[ch] = IF pending[ch] # Empty THEN "forget" ELSE "stamp"

SendsInPart(ch) ==
    /\ pc[ch] = "send" /\ UNCHANGED <<pending, msg, owed>>
    /\ \E part \in Parts(ch) : Receive(ch, part)
    /\ pc'[ch] = IF msg[ch] # Empty THEN "keep" ELSE "done"

Keeps(ch) ==
    /\ pc[ch] = "keep" /\ pc'[ch] = "done"
    /\ pending' = [pending EXCEPT ![ch] = Truncate(msg[ch])] /\ UNCHANGED <<msg, owed, belief>>

Forgets(ch) ==
    /\ pc[ch] = "forget" /\ pc'[ch] = "stamp"
    /\ pending' = [pending EXCEPT ![ch] = Empty] /\ UNCHANGED <<msg, owed, belief>>

LEMMA DeliverMoves ==
    ASSUME TypeOK, NEW ch \in Channels, Deliver(ch)
    PROVE  /\ Loads(ch) \/ Waits(ch) \/ Sends(ch) \/ SendsInPart(ch) \/ Keeps(ch) \/ Forgets(ch)
           /\ pc' \in [Channels -> {"idle", "get", "due", "send", "keep", "forget", "stamp", "done"}]
           /\ \A other \in Channels : other # ch => pc'[other] = pc[other]
           /\ age' \in [Channels -> Nat \cup {Nil}]
           /\ failed' \subseteq Channels
           /\ UNCHANGED <<diff, cancelled, ideal>>
<1> DEFINE Moves(label) == Goto(ch, label)
           Typed == /\ age' \in [Channels -> Nat \cup {Nil}]
                    /\ failed' \subseteq Channels
<1>1. ASSUME NEW label \in {"idle", "get", "due", "send", "keep", "forget", "stamp", "done"},
             Moves(label)
      PROVE  /\ pc' \in [Channels -> {"idle", "get", "due", "send", "keep", "forget", "stamp", "done"}]
             /\ pc'[ch] = label
             /\ \A other \in Channels : other # ch => pc'[other] = pc[other]
  BY <1>1, GotoMoves
<1>2. age \in [Channels -> Nat \cup {Nil}] /\ failed \subseteq Channels
  BY DEF TypeOK
<1>3. ReturnError(ch) \/ ReturnNil(ch) => Moves("done") /\ failed' \subseteq Channels
  BY ReturnMoves
<1> HIDE DEF Moves
<1>4. CASE Load(ch)
  <2> DEFINE m == Merge(pending[ch], Filter(ch, diff))
  <2>1. \/ m # Empty /\ Moves("send") /\ failed' = failed
        \/ m = Empty /\ Moves("due") /\ failed' = failed
        \/ m = Empty /\ ReturnNil(ch)
    BY <1>4 DEF Load, Moves
  <2>2. pc[ch] = "get" /\ msg' = [msg EXCEPT ![ch] = m] /\ UNCHANGED <<pending, age, owed, belief>>
    BY <1>4 DEF Load
  <2> HIDE DEF m
  <2>3. \/ m # Empty /\ Moves("send")
        \/ m = Empty /\ Moves("due")
        \/ m = Empty /\ Moves("done")
    BY <1>3, <2>1
  <2>4. Typed
    BY <1>2, <1>3, <2>1, <2>2
  <2>5. Loads(ch)
    BY <1>1, <2>2, <2>3 DEF Loads, m
  <2> QED
    BY <1>1, <2>3, <2>4, <2>5 DEF Deliver
<1>5. CASE HeartbeatDue(ch)
  <2>1. (Moves("send") /\ failed' = failed) \/ ReturnNil(ch)
    BY <1>5 DEF HeartbeatDue, Moves
  <2>2. pc[ch] = "due" /\ UNCHANGED <<pending, age, msg, owed, belief>>
    BY <1>5 DEF HeartbeatDue
  <2>3. Moves("send") \/ Moves("done")
    BY <1>3, <2>1
  <2>4. Typed
    BY <1>2, <1>3, <2>1, <2>2
  <2>5. Waits(ch)
    BY <1>1, <2>2, <2>3 DEF Waits
  <2> QED
    BY <1>1, <2>3, <2>4, <2>5 DEF Deliver
<1>6. CASE LoadFails(ch) \/ HeartbeatDueFails(ch) \/ KeepFails(ch) \/ ForgetFails(ch)
           \/ StampFails(ch)
  <2>1. ReturnError(ch) /\ UNCHANGED <<pending, age, msg, owed, belief>>
    BY <1>6 DEF LoadFails, HeartbeatDueFails, KeepFails, ForgetFails, StampFails
  <2>2. \/ pc[ch] = "stamp"
        \/ CanFail("get") /\ pc[ch] \in {"get", "due"}
        \/ "keep" \in Faults /\ pc[ch] = "keep"
        \/ CanFail("forget") /\ pc[ch] = "forget"
    BY <1>6 DEF LoadFails, HeartbeatDueFails, KeepFails, ForgetFails, StampFails
  <2>3. Moves("done") /\ Typed
    BY <1>2, <1>3, <2>1
  <2>4. Waits(ch)
    BY <1>1, <2>1, <2>2, <2>3 DEF Waits
  <2> QED
    BY <1>1, <2>3, <2>4 DEF Deliver
<1>7. CASE Stamp(ch)
  <2>1. pc[ch] = "stamp" /\ ReturnNil(ch) /\ UNCHANGED <<pending, msg, owed, belief>>
    BY <1>7 DEF Stamp
  <2>2. age' \in [Channels -> Nat \cup {Nil}]
    BY <1>2, <1>7 DEF Stamp
  <2>3. Moves("done") /\ Typed
    BY <1>3, <2>1, <2>2
  <2>4. Waits(ch)
    BY <1>1, <2>1, <2>3 DEF Waits
  <2> QED
    BY <1>1, <2>3, <2>4 DEF Deliver
<1>8. CASE Send(ch)
  <2>1. Moves("forget") \/ Moves("stamp")
    BY <1>8 DEF Send, Moves
  <2>2. pc[ch] = "send" /\ UNCHANGED <<pending, age, msg, failed>>
    BY <1>8 DEF Send
  <2>3. pc'[ch] = IF pending[ch] # Empty THEN "forget" ELSE "stamp"
    BY <1>8, <1>1 DEF Send, Moves
  <2>4. Sends(ch) /\ Typed
    BY <1>2, <1>8, <2>2, <2>3 DEF Sends
  <2> QED
    BY <1>1, <2>1, <2>4 DEF Deliver
<1>9. CASE SendFails(ch)
  <2>1. IF msg[ch] # Empty THEN Moves("keep") /\ failed' = failed ELSE ReturnError(ch)
    BY <1>9 DEF SendFails, Moves
  <2>2. pc[ch] = "send" /\ UNCHANGED <<pending, age, msg, owed>> /\ \E part \in Parts(ch) : Receive(ch, part)
    BY <1>9 DEF SendFails
  <2>3. Moves(IF msg[ch] # Empty THEN "keep" ELSE "done") /\ Typed
    BY <1>2, <1>3, <2>1, <2>2
  <2>4. SendsInPart(ch)
    BY <1>1, <2>2, <2>3 DEF SendsInPart
  <2> QED
    BY <1>1, <2>3, <2>4 DEF Deliver
<1>10. CASE Keep(ch)
  <2>1. /\ pc[ch] = "keep" /\ ReturnError(ch) /\ UNCHANGED <<age, msg, owed, belief>>
        /\ pending' = [pending EXCEPT ![ch] = Truncate(msg[ch])]
    BY <1>10 DEF Keep
  <2>2. Moves("done") /\ Typed
    BY <1>2, <1>3, <2>1
  <2>3. Keeps(ch)
    BY <1>1, <2>1, <2>2 DEF Keeps
  <2> QED
    BY <1>1, <2>2, <2>3 DEF Deliver
<1>11. CASE Forget(ch)
  <2>1. /\ pc[ch] = "forget" /\ Moves("stamp") /\ UNCHANGED <<age, msg, failed, owed, belief>>
        /\ pending' = [pending EXCEPT ![ch] = Empty]
    BY <1>11 DEF Forget, Moves
  <2>2. Forgets(ch) /\ Typed
    BY <1>1, <1>2, <2>1 DEF Forgets
  <2> QED
    BY <1>1, <2>1, <2>2 DEF Deliver
<1> QED
  BY <1>4, <1>5, <1>6, <1>7, <1>8, <1>9, <1>10, <1>11 DEF Deliver

\* What DeliverInv says of one channel, and what TypeOK says of its messages.
ChannelHolds(ch) ==
    /\ pending[ch] \in [Findings -> Change] /\ Proper(pending[ch])
    /\ msg[ch] \in [Findings -> Change] /\ Proper(msg[ch])
    /\ Cardinality(Mentioned(pending[ch])) <= MaxPending
    /\ pc[ch] \in {"due", "send", "keep", "forget"} => Mentioned(pending[ch]) \subseteq Mentioned(msg[ch])
    /\ pc[ch] = "due" => msg[ch] = Empty

\* A deliver keeps what is known of its channel, step by step.
LEMMA DeliverHolds ==
    ASSUME RunInv, NEW ch \in Channels, Deliver(ch), UNCHANGED <<rows, stage>>
    PROVE  RunInv'
<1> USE DEF RunInv
<1>1. /\ Loads(ch) \/ Waits(ch) \/ Sends(ch) \/ SendsInPart(ch) \/ Keeps(ch) \/ Forgets(ch)
      /\ pc' \in [Channels -> {"idle", "get", "due", "send", "keep", "forget", "stamp", "done"}]
      /\ \A other \in Channels : other # ch => pc'[other] = pc[other]
      /\ age' \in [Channels -> Nat \cup {Nil}]
      /\ failed' \subseteq Channels
      /\ UNCHANGED <<diff, cancelled, ideal>>
  BY DeliverMoves
<1>2. /\ pending \in [Channels -> [Findings -> Change]] /\ msg \in [Channels -> [Findings -> Change]]
      /\ \A other \in Channels : ChannelHolds(other)
  BY DEF TypeOK, PendingBounded, DeliverInv, ChannelHolds
<1>3. Empty \in [Findings -> Change] /\ Proper(Empty) /\ Mentioned(Empty) = {} /\ Cardinality({}) = 0
      /\ MaxPending \in Nat
  BY EmptyTyped, FS_EmptySet, ChannelAssumption
<1> DEFINE Messages == /\ pending' \in [Channels -> [Findings -> Change]]
                       /\ msg' \in [Channels -> [Findings -> Change]]
                       /\ \A other \in Channels : ChannelHolds(other)'
           Histories == /\ owed' \in [Channels -> [Findings -> Kinds \cup {"none"}]]
                        /\ belief' \in [Channels -> [Findings -> {"nothing", "open", "closed"}]]
<1>4. ASSUME UNCHANGED <<owed, belief>> PROVE Histories
  BY <1>4 DEF TypeOK
<1>5. ASSUME UNCHANGED <<pending, msg>>, pc'[ch] # "due",
             pc'[ch] \in {"send", "keep", "forget"} => Mentioned(pending[ch]) \subseteq Mentioned(msg[ch])
      PROVE  Messages
  BY <1>1, <1>2, <1>5 DEF ChannelHolds
<1>6. ASSUME Loads(ch) PROVE Messages /\ Histories
  <2> DEFINE m == Merge(pending[ch], Filter(ch, diff))
  <2>1. /\ m \in [Findings -> Change] /\ Proper(m)
        /\ Mentioned(pending[ch]) \subseteq Mentioned(m)
    BY <1>2, FilterTyped, MergeOwes DEF TypeOK, ChannelHolds
  <2>2. /\ msg' = [msg EXCEPT ![ch] = m] /\ UNCHANGED <<pending, owed, belief>>
        /\ pc'[ch] = "due" => m = Empty
    BY <1>6 DEF Loads
  <2> HIDE DEF m
  <2>3. msg' \in [Channels -> [Findings -> Change]] /\ msg'[ch] = m
        /\ \A other \in Channels : other # ch => msg'[other] = msg[other]
    BY <1>2, <2>1, <2>2
  <2>4. ASSUME NEW other \in Channels PROVE ChannelHolds(other)'
    <3>1. CASE other = ch
      BY <1>2, <2>1, <2>2, <2>3, <3>1 DEF ChannelHolds
    <3>2. CASE other # ch
      BY <1>1, <1>2, <2>2, <2>3, <3>2 DEF ChannelHolds
    <3> QED
      BY <3>1, <3>2
  <2> QED
    BY <1>2, <1>4, <2>2, <2>3, <2>4
<1>7. ASSUME Waits(ch) PROVE Messages /\ Histories
  <2>1. /\ UNCHANGED <<pending, msg, owed, belief>>
        /\ pc'[ch] = "done" \/ (pc[ch] = "due" /\ pc'[ch] = "send")
    BY <1>7 DEF Waits
  <2>2. pc[ch] = "due" => Mentioned(pending[ch]) \subseteq Mentioned(msg[ch])
    BY <1>2 DEF ChannelHolds
  <2> QED
    BY <1>4, <1>5, <2>1, <2>2
<1>8. ASSUME Sends(ch) PROVE Messages /\ Histories
  <2>1. Histories
    <3>1. Send(ch)
      BY <1>8 DEF Sends
    <3>2. Receive(ch, Mentioned(msg[ch]))
      BY <3>1 DEF Send
    <3> QED
      BY <3>1, <3>2, ReceiveTyped, SendSettles
  <2>2. /\ UNCHANGED <<pending, msg>> /\ pc'[ch] \in {"forget", "stamp"}
        /\ Mentioned(pending[ch]) \subseteq Mentioned(msg[ch])
    BY <1>2, <1>8 DEF Sends, ChannelHolds
  <2> QED
    BY <1>5, <2>1, <2>2
<1>9. ASSUME SendsInPart(ch) PROVE Messages /\ Histories
  <2>1. Histories
    <3>1. PICK part \in Parts(ch) : Receive(ch, part)
      BY <1>9 DEF SendsInPart
    <3>2. owed' = owed
      BY <1>9 DEF SendsInPart
    <3> QED
      BY <3>1, <3>2, ReceiveTyped DEF TypeOK
  <2>2. /\ UNCHANGED <<pending, msg>> /\ pc'[ch] \in {"keep", "done"}
        /\ Mentioned(pending[ch]) \subseteq Mentioned(msg[ch])
    BY <1>2, <1>9 DEF SendsInPart, ChannelHolds
  <2> QED
    BY <1>5, <2>1, <2>2
<1>10. ASSUME NEW m \in [Findings -> Change], Proper(m), Cardinality(Mentioned(m)) <= MaxPending,
              pending' = [pending EXCEPT ![ch] = m], UNCHANGED msg, pc'[ch] \in {"done", "stamp"}
       PROVE  Messages
  <2>1. /\ pending' \in [Channels -> [Findings -> Change]] /\ pending'[ch] = m
        /\ \A other \in Channels : other # ch => pending'[other] = pending[other]
    BY <1>2, <1>10
  <2>2. ASSUME NEW other \in Channels PROVE ChannelHolds(other)'
    <3>1. CASE other = ch
      BY <1>2, <1>10, <2>1, <3>1 DEF ChannelHolds
    <3>2. CASE other # ch
      BY <1>1, <1>2, <1>10, <2>1, <3>2 DEF ChannelHolds
    <3> QED
      BY <3>1, <3>2
  <2> QED
    BY <1>2, <1>10, <2>1, <2>2
<1>11. ASSUME Keeps(ch) PROVE Messages /\ Histories
  <2>1. /\ Truncate(msg[ch]) \in [Findings -> Change] /\ Proper(Truncate(msg[ch]))
        /\ Cardinality(Mentioned(Truncate(msg[ch]))) <= MaxPending
    BY <1>2, TruncateFillsTheCap DEF ChannelHolds
  <2> QED
    BY <1>4, <1>10, <1>11, <2>1 DEF Keeps
<1>12. ASSUME Forgets(ch) PROVE Messages /\ Histories
  <2>1. Cardinality(Mentioned(Empty)) <= MaxPending
    BY <1>3
  <2> QED
    BY <1>3, <1>4, <1>10, <1>12, <2>1 DEF Forgets
<1>13. Messages /\ Histories
  BY <1>1, <1>6, <1>7, <1>8, <1>9, <1>11, <1>12
<1>14. TypeOK'
  <2>1. PendingBounded'
    BY <1>13 DEF ChannelHolds, PendingBounded
  <2>2. /\ rows' \in [Findings -> Row \cup {NoRow}] /\ stage' \in {"idle", "checking", "dispatching", "stopped"}
        /\ cancelled' \in BOOLEAN /\ diff' \in [Findings -> Change]
        /\ ideal' \in [Channels -> [Findings -> {"nothing", "open", "closed"}]]
    BY <1>1 DEF TypeOK
  <2> QED
    BY <1>1, <1>13, <2>1, <2>2 DEF TypeOK
<1>15. DeliverInv'
  BY <1>13 DEF ChannelHolds, DeliverInv
<1> QED
  BY <1>14, <1>15

\* A recorded result starts a delivery of typed changes to every channel.
LEMMA RecordHolds ==
    ASSUME RunInv, NEW res \in Results, Record(res)
    PROVE  RunInv'
<1> USE DEF RunInv
<1> DEFINE changes == [f \in Findings |-> ChangeOf(rows[f], f, res)]
<1>1. IsResult(res) /\ StartDispatch(changes) /\ stage' = "dispatching"
      /\ rows' = [f \in Findings |-> NextRow(rows[f], f, res, 0)]
  BY DEF Record
<1>2. rows' \in [Findings -> Row \cup {NoRow}]
  BY <1>1, NextRowTyped DEF TypeOK
<1>3. changes \in [Findings -> Change]
  BY <1>1, ChangeOfTyped DEF TypeOK
<1> HIDE DEF changes
<1>4. ASSUME NEW ch \in Channels, NEW f \in Findings
      PROVE  Filter(ch, changes)[f].kind \in Kinds \cup {"none"}
  BY <1>3, FilterTyped, NoChangeKind
<1>5. owed' \in [Channels -> [Findings -> Kinds \cup {"none"}]]
  <2>1. \A ch \in Channels, f \in Findings :
          Owe(owed[ch][f], Filter(ch, changes)[f].kind) \in Kinds \cup {"none"}
    BY <1>4 DEF Owe, TypeOK
  <2> QED
    BY <1>1, <2>1 DEF StartDispatch
<1>6. ideal' \in [Channels -> [Findings -> {"nothing", "open", "closed"}]]
  <2>1. \A ch \in Channels, f \in Findings :
          Believe(ideal[ch][f], Filter(ch, changes)[f].kind) \in {"nothing", "open", "closed"}
    BY DEF Believe, TypeOK
  <2> QED
    BY <1>1, <2>1 DEF StartDispatch
<1>7. /\ diff' = changes /\ failed' = {} /\ pc' = [ch \in Channels |-> "get"]
      /\ UNCHANGED <<cancelled, pending, age, msg, belief>>
  BY <1>1 DEF StartDispatch
<1>8. TypeOK'
  BY <1>1, <1>2, <1>3, <1>5, <1>6, <1>7 DEF TypeOK, PendingBounded
<1>9. DeliverInv'
  BY <1>7 DEF DeliverInv
<1> QED
  BY <1>8, <1>9

\* What a run held in memory is gone when it ends.
LEMMA MemoryClearedHolds ==
    ASSUME RunInv, diff' = Empty, pc' = [ch \in Channels |-> "idle"],
           msg' = [ch \in Channels |-> Empty], failed' = {},
           UNCHANGED <<pending, age, owed, belief, ideal>>,
           cancelled' \in BOOLEAN, stage' \in {"idle", "checking", "dispatching", "stopped"},
           rows' \in [Findings -> Row \cup {NoRow}]
    PROVE  RunInv'
<1> USE DEF RunInv
<1>1. Empty \in [Findings -> Change] /\ Proper(Empty)
  BY EmptyTyped
<1>2. PendingBounded' /\ diff' \in [Findings -> Change] /\ msg' \in [Channels -> [Findings -> Change]]
  BY <1>1 DEF TypeOK, PendingBounded
<1>3. pc' \in [Channels -> {"idle", "get", "due", "send", "keep", "forget", "stamp", "done"}]
  OBVIOUS
<1>4. TypeOK'
  BY <1>2, <1>3 DEF TypeOK
<1>5. DeliverInv'
  BY <1>1 DEF DeliverInv
<1> QED
  BY <1>4, <1>5

\* Every step keeps what is known.
LEMMA StepHolds == RunInv /\ [Next]_vars => RunInv'
<1> SUFFICES ASSUME RunInv, [Next]_vars PROVE RunInv'
  OBVIOUS
<1> USE DEF RunInv
<1>1. CASE Begin \/ ProbeFails \/ RunCanceled
  BY <1>1 DEF Begin, ProbeFails, RunCanceled, dispatchVars, channelVars, TypeOK, PendingBounded, DeliverInv
<1>2. ASSUME NEW res \in Results, Record(res) PROVE RunInv'
  BY <1>2, RecordHolds
<1>3. ASSUME NEW ch \in Channels, Deliver(ch), UNCHANGED <<rows, stage>> PROVE RunInv'
  BY <1>3, DeliverHolds
<1>4. ASSUME NEW old \in SUBSET Prunable, Finish(old) PROVE RunInv'
  <2>1. rows' \in [Findings -> Row \cup {NoRow}] /\ cancelled' \in BOOLEAN
        /\ stage' \in {"idle", "checking", "dispatching", "stopped"}
    BY <1>4 DEF Finish, TypeOK
  <2> QED
    BY <1>4, <2>1, MemoryClearedHolds DEF Finish
<1>5. CASE Crash
  <2>1. rows' \in [Findings -> Row \cup {NoRow}] /\ cancelled' \in BOOLEAN
        /\ stage' \in {"idle", "checking", "dispatching", "stopped"}
    BY <1>5 DEF Crash, TypeOK
  <2> QED
    BY <1>5, <2>1, MemoryClearedHolds DEF Crash
<1>6. CASE Cancel \/ Restart
  BY <1>6 DEF Cancel, Restart, channelVars, TypeOK, PendingBounded, DeliverInv
<1>7. CASE Tick
  <2>1. age' \in [Channels -> Nat \cup {Nil}]
    BY <1>7, ChannelAssumption DEF Tick, TypeOK
  <2> QED
    BY <1>7, <2>1 DEF Tick, TypeOK, PendingBounded, DeliverInv
<1>8. CASE UNCHANGED vars
  BY <1>8 DEF vars, channelVars, TypeOK, PendingBounded, DeliverInv
<1> QED
  BY <1>1, <1>2, <1>3, <1>4, <1>5, <1>6, <1>7, <1>8 DEF Next

(***************************************************************************)
(* Type correctness: whatever fails and interrupts the runs, the table     *)
(* and the messages hold rows and changes, and no more than maxPending     *)
(* changes are ever kept for a channel, however long it is unreachable.    *)
(***************************************************************************)
THEOREM TypeCorrect == Spec => []TypeOK
<1>1. RunInv => TypeOK
  BY DEF RunInv
<1> QED
  BY <1>1, InitHolds, StepHolds, PTL DEF Spec

\* Once the kept changes are read, the digest has all of them.
THEOREM DigestHasTheKept == Spec => []DeliverInv
<1>1. RunInv => DeliverInv
  BY DEF RunInv
<1> QED
  BY <1>1, InitHolds, StepHolds, PTL DEF Spec

(***************************************************************************)
(* With any failing calls, shutdowns and crashes, and any number of        *)
(* channels and findings: a kept change leaves the database only with an   *)
(* accepted digest, or when the cap is full (deliver).                     *)
(***************************************************************************)
THEOREM KeptChangesStay == Spec => KeptUntilSent
<1>1. ASSUME RunInv, [Next]_vars, NEW ch \in Channels, NEW f \in Findings,
             pending[ch][f] # NoChange, pending'[ch][f] = NoChange
      PROVE  \/ pc[ch] = "forget" /\ msg[ch][f] # NoChange
             \/ pc[ch] = "keep" /\ Cardinality(Mentioned(pending'[ch])) = MaxPending
  <2> USE <1>1 DEF RunInv
  <2>1. f \in Mentioned(pending[ch])
    BY DEF Mentioned
  <2>2. pending'[ch] # pending[ch] /\ pending' # pending
    OBVIOUS
  <2>3. PICK other \in Channels : Deliver(other)
    BY <2>2 DEF Next, Begin, ProbeFails, RunCanceled, Record, StartDispatch, Finish, Cancel, Crash,
                Restart, Tick, vars, dispatchVars, channelVars
  <2>4. /\ Loads(other) \/ Waits(other) \/ Sends(other) \/ SendsInPart(other)
           \/ Keeps(other) \/ Forgets(other)
    BY <2>3, DeliverMoves
  <2>5. Keeps(other) \/ Forgets(other)
    BY <2>2, <2>4 DEF Loads, Waits, Sends, SendsInPart
  <2>6. other = ch
    BY <2>2, <2>5 DEF Keeps, Forgets, TypeOK
  <2>7. pc[ch] \in {"keep", "forget"} /\ f \in Mentioned(msg[ch])
    BY <2>1, <2>5, <2>6 DEF Keeps, Forgets, DeliverInv
  <2>8. CASE Forgets(ch)
    BY <2>7, <2>8 DEF Forgets, Mentioned
  <2>9. CASE Keeps(ch)
    <3>1. pending'[ch] = Truncate(msg[ch])
      BY <2>9 DEF Keeps, TypeOK
    <3>2. Truncate(msg[ch]) # msg[ch]
      BY <2>7, <3>1 DEF Mentioned
    <3>3. msg[ch] \in [Findings -> Change] /\ Proper(msg[ch])
      BY DEF TypeOK, DeliverInv
    <3> QED
      BY <2>9, <3>1, <3>2, <3>3, TruncateFillsTheCap DEF Keeps
  <2> QED
    BY <2>5, <2>6, <2>8, <2>9
<1>2. RunInv /\ [Next]_vars =>
        [\A ch \in Channels, f \in Findings :
           pending[ch][f] # NoChange /\ pending'[ch][f] = NoChange =>
             \/ pc[ch] = "forget" /\ msg[ch][f] # NoChange
             \/ pc[ch] = "keep" /\ Cardinality(Mentioned(pending'[ch])) = MaxPending]_vars
  BY <1>1
<1> QED
  BY <1>2, InitHolds, StepHolds, PTL DEF Spec, KeptUntilSent

-----------------------------------------------------------------------------
\* A reader told the same thing twice believes it once.
LEMMA ToldTwice ==
    ASSUME NEW belief0, NEW kind
    PROVE  /\ Believe(Believe(belief0, kind), kind) = Believe(belief0, kind)
           /\ Believe(belief0, "none") = belief0
BY DEF Believe

\* A reader told the merged change believes what the two changes would have told it.
LEMMA MergedTellsTheSame ==
    ASSUME NEW belief0, NEW debt \in Kinds \cup {"none"}, NEW kind \in Kinds \cup {"none"}
    PROVE  Believe(belief0, Owe(debt, kind)) = Believe(Believe(belief0, debt), kind)
BY DEF Believe, Owe, Kinds

\* With room for every finding, a digest is kept as it is.
LEMMA KeptWhole ==
    ASSUME Undisturbed, NEW m \in [Findings -> Change], Proper(m)
    PROVE  Truncate(m) = m
<1>1. Mentioned(m) \in SUBSET Findings
  BY DEF Mentioned
<1>2. Cardinality(Mentioned(m)) <= Cardinality(Findings)
  BY <1>1, OrderAssumption, FS_Subset
<1>3. Cardinality(Mentioned(m)) \in Nat /\ Cardinality(Findings) \in Nat /\ MaxPending \in Nat
  BY MentionsFinite, OrderAssumption, FS_CardinalityType, ChannelAssumption
<1> QED
  BY <1>2, <1>3, TruncateFillsTheCap DEF Undisturbed

\* What ExactInv says of one channel.
ExactFor(ch) ==
    \A f \in Findings :
        /\ owed[ch][f] = IF pc[ch] = "forget" THEN "none" ELSE Outbox(ch)[f].kind
        /\ Believe(belief[ch][f], owed[ch][f]) = ideal[ch][f]

\* No message, nothing owed.
LEMMA InitIsExact == Init => ExactInv
<1>1. NoChange.kind = "none" /\ \A f \in Findings : Empty[f] = NoChange
  BY DEF NoChange, Empty
<1> QED
  BY <1>1 DEF Init, DispatchInit, ExactInv, Outbox, Believe

\* The new changes are owed, and the digest to be has them.
LEMMA RecordIsExact ==
    ASSUME RunInv, ExactInv, NEW res \in Results, Record(res), NEW ch \in Channels
    PROVE  ExactFor(ch)'
<1> DEFINE changes == [f \in Findings |-> ChangeOf(rows[f], f, res)]
<1>1. changes \in [Findings -> Change]
  BY ChangeOfTyped DEF Record, RunInv, TypeOK
<1>2. StartDispatch(changes) /\ pc[ch] = "idle"
  BY DEF Record, ExactInv
<1> HIDE DEF changes
<1> SUFFICES ASSUME NEW f \in Findings
             PROVE  /\ owed'[ch][f] = IF pc'[ch] = "forget" THEN "none" ELSE Outbox(ch)'[f].kind
                    /\ Believe(belief'[ch][f], owed'[ch][f]) = ideal'[ch][f]
  BY DEF ExactFor
<1> DEFINE kind == Filter(ch, changes)[f].kind
<1>3. /\ Filter(ch, changes) \in [Findings -> Change] /\ Proper(Filter(ch, changes))
      /\ kind \in Kinds \cup {"none"}
  BY <1>1, FilterTyped, NoChangeKind
<1>4. /\ owed'[ch][f] = Owe(owed[ch][f], kind)
      /\ ideal'[ch][f] = Believe(ideal[ch][f], kind)
      /\ belief' = belief
  BY <1>2 DEF StartDispatch
<1>5. /\ owed[ch][f] = pending[ch][f].kind
      /\ Believe(belief[ch][f], owed[ch][f]) = ideal[ch][f]
      /\ owed[ch][f] \in Kinds \cup {"none"}
  <2>1. Outbox(ch) = pending[ch]
    BY <1>2 DEF Outbox
  <2>2. /\ owed[ch][f] = IF pc[ch] = "forget" THEN "none" ELSE Outbox(ch)[f].kind
        /\ Believe(belief[ch][f], owed[ch][f]) = ideal[ch][f]
    BY DEF ExactInv
  <2>3. owed[ch][f] \in Kinds \cup {"none"}
    BY DEF RunInv, TypeOK
  <2> QED
    BY <1>2, <2>1, <2>2, <2>3
<1>6. pc'[ch] = "get" /\ Outbox(ch)' = Merge(pending[ch], Filter(ch, changes))
  BY <1>2 DEF StartDispatch, Outbox, Filter, Wanted, Merge
<1>7. Outbox(ch)'[f].kind = Owe(pending[ch][f].kind, kind)
  <2>1. pending[ch] \in [Findings -> Change] /\ Proper(pending[ch])
    BY DEF RunInv, TypeOK, DeliverInv
  <2>2. Merge(pending[ch], Filter(ch, changes))[f].kind = Owe(pending[ch][f].kind, kind)
    BY <1>3, <2>1, MergeOwes
  <2> QED
    BY <1>6, <2>2
<1>8. owed'[ch][f] = Outbox(ch)'[f].kind
  BY <1>4, <1>5, <1>7
<1>9. Believe(belief'[ch][f], owed'[ch][f]) = ideal'[ch][f]
  BY <1>3, <1>4, <1>5, MergedTellsTheSame
<1> QED
  BY <1>6, <1>8, <1>9

\* What is to be sent stays what is owed, through every way a delivery goes.
LEMMA DeliverIsExact ==
    ASSUME Undisturbed, RunInv, ExactInv, NEW ch \in Channels, Deliver(ch)
    PROVE  ExactFor(ch)'
<1>1. /\ Loads(ch) \/ Waits(ch) \/ Sends(ch) \/ SendsInPart(ch) \/ Keeps(ch) \/ Forgets(ch)
      /\ UNCHANGED <<diff, cancelled, ideal>>
  BY DeliverMoves DEF RunInv
<1>2. /\ \A f \in Findings : owed[ch][f] = IF pc[ch] = "forget" THEN "none" ELSE Outbox(ch)[f].kind
      /\ \A f \in Findings : Believe(belief[ch][f], owed[ch][f]) = ideal[ch][f]
      /\ ~CanFail("get") /\ ~CanFail("forget") /\ "keep" \notin Faults
  BY DEF ExactInv, CanFail, Undisturbed
<1>3. /\ pending \in [Channels -> [Findings -> Change]] /\ msg \in [Channels -> [Findings -> Change]]
      /\ Proper(pending[ch]) /\ Proper(msg[ch])
      /\ pc[ch] \in {"due", "send", "keep", "forget"} => Mentioned(pending[ch]) \subseteq Mentioned(msg[ch])
      /\ pc[ch] = "due" => msg[ch] = Empty
  BY DEF RunInv, TypeOK, DeliverInv
<1>4. /\ Empty \in [Findings -> Change] /\ Mentioned(Empty) = {}
      /\ \A f \in Findings : Empty[f].kind = "none"
  BY EmptyTyped DEF Empty, NoChange
\* Nothing is kept for a channel whose digest is empty.
<1>5. ASSUME Mentioned(pending[ch]) \subseteq Mentioned(Empty) PROVE pending[ch] = Empty
  BY <1>3, <1>4, <1>5, EmptyMentions
<1>6. CASE Loads(ch)
  <2> DEFINE m == Merge(pending[ch], Filter(ch, diff))
  <2>1. /\ pc[ch] = "get" /\ msg' = [msg EXCEPT ![ch] = m] /\ UNCHANGED <<pending, owed, belief>>
        /\ \/ m # Empty /\ pc'[ch] = "send"
           \/ m = Empty /\ pc'[ch] \in {"due", "done"}
    BY <1>6 DEF Loads
  <2>2. Outbox(ch) = m
    BY <2>1 DEF Outbox
  <2>3. Mentioned(pending[ch]) \subseteq Mentioned(m)
    BY <1>3, FilterTyped, MergeOwes DEF RunInv, TypeOK
  <2> HIDE DEF m
  <2>4. msg'[ch] = m
    BY <1>3, <2>1
  <2>5. Outbox(ch)' = m /\ pc'[ch] # "forget"
    <3>1. CASE pc'[ch] \in {"send", "due"}
      BY <2>4, <3>1 DEF Outbox
    <3>2. CASE pc'[ch] = "done"
      <4>1. m = Empty /\ pending[ch] = Empty
        BY <1>5, <2>1, <2>3, <3>2
      <4> QED
        BY <2>1, <3>2, <4>1 DEF Outbox
    <3> QED
      BY <2>1, <3>1, <3>2
  <2> QED
    BY <1>1, <1>2, <2>1, <2>2, <2>5 DEF ExactFor
<1>7. CASE Waits(ch)
  <2>1. /\ UNCHANGED <<pending, msg, owed, belief>>
        /\ \/ pc[ch] = "due" /\ pc'[ch] \in {"send", "done"}
           \/ pc[ch] = "stamp" /\ pc'[ch] = "done"
    BY <1>2, <1>7 DEF Waits
  <2>2. Outbox(ch)' = Outbox(ch)
    <3>1. CASE pc[ch] = "due"
      <4>1. msg[ch] = Empty /\ pending[ch] = Empty
        BY <1>3, <1>5, <3>1
      <4> QED
        BY <2>1, <3>1, <4>1 DEF Outbox
    <3>2. CASE pc[ch] = "stamp"
      BY <2>1, <3>2 DEF Outbox
    <3> QED
      BY <2>1, <3>1, <3>2
  <2>3. pc[ch] # "forget" /\ pc'[ch] # "forget"
    BY <2>1
  <2> QED
    BY <1>1, <1>2, <2>1, <2>2, <2>3 DEF ExactFor
<1>8. CASE Sends(ch)
  <2>1. /\ pc[ch] = "send" /\ Send(ch) /\ UNCHANGED <<pending, msg>>
        /\ pc'[ch] = IF pending[ch] # Empty THEN "forget" ELSE "stamp"
        /\ Receive(ch, Mentioned(msg[ch]))
    BY <1>8 DEF Sends, Send
  <2> SUFFICES ASSUME NEW f \in Findings
               PROVE  /\ owed'[ch][f] = IF pc'[ch] = "forget" THEN "none" ELSE Outbox(ch)'[f].kind
                      /\ Believe(belief'[ch][f], owed'[ch][f]) = ideal'[ch][f]
    BY DEF ExactFor
  <2>2. owed[ch][f] = msg[ch][f].kind
    BY <1>2, <2>1 DEF Outbox
  <2>3. owed'[ch][f] = "none"
    BY <2>1, <2>2, SendSettles DEF RunInv
  <2>4. belief'[ch][f] = Believe(belief[ch][f], msg[ch][f].kind)
    <3>1. CASE f \in Mentioned(msg[ch])
      BY <2>1, <3>1, ReceiveTyped DEF RunInv
    <3>2. CASE f \notin Mentioned(msg[ch])
      <4>1. msg[ch][f].kind = "none"
        BY <3>2 DEF Mentioned, NoChange
      <4> QED
        BY <2>1, <3>2, <4>1, ReceiveTyped, ToldTwice DEF RunInv
    <3> QED
      BY <3>1, <3>2
  <2>5. Believe(belief'[ch][f], owed'[ch][f]) = ideal'[ch][f]
    BY <1>1, <1>2, <2>2, <2>3, <2>4, ToldTwice
  <2>6. pc'[ch] # "forget" => Outbox(ch)'[f].kind = "none"
    BY <1>4, <2>1 DEF Outbox
  <2> QED
    BY <2>3, <2>5, <2>6
<1>9. CASE SendsInPart(ch)
  <2>1. /\ pc[ch] = "send" /\ UNCHANGED <<pending, msg, owed>>
        /\ pc'[ch] = IF msg[ch] # Empty THEN "keep" ELSE "done"
    BY <1>9 DEF SendsInPart
  <2>2. PICK part \in Parts(ch) : Receive(ch, part)
    BY <1>9 DEF SendsInPart
  <2>3. Outbox(ch)' = Outbox(ch) /\ Outbox(ch) = msg[ch] /\ pc'[ch] # "forget"
    <3>1. CASE msg[ch] # Empty
      BY <2>1, <3>1 DEF Outbox
    <3>2. CASE msg[ch] = Empty
      <4>1. pending[ch] = Empty
        BY <1>3, <1>5, <2>1, <3>2
      <4> QED
        BY <2>1, <3>2, <4>1 DEF Outbox
    <3> QED
      BY <3>1, <3>2
  <2>4. ASSUME NEW f \in Findings PROVE Believe(belief'[ch][f], owed'[ch][f]) = ideal'[ch][f]
    <3>1. owed'[ch][f] = owed[ch][f] /\ owed[ch][f] = msg[ch][f].kind
      BY <1>2, <2>1, <2>3
    <3>2. belief'[ch][f] \in {belief[ch][f], Believe(belief[ch][f], msg[ch][f].kind)}
      BY <2>2, ReceiveTyped DEF RunInv
    <3> QED
      BY <1>1, <1>2, <3>1, <3>2, ToldTwice
  <2> QED
    BY <1>2, <2>1, <2>3, <2>4 DEF ExactFor
<1>10. CASE Keeps(ch)
  <2>1. /\ pc[ch] = "keep" /\ pc'[ch] = "done" /\ UNCHANGED <<msg, owed, belief>>
        /\ pending'[ch] = msg[ch]
    BY <1>3, <1>10, KeptWhole DEF Keeps
  <2>2. Outbox(ch)' = Outbox(ch)
    BY <2>1 DEF Outbox
  <2> QED
    BY <1>1, <1>2, <2>1, <2>2 DEF ExactFor
<1>11. CASE Forgets(ch)
  <2>1. /\ pc[ch] = "forget" /\ pc'[ch] = "stamp" /\ UNCHANGED <<msg, owed, belief>>
        /\ pending'[ch] = Empty
    BY <1>3, <1>11 DEF Forgets
  <2>2. Outbox(ch)' = Empty
    BY <2>1 DEF Outbox
  <2> QED
    BY <1>1, <1>2, <1>4, <2>1, <2>2 DEF ExactFor
<1> QED
  BY <1>1, <1>6, <1>7, <1>8, <1>9, <1>10, <1>11

\* Every step keeps the digest and the debt the same.
LEMMA StepIsExact ==
    ASSUME Undisturbed PROVE RunInv /\ ExactInv /\ [Next]_vars => ExactInv'
<1> SUFFICES ASSUME RunInv, ExactInv, [Next]_vars PROVE ExactInv'
  OBVIOUS
<1>1. ExactInv <=> /\ ~cancelled
                   /\ stage # "dispatching" => \A ch \in Channels : pc[ch] = "idle"
                   /\ \A ch \in Channels : ExactFor(ch)
  BY DEF ExactInv, ExactFor
<1>2. ExactInv' <=> /\ ~cancelled'
                    /\ stage' # "dispatching" => \A ch \in Channels : pc'[ch] = "idle"
                    /\ \A ch \in Channels : ExactFor(ch)'
  BY DEF ExactInv, ExactFor
\* A step that leaves a channel's delivery and histories alone.
<1>3. ASSUME NEW ch \in Channels, diff' = diff, ideal' = ideal, pc'[ch] = pc[ch],
             pending'[ch] = pending[ch], msg'[ch] = msg[ch], owed'[ch] = owed[ch],
             belief'[ch] = belief[ch]
      PROVE  ExactFor(ch)'
  <2>1. Outbox(ch)' = Outbox(ch)
    BY <1>3 DEF Outbox, Merge, Filter, Wanted
  <2> QED
    BY <1>1, <1>3, <2>1 DEF ExactFor
<1>4. CASE Begin \/ ProbeFails \/ Restart \/ Tick \/ UNCHANGED vars
  <2>1. /\ UNCHANGED <<diff, pending, pc, msg, owed, belief, ideal>>
        /\ cancelled' = cancelled \/ cancelled' = FALSE
    BY <1>4 DEF Begin, ProbeFails, Restart, Tick, vars, dispatchVars, channelVars
  <2>2. stage' # "dispatching" => stage # "dispatching"
    BY <1>4 DEF Begin, ProbeFails, Restart, Tick, vars
  <2> QED
    BY <1>1, <1>2, <1>3, <2>1, <2>2
<1>5. CASE RunCanceled \/ Cancel \/ Crash
  BY <1>1, <1>5 DEF RunCanceled, Cancel, Crash, Undisturbed
<1>6. ASSUME NEW res \in Results, Record(res) PROVE ExactInv'
  <2>1. stage' = "dispatching" /\ cancelled' = cancelled
    BY <1>6 DEF Record, StartDispatch
  <2> QED
    BY <1>1, <1>2, <1>6, <2>1, RecordIsExact
<1>7. ASSUME NEW ch \in Channels, Deliver(ch), UNCHANGED <<rows, stage>> PROVE ExactInv'
  <2>1. /\ Loads(ch) \/ Waits(ch) \/ Sends(ch) \/ SendsInPart(ch) \/ Keeps(ch) \/ Forgets(ch)
        /\ \A other \in Channels : other # ch => pc'[other] = pc[other]
        /\ UNCHANGED <<diff, cancelled, ideal>>
    BY <1>7, DeliverMoves DEF RunInv
  <2>2. ASSUME NEW other \in Channels, other # ch
        PROVE  /\ pending'[other] = pending[other] /\ msg'[other] = msg[other]
               /\ owed'[other] = owed[other] /\ belief'[other] = belief[other]
    <3>1. CASE Sends(ch)
      <4>1. Send(ch) /\ Receive(ch, Mentioned(msg[ch])) /\ UNCHANGED <<pending, msg>>
        BY <3>1 DEF Sends, Send
      <4> QED
        BY <2>2, <4>1, ReceiveTyped, SendSettles DEF RunInv
    <3>2. CASE SendsInPart(ch)
      <4>1. PICK part \in Parts(ch) : Receive(ch, part)
        BY <3>2 DEF SendsInPart
      <4> QED
        BY <2>2, <3>2, <4>1, ReceiveTyped DEF RunInv, SendsInPart
    <3>3. CASE Loads(ch) \/ Waits(ch) \/ Keeps(ch) \/ Forgets(ch)
      BY <2>2, <3>3 DEF Loads, Waits, Keeps, Forgets, RunInv, TypeOK
    <3> QED
      BY <2>1, <3>1, <3>2, <3>3
  <2>3. ASSUME NEW other \in Channels PROVE ExactFor(other)'
    BY <1>3, <1>7, <2>1, <2>2, DeliverIsExact
  <2>4. stage = "dispatching" /\ stage' = stage
    <3>1. pc[ch] # "idle"
      BY <2>1 DEF Loads, Waits, Sends, SendsInPart, Keeps, Forgets
    <3> QED
      BY <1>1, <1>7, <3>1
  <2> QED
    BY <1>1, <1>2, <2>1, <2>3, <2>4
<1>8. ASSUME NEW old \in SUBSET Prunable, Finish(old) PROVE ExactInv'
  <2>1. /\ \A ch \in Channels : pc[ch] = "done"
        /\ pc' = [ch \in Channels |-> "idle"]
        /\ UNCHANGED <<cancelled, pending, owed, belief, ideal>>
    BY <1>8 DEF Finish, Dispatched
  <2>2. ASSUME NEW ch \in Channels PROVE ExactFor(ch)'
    <3>1. pc[ch] = "done" /\ pc'[ch] = "idle"
      BY <2>1
    <3>2. Outbox(ch) = pending[ch] /\ Outbox(ch)' = pending[ch]
      BY <2>1, <3>1 DEF Outbox
    <3> QED
      BY <1>1, <2>1, <3>1, <3>2 DEF ExactFor
  <2> QED
    BY <1>1, <1>2, <2>1, <2>2
<1> QED
  BY <1>4, <1>5, <1>6, <1>7, <1>8 DEF Next

(***************************************************************************)
(* While no run is interrupted, only sends and stamps fail and the cap is  *)
(* not reached, what is to be sent is what is owed, for any findings,      *)
(* channels and rules, and through any number of runs.                     *)
(***************************************************************************)
THEOREM DeliveryIsExact == ASSUME Undisturbed PROVE Spec => []ExactInv
<1>1. RunInv /\ ExactInv /\ [Next]_vars => (RunInv /\ ExactInv)'
  BY StepHolds, StepIsExact
<1> QED
  BY <1>1, InitHolds, InitIsExact, PTL DEF Spec

(***************************************************************************)
(* Then no change is lost (Dispatch): it is in the database or under way.  *)
(***************************************************************************)
THEOREM ChangesAreNotLost == ASSUME Undisturbed PROVE Spec => []NothingLost
<1>1. ExactInv => NothingLost
  BY DEF ExactInv, NothingLost
<1> QED
  BY <1>1, DeliveryIsExact, PTL

(***************************************************************************)
(* And a reader who is owed nothing believes what separate, never failing  *)
(* messages would have told (merge).                                       *)
(***************************************************************************)
THEOREM ReadersCatchUp == ASSUME Undisturbed PROVE Spec => []ReaderCatchesUp
<1>1. ExactInv => ReaderCatchesUp
  BY ToldTwice DEF ExactInv, ReaderCatchesUp
<1> QED
  BY <1>1, DeliveryIsExact, PTL

=============================================================================
