-------------------------- MODULE Commands_proofs --------------------------
(***************************************************************************)
(* The commands, for any checks, names, globs, configs, flags and          *)
(* failures: Match says what a glob means, the checks that run are those   *)
(* the patterns choose, a command leaves whole reports behind or none, the *)
(* baseline survives renames, and a build passes or fails for the reason a *)
(* reader of the config would give.                                        *)
(***************************************************************************)
EXTENDS Commands, WellFoundedInduction, TLAPS

\* Every set of natural numbers that is not empty has a least element: the
\* proofs by induction below are about the least counterexample.
LEMMA Least ==
    ASSUME NEW S \in SUBSET Nat, S # {}
    PROVE \E x \in S : \A y \in S : x <= y
<1>1. IsWellFoundedOn(OpToRel(<, Nat), Nat)
  BY NatLessThanWellFounded
<1>2. PICK x \in S : \A y \in S : ~(<<y, x>> \in OpToRel(<, Nat))
  BY <1>1, WFMin
<1>3. OpToRel(<, Nat) = {ss \in Nat \X Nat : ss[1] < ss[2]}
  BY DEF OpToRel
<1>4. ASSUME NEW y \in S PROVE x <= y
  <2>1. <<y, x>> \in Nat \X Nat /\ ~(y < x)
    BY <1>2, <1>3
  <2> QED BY <2>1
<1> QED BY <1>4

\* Induction over the natural numbers, for a set of them.
LEMMA Induction ==
    ASSUME NEW S \in SUBSET Nat, 0 \in S, \A n \in S : n + 1 \in S
    PROVE  S = Nat
<1> SUFFICES ASSUME S # Nat PROVE FALSE
  OBVIOUS
<1>1. PICK n \in Nat \ S : \A m \in Nat \ S : n <= m
  <2>1. Nat \ S \in SUBSET Nat /\ Nat \ S # {}
    OBVIOUS
  <2> QED BY <2>1, Least
<1>2. n # 0 /\ n - 1 \in Nat
  BY <1>1
<1>3. n - 1 \in S
  BY <1>1, <1>2
<1> QED BY <1>1, <1>2, <1>3

\* A recursion over S that goes from x to next[x] and ends in ends; size tells
\* that it does.
Descends(S, V, size, next, ends, base, step) ==
    /\ size \in [S -> Nat] /\ next \in [S -> S]
    /\ base \in [S -> V] /\ step \in [S -> [V -> V]]
    /\ \A x \in S : x \notin ends => size[next[x]] < size[x]

\* What the recursion defines: f does what its defining equation says.
Unfolds(f, S, V, next, ends, base, step) ==
    /\ f \in [S -> V]
    /\ \A x \in S : f[x] = IF x \in ends THEN base[x] ELSE step[x][f[next[x]]]

\* A recursion that descends defines a function: it has been solved for all x of
\* a size less than n, two solutions agree where both are defined, and so on.
LEMMA Recursion ==
    ASSUME NEW S, NEW V, NEW size, NEW next, NEW ends, NEW base, NEW step,
           Descends(S, V, size, next, ends, base, step)
    PROVE  \E f : Unfolds(f, S, V, next, ends, base, step)
<1> USE DEF Descends
<1> DEFINE Below(n) == {x \in S : size[x] < n}
           Solves(g, D) ==
              \A x \in D : g[x] = IF x \in ends THEN base[x] ELSE step[x][g[next[x]]]
           Solved == {n \in Nat : \E g \in [Below(n) -> V] : Solves(g, Below(n))}
<1>1. ASSUME NEW m \in Nat, NEW n \in Nat,
             NEW g, NEW h, Solves(g, Below(m)), Solves(h, Below(n)),
             NEW x \in Below(m) \cap Below(n)
      PROVE  g[x] = h[x]
  <2> DEFINE bad == {y \in Below(m) \cap Below(n) : g[y] # h[y]}
             sizes == {size[y] : y \in bad}
  <2> SUFFICES ASSUME bad # {} PROVE FALSE
    BY <1>1
  <2>1. sizes \in SUBSET Nat /\ sizes # {}
    OBVIOUS
  <2>2. PICK s \in sizes : \A r \in sizes : s <= r
    <3> HIDE DEF sizes
    <3> QED BY <2>1, Least
  <2>3. PICK y \in bad : \A z \in bad : size[y] <= size[z]
    BY <2>2
  <2>4. y \in S /\ y \in Below(m) /\ y \in Below(n) /\ g[y] # h[y]
    BY <2>3
  <2>5. y \notin ends
    BY <1>1, <2>4
  <2>6. next[y] \in S /\ size[next[y]] < size[y]
    BY <2>4, <2>5
  <2>7. next[y] \in Below(m) /\ next[y] \in Below(n)
    BY <2>4, <2>6
  <2>8. next[y] \notin bad
    BY <2>3, <2>4, <2>6
  <2>9. g[next[y]] = h[next[y]]
    BY <2>7, <2>8
  <2> QED BY <1>1, <2>4, <2>5, <2>9
<1>2. Solved = Nat
  <2>1. 0 \in Solved
    <3>1. Below(0) = {}
      OBVIOUS
    <3>2. [x \in {} |-> base[x]] \in [Below(0) -> V]
      BY <3>1
    <3> QED BY <3>1, <3>2
  <2>2. ASSUME NEW n \in Solved PROVE n + 1 \in Solved
    <3>1. PICK g \in [Below(n) -> V] : Solves(g, Below(n))
      BY <2>2
    <3> DEFINE h == [x \in Below(n + 1) |->
                       IF x \in ends THEN base[x] ELSE step[x][g[next[x]]]]
    <3>2. ASSUME NEW x \in Below(n + 1), x \notin ends
          PROVE  next[x] \in Below(n) /\ next[x] \in Below(n + 1)
      BY <3>2
    <3>3. h \in [Below(n + 1) -> V]
      <4> SUFFICES ASSUME NEW x \in Below(n + 1)
                   PROVE  (IF x \in ends THEN base[x] ELSE step[x][g[next[x]]]) \in V
        OBVIOUS
      <4>1. CASE x \in ends
        BY <4>1
      <4>2. CASE x \notin ends
        BY <4>2, <3>2, <3>1
      <4> QED BY <4>1, <4>2
    <3>4. ASSUME NEW x \in Below(n) PROVE h[x] = g[x]
      <4>1. x \in Below(n + 1)
        BY <3>4
      <4>2. h[x] = IF x \in ends THEN base[x] ELSE step[x][g[next[x]]]
        BY <4>1
      <4> QED BY <4>2, <3>1
    <3>5. Solves(h, Below(n + 1))
      <4> SUFFICES ASSUME NEW x \in Below(n + 1)
                   PROVE  h[x] = IF x \in ends THEN base[x] ELSE step[x][h[next[x]]]
        OBVIOUS
      <4>1. h[x] = IF x \in ends THEN base[x] ELSE step[x][g[next[x]]]
        OBVIOUS
      <4> HIDE DEF h
      <4> QED BY <4>1, <3>2, <3>4
    <3>6. n + 1 \in Nat
      OBVIOUS
    <3> HIDE DEF h, Below, Solves
    <3> QED BY <3>3, <3>5, <3>6
  <2> HIDE DEF Solved
  <2> QED
    <3>1. Solved \in SUBSET Nat
      BY DEF Solved
    <3> QED BY <2>1, <2>2, <3>1, Induction
<1> DEFINE G == [n \in Nat |-> CHOOSE g \in [Below(n) -> V] : Solves(g, Below(n))]
           f == [x \in S |-> G[size[x] + 1][x]]
<1>3. ASSUME NEW n \in Nat PROVE G[n] \in [Below(n) -> V] /\ Solves(G[n], Below(n))
  <2>1. \E g \in [Below(n) -> V] : Solves(g, Below(n))
    BY <1>2
  <2>2. G[n] = CHOOSE g \in [Below(n) -> V] : Solves(g, Below(n))
    OBVIOUS
  <2> QED BY <2>1, <2>2
<1> HIDE DEF G, Solved
<1>4. ASSUME NEW x \in S PROVE x \in Below(size[x] + 1) /\ size[x] + 1 \in Nat
  OBVIOUS
<1>5. f \in [S -> V]
  BY <1>3, <1>4
<1>6. ASSUME NEW x \in S
      PROVE  f[x] = IF x \in ends THEN base[x] ELSE step[x][f[next[x]]]
  <2>1. f[x] = G[size[x] + 1][x]
    OBVIOUS
  <2>2. G[size[x] + 1][x] =
           IF x \in ends THEN base[x] ELSE step[x][G[size[x] + 1][next[x]]]
    BY <1>3, <1>4
  <2>3. CASE x \notin ends
    <3>1. next[x] \in S /\ size[next[x]] < size[x] /\ size[x] \in Nat /\ size[next[x]] \in Nat
      BY <2>3
    <3>2. next[x] \in Below(size[x] + 1) \cap Below(size[next[x]] + 1)
      BY <3>1
    <3>3. G[size[x] + 1][next[x]] = G[size[next[x]] + 1][next[x]]
      <4> HIDE DEF Solves, Below
      <4> QED BY <1>1, <1>3, <3>1, <3>2
    <3>4. f[next[x]] = G[size[next[x]] + 1][next[x]]
      BY <3>1
    <3> HIDE DEF f
    <3> QED BY <2>1, <2>2, <3>3, <3>4
  <2> HIDE DEF f
  <2> QED BY <2>1, <2>2, <2>3
<1> HIDE DEF f
<1> QED BY <1>5, <1>6 DEF Unfolds

\* The equations of Covers: R[p] are the places in the ID where the rest of the
\* glob after its first p letters may begin.
Reads(glob, id, R) ==
    /\ R \in [0..Len(glob) -> SUBSET (0..Len(id))]
    /\ R[Len(glob)] = {Len(id)}
    /\ \A p \in 0..Len(glob) - 1 :
          R[p] = IF glob[p + 1] = Star THEN {s \in 0..Len(id) : \E e \in R[p + 1] : s <= e}
                 ELSE {s \in 0..Len(id) - 1 :
                         s + 1 \in R[p + 1] /\ glob[p + 1] \in {One, id[s + 1]}}

\* The function in Covers exists and satisfies its equations.
LEMMA CoversReads ==
    ASSUME NEW L, NEW glob \in Seq(L), NEW id \in Seq(L)
    PROVE  \E R : Reads(glob, id, R) /\ (Covers(glob, id) <=> 0 \in R[0])
<1> DEFINE S == 0..Len(glob)
           V == SUBSET (0..Len(id))
           Before(p, rest) ==
              IF glob[p + 1] = Star THEN {s \in 0..Len(id) : \E e \in rest : s <= e}
              ELSE {s \in 0..Len(id) - 1 : s + 1 \in rest /\ glob[p + 1] \in {One, id[s + 1]}}
           Body(F, p) == IF p = Len(glob) THEN {Len(id)} ELSE Before(p, F[p + 1])
           size == [p \in S |-> Len(glob) - p]
           next == [p \in S |-> IF p = Len(glob) THEN p ELSE p + 1]
           ends == {Len(glob)}
           base == [p \in S |-> {Len(id)}]
           step == [p \in S |-> [rest \in V |-> Before(p, rest)]]
           R == CHOOSE F : F = [p \in S |-> Body(F, p)]
<1>1. Len(glob) \in Nat /\ Len(id) \in Nat
  OBVIOUS
<1>2. \E F : Unfolds(F, S, V, next, ends, base, step)
  <2>1. size \in [S -> Nat] /\ next \in [S -> S] /\ base \in [S -> V]
    BY <1>1
  <2>2. step \in [S -> [V -> V]]
    <3>1. \A p \in S, rest \in V : Before(p, rest) \in V
      BY <1>1
    <3> QED BY <3>1
  <2>3. \A p \in S : p \notin ends => size[next[p]] < size[p]
    BY <1>1
  <2> HIDE DEF size, next, base, step, V, S, ends, R, Body, Before
  <2>4. Descends(S, V, size, next, ends, base, step)
    BY <2>1, <2>2, <2>3 DEF Descends
  <2> QED BY <2>4, Recursion
<1>3. PICK F \in [S -> V] : F = [p \in S |-> Body(F, p)]
  <2>1. PICK F \in [S -> V] :
           \A p \in S : F[p] = IF p \in ends THEN base[p] ELSE step[p][F[next[p]]]
    BY <1>2 DEF Unfolds
  <2>2. ASSUME NEW p \in S PROVE F[p] = Body(F, p)
    <3>1. CASE p = Len(glob)
      BY <3>1, <2>1
    <3>2. CASE p # Len(glob)
      <4>1. next[p] = p + 1 /\ p + 1 \in S
        BY <3>2, <1>1
      <4>2. F[p + 1] \in V /\ F[p] = step[p][F[p + 1]]
        BY <4>1, <2>1, <3>2
      <4> HIDE DEF V
      <4>3. F[p] = Before(p, F[p + 1])
        BY <4>2
      <4> QED BY <3>2, <4>3
    <3> QED BY <3>1, <3>2
  <2>3. F = [p \in S |-> Body(F, p)]
    <3> HIDE DEF Body, S, V
    <3> QED BY <2>1, <2>2
  <2> HIDE DEF Body, S, V
  <2> QED BY <2>1, <2>3
<1>4. R = [p \in S |-> Body(R, p)]
  <2> HIDE DEF Body
  <2> QED BY <1>3
<1>5. Covers(glob, id) <=> 0 \in R[0]
  BY Zenon DEF Covers
<1> HIDE DEF R
<1>6. \A p \in S : R[p] = Body(R, p)
  <2> HIDE DEF Body
  <2> QED BY <1>4
<1>7. R \in [S -> V]
  <2>1. \A p \in S : Body(R, p) \in V
    BY <1>1
  <2> HIDE DEF Body, V
  <2> QED BY <2>1, <1>4
<1>8. Reads(glob, id, R)
  <2>1. R[Len(glob)] = {Len(id)}
    <3>1. Len(glob) \in S
      BY <1>1
    <3> HIDE DEF S, Before
    <3> QED BY <3>1, <1>6
  <2>2. ASSUME NEW p \in 0..Len(glob) - 1 PROVE R[p] = Before(p, R[p + 1])
    <3>1. p \in S /\ p # Len(glob)
      BY <1>1
    <3> HIDE DEF Before
    <3> QED BY <1>6, <3>1
  <2> QED BY <2>1, <2>2, <1>7 DEF Reads
<1> QED BY <1>5, <1>8

\* What the next round of Match looks at: a letter further, after a star, or back
\* at the last star, which covers one letter more.
OnLetter(at) == Spot(at.p + 1, at.s + 1, at.star, at.mark)
OnStar(at) == Spot(at.p + 1, at.s, at.p, at.s)
Back(at) == Spot(at.star + 1, at.mark + 1, at.star, at.mark + 1)

LetterAt(glob, id, at) == at.p < Len(glob) /\ glob[at.p + 1] \in {One, id[at.s + 1]}
StarAt(glob, at) == at.p < Len(glob) /\ glob[at.p + 1] = Star

\* The equations of Match, one round of the loop after the other.
Walks(glob, id, W) ==
    \A at \in Spots(glob, id) :
       W[at] = IF at.s = Len(id) THEN \A i \in at.p + 1 .. Len(glob) : glob[i] = Star
               ELSE IF LetterAt(glob, id, at) THEN W[OnLetter(at)]
               ELSE IF StarAt(glob, at) THEN W[OnStar(at)]
               ELSE at.star >= 0 /\ W[Back(at)]

\* What is known of a place where Match can be.
LEMMA SpotTyped ==
    ASSUME NEW L, NEW glob \in Seq(L), NEW id \in Seq(L), NEW at \in Spots(glob, id)
    PROVE  /\ Len(glob) \in Nat /\ Len(id) \in Nat
           /\ at = [p |-> at.p, s |-> at.s, star |-> at.star, mark |-> at.mark]
           /\ at.p \in 0..Len(glob) /\ at.s \in 0..Len(id)
           /\ at.star \in -1..Len(glob) /\ at.mark \in 0..Len(id)
           /\ at.star < at.p /\ at.mark <= at.s
  BY DEF Spots

\* Every round ends at such a place again.
LEMMA SpotMoves ==
    ASSUME NEW L, NEW glob \in Seq(L), NEW id \in Seq(L), NEW at \in Spots(glob, id),
           at.s # Len(id)
    PROVE  /\ at.p < Len(glob) => OnLetter(at) \in Spots(glob, id)
           /\ at.p < Len(glob) => OnStar(at) \in Spots(glob, id)
           /\ at.star >= 0 => Back(at) \in Spots(glob, id)
<1>1. at.p < Len(glob) => OnLetter(at) \in Spots(glob, id)
  BY SpotTyped DEF Spots, OnLetter, Spot
<1>2. at.p < Len(glob) => OnStar(at) \in Spots(glob, id)
  BY SpotTyped DEF Spots, OnStar, Spot
<1>3. at.star >= 0 => Back(at) \in Spots(glob, id)
  BY SpotTyped DEF Spots, Back, Spot
<1> QED BY <1>1, <1>2, <1>3

\* Each round leaves less to do: a star further on, the last one longer, or one letter more.
SizeOf(glob, id, at) ==
    (Len(glob) - at.star + Len(id) - at.mark) * (Len(id) + 2) + (Len(id) - at.s)

\* Two numbers compared by their first digit.
LEMMA LessIsLess ==
    ASSUME NEW a \in Nat, NEW b \in Nat, NEW c \in Nat, NEW d \in Nat, NEW k \in Nat,
           b < a, d < k
    PROVE  b * k + d < a * k + c
<1>1. (b + 1) * k <= a * k
  OBVIOUS
<1>2. (b + 1) * k = b * k + k
  OBVIOUS
<1>3. a * k \in Nat /\ b * k \in Nat
  OBVIOUS
<1> QED BY <1>1, <1>2, <1>3

\* The size is a natural number.
LEMMA SizeTyped ==
    ASSUME NEW L, NEW glob \in Seq(L), NEW id \in Seq(L), NEW at \in Spots(glob, id)
    PROVE  SizeOf(glob, id, at) \in Nat
<1> DEFINE a == Len(glob) - at.star + Len(id) - at.mark
           k == Len(id) + 2
           c == Len(id) - at.s
<1>1. a \in Nat
  BY SpotTyped
<1>2. k \in Nat /\ c \in Nat
  BY SpotTyped
<1>3. SizeOf(glob, id, at) = a * k + c
  BY DEF SizeOf
<1> HIDE DEF a, k, c
<1> QED BY <1>1, <1>2, <1>3

\* Each of the three kinds of round makes it smaller: Match terminates.
LEMMA SizeShrinks ==
    ASSUME NEW L, NEW glob \in Seq(L), NEW id \in Seq(L), NEW at \in Spots(glob, id),
           at.s # Len(id)
    PROVE  /\ at.p < Len(glob) => SizeOf(glob, id, OnLetter(at)) < SizeOf(glob, id, at)
           /\ at.p < Len(glob) => SizeOf(glob, id, OnStar(at)) < SizeOf(glob, id, at)
           /\ at.star >= 0 => SizeOf(glob, id, Back(at)) < SizeOf(glob, id, at)
<1> DEFINE a == Len(glob) - at.star + Len(id) - at.mark
           k == Len(id) + 2
           c == Len(id) - at.s
<1>1. a \in Nat /\ k \in Nat /\ c \in Nat /\ c < k /\ a * k \in Nat
  <2>1. a \in Nat
    BY SpotTyped
  <2>2. k \in Nat /\ c \in Nat /\ c < k
    BY SpotTyped
  <2> HIDE DEF a, k, c
  <2> QED BY <2>1, <2>2
<1>2. SizeOf(glob, id, at) = a * k + c
  BY DEF SizeOf
<1>4. SizeOf(glob, id, OnLetter(at)) = a * k + (c - 1)
  <2>1. /\ OnLetter(at).star = at.star /\ OnLetter(at).mark = at.mark
        /\ OnLetter(at).s = at.s + 1
    BY DEF OnLetter, Spot
  <2>2. Len(id) - (at.s + 1) = c - 1
    BY SpotTyped
  <2> HIDE DEF c
  <2> QED BY <2>1, <2>2 DEF SizeOf
<1>5. ASSUME at.p < Len(glob) PROVE SizeOf(glob, id, OnStar(at)) < SizeOf(glob, id, at)
  <2> DEFINE b == Len(glob) - at.p + Len(id) - at.s
  <2>1. b \in Nat /\ b < a
    BY SpotTyped
  <2>2. SizeOf(glob, id, OnStar(at)) = b * k + c
    BY DEF SizeOf, OnStar, Spot
  <2> HIDE DEF a, b, c, k
  <2> QED BY <1>1, <1>2, <2>1, <2>2, LessIsLess
<1>6. ASSUME at.star >= 0 PROVE SizeOf(glob, id, Back(at)) < SizeOf(glob, id, at)
  <2> DEFINE b == Len(glob) - at.star + Len(id) - (at.mark + 1)
             d == Len(id) - (at.mark + 1)
  <2>1. b \in Nat /\ b < a
    BY SpotTyped, <1>6
  <2>2. d \in Nat /\ d < k
    BY SpotTyped
  <2>3. SizeOf(glob, id, Back(at)) = b * k + d
    BY DEF SizeOf, Back, Spot
  <2> HIDE DEF a, b, c, d, k
  <2> QED BY <1>1, <1>2, <2>1, <2>2, <2>3, LessIsLess
<1>7. SizeOf(glob, id, OnLetter(at)) < SizeOf(glob, id, at)
  <2> HIDE DEF a, c, k
  <2> QED BY <1>1, <1>2, <1>4
<1> QED BY <1>5, <1>6, <1>7

\* The function in Match exists and satisfies its equations.
LEMMA MatchWalks ==
    ASSUME NEW L, NEW glob \in Seq(L), NEW id \in Seq(L)
    PROVE  \E W : Walks(glob, id, W) /\ (Match(glob, id) <=> W[Spot(0, 0, -1, 0)])
<1> DEFINE S == Spots(glob, id)
           Rest(at) == \A i \in at.p + 1 .. Len(glob) : glob[i] = Star
           Body(W, at) ==
              IF at.s = Len(id) THEN Rest(at)
              ELSE IF at.p < Len(glob) /\ glob[at.p + 1] \in {One, id[at.s + 1]}
                   THEN W[Spot(at.p + 1, at.s + 1, at.star, at.mark)]
              ELSE IF at.p < Len(glob) /\ glob[at.p + 1] = Star
                   THEN W[Spot(at.p + 1, at.s, at.p, at.s)]
              ELSE at.star >= 0 /\ W[Spot(at.star + 1, at.mark + 1, at.star, at.mark + 1)]
           ends == {at \in S : at.s = Len(id)
                                \/ (~LetterAt(glob, id, at) /\ ~StarAt(glob, at) /\ at.star < 0)}
           base == [at \in S |-> at.s = Len(id) /\ Rest(at)]
           size == [at \in S |-> SizeOf(glob, id, at)]
           next == [at \in S |-> IF at \in ends THEN at
                                  ELSE IF LetterAt(glob, id, at) THEN OnLetter(at)
                                  ELSE IF StarAt(glob, at) THEN OnStar(at)
                                  ELSE Back(at)]
           step == [at \in S |-> [v \in BOOLEAN |-> v]]
           W == CHOOSE F : F = [at \in S |-> Body(F, at)]
<1>1. ASSUME NEW at \in S, at \notin ends
      PROVE  next[at] \in S /\ SizeOf(glob, id, next[at]) < SizeOf(glob, id, at)
  <2>1. at.s # Len(id) /\ (LetterAt(glob, id, at) \/ StarAt(glob, at) \/ ~(at.star < 0))
    BY <1>1
  <2>2. CASE LetterAt(glob, id, at)
    <3>1. next[at] = OnLetter(at)
      BY <2>2, <1>1
    <3> HIDE DEF next, ends
    <3> QED BY <2>1, <2>2, <3>1, SpotMoves, SizeShrinks DEF LetterAt
  <2>3. CASE ~LetterAt(glob, id, at) /\ StarAt(glob, at)
    <3>1. next[at] = OnStar(at)
      BY <2>3, <1>1
    <3> HIDE DEF next, ends
    <3> QED BY <2>1, <2>3, <3>1, SpotMoves, SizeShrinks DEF StarAt
  <2>4. CASE ~LetterAt(glob, id, at) /\ ~StarAt(glob, at)
    <3>1. next[at] = Back(at)
      BY <2>4, <1>1
    <3>2. at.star >= 0
      BY <2>1, <2>4, SpotTyped
    <3> HIDE DEF next, ends
    <3> QED BY <2>1, <3>1, <3>2, SpotMoves, SizeShrinks
  <2> QED BY <2>2, <2>3, <2>4
<1>2. Descends(S, BOOLEAN, size, next, ends, base, step)
  <2>1. next \in [S -> S]
    <3>1. \A at \in S : at \in ends => next[at] = at
      OBVIOUS
    <3>2. \A at \in S : next[at] \in S
      <4> HIDE DEF next, ends
      <4> QED BY <1>1, <3>1
    <3> QED BY <3>2
  <2>2. size \in [S -> Nat]
    <3>1. \A at \in S : SizeOf(glob, id, at) \in Nat
      BY SizeTyped
    <3> QED BY <3>1
  <2>3. base \in [S -> BOOLEAN] /\ step \in [S -> [BOOLEAN -> BOOLEAN]]
    OBVIOUS
  <2>4. ASSUME NEW at \in S, at \notin ends PROVE size[next[at]] < size[at]
    <3> HIDE DEF next, ends, S
    <3> QED BY <1>1, <2>4
  <2> HIDE DEF S, size, next, ends, base, step
  <2> QED BY <2>1, <2>2, <2>3, <2>4 DEF Descends
<1>3. PICK F : Unfolds(F, S, BOOLEAN, next, ends, base, step)
  <2> HIDE DEF S, size, next, ends, base, step
  <2> QED BY <1>2, Recursion
<1>4. F \in [S -> BOOLEAN]
  BY <1>3 DEF Unfolds
<1>5. ASSUME NEW at \in S PROVE F[at] = Body(F, at)
  <2>1. F[at] = IF at \in ends THEN base[at] ELSE step[at][F[next[at]]]
    BY <1>3 DEF Unfolds
  <2>2. CASE at \in ends
    <3>1. F[at] = base[at] /\ base[at] = (at.s = Len(id) /\ Rest(at))
      BY <2>1, <2>2
    <3>2. CASE at.s = Len(id)
      <4>1. Body(F, at) = Rest(at) /\ base[at] = Rest(at)
        BY <3>1, <3>2
      <4> QED BY <3>1, <4>1
    <3>3. CASE at.s # Len(id)
      <4>1. ~LetterAt(glob, id, at) /\ ~StarAt(glob, at) /\ ~(at.star >= 0)
        BY <2>2, <3>3, SpotTyped
      <4>2. Body(F, at) = FALSE
        BY <3>3, <4>1 DEF LetterAt, StarAt
      <4> QED BY <3>1, <3>3, <4>2
    <3> QED BY <3>2, <3>3
  <2>3. CASE at \notin ends
    <3>1. next[at] \in S
      BY <1>1, <2>3
    <3>2. F[next[at]] \in BOOLEAN
      BY <1>4, <3>1
    <3>3. step[at][F[next[at]]] = F[next[at]]
      BY <3>2
    <3>4. F[at] = F[next[at]]
      BY <2>1, <2>3, <3>3
    <3>5. at.s # Len(id) /\ (LetterAt(glob, id, at) \/ StarAt(glob, at) \/ ~(at.star < 0))
      BY <2>3
    <3>6. CASE LetterAt(glob, id, at)
      <4>1. next[at] = OnLetter(at)
        BY <2>3, <3>6
      <4> HIDE DEF next
      <4> QED BY <3>4, <3>5, <3>6, <4>1 DEF LetterAt, OnLetter
    <3>7. CASE ~LetterAt(glob, id, at) /\ StarAt(glob, at)
      <4>1. next[at] = OnStar(at)
        BY <2>3, <3>7
      <4> HIDE DEF next
      <4> QED BY <3>4, <3>5, <3>7, <4>1 DEF LetterAt, StarAt, OnStar
    <3>8. CASE ~LetterAt(glob, id, at) /\ ~StarAt(glob, at)
      <4>1. next[at] = Back(at) /\ at.star >= 0
        BY <2>3, <3>5, <3>8, SpotTyped
      <4> HIDE DEF next
      <4>2. Body(F, at) = (TRUE /\ F[Back(at)])
        BY <3>5, <3>8, <4>1 DEF LetterAt, StarAt, Back
      <4> QED BY <3>2, <3>4, <4>1, <4>2
    <3> QED BY <3>6, <3>7, <3>8
  <2> QED BY <2>2, <2>3
<1>6. W = [at \in S |-> Body(W, at)]
  <2>1. F = [at \in S |-> Body(F, at)]
    <3> HIDE DEF Body
    <3> QED BY <1>4, <1>5
  <2> HIDE DEF Body
  <2> QED BY <2>1
<1>7. Match(glob, id) = W[Spot(0, 0, -1, 0)]
  BY Zenon DEF Match
<1> HIDE DEF W
<1>8. ASSUME NEW at \in S PROVE W[at] = Body(W, at)
  <2> HIDE DEF Body
  <2> QED BY <1>6
<1>9. Walks(glob, id, W)
  BY Zenon, <1>8 DEF Walks, LetterAt, StarAt, OnLetter, OnStar, Back
<1> QED BY <1>7, <1>9

\* The equations of Covers, one by one.
LEMMA ReadsTyped ==
    ASSUME NEW L, NEW glob \in Seq(L), NEW id \in Seq(L), NEW R, Reads(glob, id, R),
           NEW p \in 0..Len(glob), NEW s \in R[p]
    PROVE  s \in 0..Len(id)
  BY DEF Reads

\* A star covers any number of letters.
LEMMA ReadsStar ==
    ASSUME NEW L, NEW glob \in Seq(L), NEW id \in Seq(L), NEW R, Reads(glob, id, R),
           NEW p \in 0..Len(glob), p < Len(glob), glob[p + 1] = Star, NEW s \in 0..Len(id)
    PROVE  s \in R[p] <=> \E e \in R[p + 1] : s <= e
<1>1. p \in 0..Len(glob) - 1
  OBVIOUS
<1> QED BY <1>1 DEF Reads

\* Any other letter covers one.
LEMMA ReadsLetter ==
    ASSUME NEW L, NEW glob \in Seq(L), NEW id \in Seq(L), NEW R, Reads(glob, id, R),
           NEW p \in 0..Len(glob), p < Len(glob), glob[p + 1] # Star, NEW s \in 0..Len(id)
    PROVE  s \in R[p] <=> s < Len(id) /\ s + 1 \in R[p + 1] /\ glob[p + 1] \in {One, id[s + 1]}
<1>1. p \in 0..Len(glob) - 1
  OBVIOUS
<1>2. R[p] = {r \in 0..Len(id) - 1 :
                r + 1 \in R[p + 1] /\ glob[p + 1] \in {One, id[r + 1]}}
  BY <1>1 DEF Reads
<1>3. s \in 0..Len(id) - 1 <=> s < Len(id)
  OBVIOUS
<1> QED BY <1>2, <1>3

\* The letters between two stars cover as many letters of the ID, one by one.
LEMMA LettersCoverLetters ==
    ASSUME NEW L, NEW glob \in Seq(L), NEW id \in Seq(L), NEW R, Reads(glob, id, R),
           NEW a \in 0..Len(glob), NEW b \in a..Len(glob),
           \A i \in a + 1 .. b : glob[i] # Star, NEW j \in R[a]
    PROVE  j + (b - a) \in R[b]
<1> DEFINE Read == {n \in Nat : a + n <= b => j + n \in R[a + n]}
<1>1. 0 \in Read
  <2>1. a + 0 = a /\ j + 0 = j
    BY ReadsTyped
  <2> QED BY <2>1
<1>2. ASSUME NEW n \in Read PROVE n + 1 \in Read
  <2> SUFFICES ASSUME a + (n + 1) <= b PROVE j + (n + 1) \in R[a + (n + 1)]
    OBVIOUS
  <2>1. a + n \in 0..Len(glob) /\ a + n < Len(glob) /\ (a + n) + 1 \in a + 1 .. b
    OBVIOUS
  <2>2. j + n \in R[a + n]
    BY <2>1
  <2>3. j + n \in 0..Len(id) /\ j \in Nat
    BY <2>1, <2>2, ReadsTyped
  <2>4. (j + n) + 1 \in R[(a + n) + 1]
    BY <2>1, <2>2, <2>3, ReadsLetter
  <2>5. (j + n) + 1 = j + (n + 1) /\ (a + n) + 1 = a + (n + 1)
    BY <2>3
  <2> QED BY <2>4, <2>5
<1>3. Read = Nat
  <2>1. Read \in SUBSET Nat
    OBVIOUS
  <2> HIDE DEF Read
  <2> QED BY <1>1, <1>2, <2>1, Induction
<1>4. b - a \in Nat /\ a + (b - a) = b
  OBVIOUS
<1> QED BY <1>3, <1>4

\* At the end of the ID only stars may be left of the glob.
LEMMA StarsCoverNothing ==
    ASSUME NEW L, NEW glob \in Seq(L), NEW id \in Seq(L), NEW R, Reads(glob, id, R),
           NEW p \in 0..Len(glob)
    PROVE  Len(id) \in R[p] <=> \A i \in p + 1 .. Len(glob) : glob[i] = Star
<1> DEFINE Stars(q) == \A i \in q + 1 .. Len(glob) : glob[i] = Star
           Told == {n \in Nat : \A q \in 0..Len(glob) :
                                   q + n = Len(glob) => (Len(id) \in R[q] <=> Stars(q))}
<1>0. Len(glob) \in Nat /\ Len(id) \in Nat
  OBVIOUS
<1>1. 0 \in Told
  <2> SUFFICES ASSUME NEW q \in 0..Len(glob), q + 0 = Len(glob)
               PROVE  Len(id) \in R[q] /\ Stars(q)
    OBVIOUS
  <2>1. q = Len(glob)
    OBVIOUS
  <2> QED BY <2>1 DEF Reads
<1>2. ASSUME NEW n \in Told PROVE n + 1 \in Told
  <2> SUFFICES ASSUME NEW q \in 0..Len(glob), q + (n + 1) = Len(glob)
               PROVE  Len(id) \in R[q] <=> Stars(q)
    OBVIOUS
  <2>1. q < Len(glob) /\ q + 1 \in 0..Len(glob) /\ (q + 1) + n = Len(glob)
    BY <1>0
  <2>2. Len(id) \in R[q + 1] <=> Stars(q + 1)
    BY <2>1
  <2>3. Stars(q) <=> glob[q + 1] = Star /\ Stars(q + 1)
    <3>1. q + 1 .. Len(glob) = {q + 1} \cup (q + 2 .. Len(glob))
      BY <2>1
    <3>2. (q + 1) + 1 = q + 2
      OBVIOUS
    <3> QED BY <3>1, <3>2
  <2> HIDE DEF Stars
  <2>4. CASE glob[q + 1] = Star
    <3>1. Len(id) \in R[q] <=> \E e \in R[q + 1] : Len(id) <= e
      <4>1. Len(id) \in 0..Len(id)
        BY <1>0
      <4>2. R[q] = {s \in 0..Len(id) : \E e \in R[q + 1] : s <= e}
        <5>1. q \in 0..Len(glob) - 1
          BY <2>1
        <5> HIDE DEF Told
        <5> QED BY <2>4, <5>1 DEF Reads
      <4> QED BY <4>1, <4>2
    <3>2. (\E e \in R[q + 1] : Len(id) <= e) <=> Len(id) \in R[q + 1]
      BY <2>1, <1>0, ReadsTyped
    <3> QED BY <2>2, <2>3, <2>4, <3>1, <3>2
  <2>5. CASE glob[q + 1] # Star
    <3>1. Len(id) \notin R[q]
      <4>1. Len(id) \in 0..Len(id) /\ ~(Len(id) < Len(id))
        BY <1>0
      <4> QED BY <2>1, <2>5, <4>1, ReadsLetter
    <3> QED BY <2>3, <2>5, <3>1
  <2> QED BY <2>4, <2>5
<1>3. Told = Nat
  <2>1. Told \in SUBSET Nat
    OBVIOUS
  <2> HIDE DEF Told
  <2> QED BY <1>1, <1>2, <2>1, Induction
<1>4. Len(glob) - p \in Nat /\ p + (Len(glob) - p) = Len(glob)
  BY <1>0
<1> HIDE DEF Stars
<1>5. Len(id) \in R[p] <=> Stars(p)
  BY <1>3, <1>4
<1> QED BY <1>5 DEF Stars

\* Between rounds: the letters since the last star cover those of the ID since mark.
Steady(glob, at) ==
    at.star >= 0 => /\ at.s - at.mark = at.p - at.star - 1
                    /\ \A i \in at.star + 2 .. at.p : glob[i] # Star

\* What can still come of it: the rest matches, or the last star covers more.
Hope(id, R, at) ==
    \/ at.s \in R[at.p]
    \/ at.star >= 0 /\ \E j \in at.mark + 1 .. Len(id) : j \in R[at.star + 1]

\* Wherever else the last star may end, the letters after it end further on.
LEMMA LastStarIsEnough ==
    ASSUME NEW L, NEW glob \in Seq(L), NEW id \in Seq(L), NEW R, Reads(glob, id, R),
           NEW at \in Spots(glob, id), Steady(glob, at), at.star >= 0,
           NEW j \in at.mark + 1 .. Len(id), j \in R[at.star + 1]
    PROVE  \E e \in R[at.p] : at.s < e /\ e <= Len(id)
<1>1. /\ at.star + 1 \in 0..Len(glob) /\ at.p \in at.star + 1 .. Len(glob)
      /\ at.p \in 0..Len(glob) /\ at.s \in Nat /\ at.mark \in Nat /\ at.star \in Nat
      /\ Len(id) \in Nat
  BY SpotTyped
<1>2. at.s - at.mark = at.p - (at.star + 1) /\ \A i \in (at.star + 1) + 1 .. at.p : glob[i] # Star
  BY <1>1 DEF Steady
<1> DEFINE e == j + (at.p - (at.star + 1))
<1>3. e \in R[at.p]
  BY <1>1, <1>2, LettersCoverLetters
<1>4. e \in 0..Len(id)
  <2> HIDE DEF e
  <2> QED BY <1>1, <1>3, ReadsTyped
<1>5. at.s < e
  BY <1>1, <1>2
<1> QED BY <1>3, <1>4, <1>5

\* Each round keeps what Steady says.
LEMMA SteadyOn ==
    ASSUME NEW L, NEW glob \in Seq(L), NEW id \in Seq(L), NEW at \in Spots(glob, id),
           Steady(glob, at)
    PROVE  /\ at.p < Len(glob) /\ glob[at.p + 1] # Star => Steady(glob, OnLetter(at))
           /\ Steady(glob, OnStar(at))
           /\ at.star >= 0 => Steady(glob, Back(at))
<1>1. ASSUME at.p < Len(glob), glob[at.p + 1] # Star PROVE Steady(glob, OnLetter(at))
  <2> SUFFICES ASSUME at.star >= 0
               PROVE  /\ (at.s + 1) - at.mark = (at.p + 1) - at.star - 1
                      /\ \A i \in at.star + 2 .. at.p + 1 : glob[i] # Star
    BY DEF Steady, OnLetter, Spot
  <2>1. at.s - at.mark = at.p - at.star - 1 /\ \A i \in at.star + 2 .. at.p : glob[i] # Star
    BY DEF Steady
  <2>2. \A i \in at.star + 2 .. at.p + 1 : i \in at.star + 2 .. at.p \/ i = at.p + 1
    <3>1. at.p \in Int /\ at.star \in Int
      BY SpotTyped
    <3> QED BY <3>1
  <2> QED BY <1>1, <2>1, <2>2, SpotTyped
<1>2. Steady(glob, OnStar(at))
  <2>1. at.s - at.s = (at.p + 1) - at.p - 1 /\ at.p + 2 .. at.p + 1 = {}
    BY SpotTyped
  <2> QED BY <2>1 DEF Steady, OnStar, Spot
<1>3. Steady(glob, Back(at))
  <2>1. /\ (at.mark + 1) - (at.mark + 1) = (at.star + 1) - at.star - 1
        /\ at.star + 2 .. at.star + 1 = {}
    BY SpotTyped
  <2> QED BY <2>1 DEF Steady, Back, Spot
<1> QED BY <1>1, <1>2, <1>3

\* A round of Match decides what is still hoped for, if the later ones do.
LEMMA HopeHolds ==
    ASSUME NEW L, NEW glob \in Seq(L), NEW id \in Seq(L),
           \A i \in 1..Len(id) : id[i] # Star,
           NEW R, Reads(glob, id, R), NEW W, Walks(glob, id, W),
           NEW at \in Spots(glob, id), Steady(glob, at),
           \A to \in Spots(glob, id) :
              Steady(glob, to) /\ SizeOf(glob, id, to) < SizeOf(glob, id, at)
                 => W[to] = Hope(id, R, to)
    PROVE  W[at] = Hope(id, R, at)
<1>0. /\ Len(glob) \in Nat /\ Len(id) \in Nat /\ at.p \in 0..Len(glob) /\ at.s \in 0..Len(id)
      /\ at.p \in Nat /\ at.s \in Nat
  BY SpotTyped
<1>1. CASE at.s = Len(id)
  <2>1. W[at] = \A i \in at.p + 1 .. Len(glob) : glob[i] = Star
    BY <1>1 DEF Walks
  <2>2. Len(id) \in R[at.p] <=> \A i \in at.p + 1 .. Len(glob) : glob[i] = Star
    BY <1>0, StarsCoverNothing
  <2>3. ~(at.star >= 0 /\ \E j \in at.mark + 1 .. Len(id) : j \in R[at.star + 1])
    <3> SUFFICES ASSUME at.star >= 0, NEW j \in at.mark + 1 .. Len(id), j \in R[at.star + 1]
                 PROVE  FALSE
      OBVIOUS
    <3>1. PICK e \in R[at.p] : at.s < e /\ e <= Len(id)
      BY LastStarIsEnough
    <3>2. e \in 0..Len(id)
      BY <1>0, ReadsTyped
    <3> QED BY <1>0, <1>1, <3>1, <3>2
  <2> QED BY <1>1, <2>1, <2>2, <2>3 DEF Hope
<1>2. CASE at.s # Len(id) /\ LetterAt(glob, id, at)
  <2>1. /\ at.s < Len(id) /\ at.p < Len(glob) /\ at.s + 1 \in 1..Len(id)
        /\ glob[at.p + 1] \in {One, id[at.s + 1]}
    BY <1>0, <1>2 DEF LetterAt
  <2>2. glob[at.p + 1] # Star
    BY <2>1 DEF Star, One
  <2>3. W[at] = W[OnLetter(at)]
    BY <1>2 DEF Walks
  <2>4. W[OnLetter(at)] = Hope(id, R, OnLetter(at))
    BY <1>2, <2>1, <2>2, SpotMoves, SizeShrinks, SteadyOn
  <2>5. at.s \in R[at.p] <=> at.s + 1 \in R[at.p + 1]
    BY <1>0, <2>1, <2>2, ReadsLetter
  <2> QED BY <2>3, <2>4, <2>5 DEF Hope, OnLetter, Spot
<1>3. CASE at.s # Len(id) /\ ~LetterAt(glob, id, at) /\ StarAt(glob, at)
  <2>1. at.p < Len(glob) /\ glob[at.p + 1] = Star
    BY <1>3 DEF StarAt
  <2>2. W[at] = W[OnStar(at)]
    BY <1>3 DEF Walks
  <2>3. W[OnStar(at)] = Hope(id, R, OnStar(at))
    BY <1>3, <2>1, SpotMoves, SizeShrinks, SteadyOn
  <2>4. at.s \in R[at.p] <=> \E e \in R[at.p + 1] : at.s <= e
    BY <1>0, <2>1, ReadsStar
  <2>5. at.p + 1 \in 0..Len(glob)
    BY <1>0, <2>1
  <2>6. \A e \in R[at.p + 1] : e \in 0..Len(id)
    BY <2>5, ReadsTyped
  <2>7. (\E e \in R[at.p + 1] : at.s <= e)
           <=> \/ at.s \in R[at.p + 1]
               \/ \E j \in at.s + 1 .. Len(id) : j \in R[at.p + 1]
    BY <1>0, <2>6
  <2>8. Hope(id, R, OnStar(at)) <=> at.s \in R[at.p]
    BY <1>0, <2>4, <2>7 DEF Hope, OnStar, Spot
  <2>9. at.star >= 0 /\ (\E j \in at.mark + 1 .. Len(id) : j \in R[at.star + 1])
           => at.s \in R[at.p]
    <3> SUFFICES ASSUME at.star >= 0, NEW j \in at.mark + 1 .. Len(id), j \in R[at.star + 1]
                 PROVE  at.s \in R[at.p]
      OBVIOUS
    <3>1. PICK e \in R[at.p] : at.s < e /\ e <= Len(id)
      BY LastStarIsEnough
    <3>2. e \in 0..Len(id)
      BY <1>0, ReadsTyped
    <3>3. PICK d \in R[at.p + 1] : e <= d
      <4>1. at.p \in 0..Len(glob) - 1
        BY <1>0, <2>1
      <4>2. R[at.p] = {s \in 0..Len(id) : \E d \in R[at.p + 1] : s <= d}
        BY <2>1, <4>1 DEF Reads
      <4> QED BY <3>1, <4>2
    <3>4. d \in 0..Len(id)
      BY <2>6
    <3>5. at.s <= d
      BY <1>0, <3>1, <3>2, <3>3, <3>4
    <3> QED BY <2>4, <3>5
  <2> QED BY <2>2, <2>3, <2>8, <2>9 DEF Hope
<1>4. CASE at.s # Len(id) /\ ~LetterAt(glob, id, at) /\ ~StarAt(glob, at)
  <2>1. W[at] = (at.star >= 0 /\ W[Back(at)])
    BY <1>4 DEF Walks
  <2>2. at.s \notin R[at.p]
    <3>1. CASE at.p = Len(glob)
      BY <1>0, <1>4, <3>1 DEF Reads
    <3>2. CASE at.p # Len(glob)
      <4>1. at.p < Len(glob) /\ glob[at.p + 1] # Star /\ glob[at.p + 1] \notin {One, id[at.s + 1]}
        BY <1>0, <1>4, <3>2 DEF LetterAt, StarAt
      <4> QED BY <1>0, <4>1, ReadsLetter
    <3> QED BY <3>1, <3>2
  <2>3. CASE at.star >= 0
    <3>1. W[Back(at)] = Hope(id, R, Back(at))
      BY <1>4, <2>3, SpotMoves, SizeShrinks, SteadyOn
    <3>2. Hope(id, R, Back(at)) <=>
             \/ at.mark + 1 \in R[at.star + 1]
             \/ \E j \in at.mark + 1 + 1 .. Len(id) : j \in R[at.star + 1]
      BY <2>3 DEF Hope, Back, Spot
    <3>3. at.mark + 1 .. Len(id) = {at.mark + 1} \cup (at.mark + 1 + 1 .. Len(id))
      <4>1. at.mark \in Nat /\ at.mark < Len(id)
        BY <1>0, <1>4, SpotTyped
      <4> QED BY <1>0, <4>1
    <3> QED BY <2>1, <2>2, <2>3, <3>1, <3>2, <3>3 DEF Hope
  <2>4. CASE ~(at.star >= 0)
    BY <2>1, <2>2, <2>4 DEF Hope
  <2> QED BY <2>3, <2>4
<1> QED BY <1>1, <1>2, <1>3, <1>4

\* Match tries only the last "*" again and is right about it: for every glob and
\* every ID without wildcards it says whether the glob covers the ID.
THEOREM GlobsMatchAsMeant ==
    ASSUME NEW L, NEW glob \in Seq(L), NEW id \in Seq(L),
           \A i \in 1..Len(id) : id[i] # Star
    PROVE  Match(glob, id) <=> Covers(glob, id)
<1>1. id \in Seq(L) /\ \A i \in 1..Len(id) : id[i] # Star
  OBVIOUS
<1>2. PICK R : Reads(glob, id, R) /\ (Covers(glob, id) <=> 0 \in R[0])
  BY <1>1, CoversReads
<1>3. PICK W : Walks(glob, id, W) /\ (Match(glob, id) <=> W[Spot(0, 0, -1, 0)])
  BY <1>1, MatchWalks
<1> DEFINE bad == {at \in Spots(glob, id) : Steady(glob, at) /\ W[at] # Hope(id, R, at)}
           sizes == {SizeOf(glob, id, at) : at \in bad}
<1>4. bad = {}
  <2> SUFFICES ASSUME bad # {} PROVE FALSE
    OBVIOUS
  <2>1. \A at \in Spots(glob, id) : SizeOf(glob, id, at) \in Nat
    BY <1>1, SizeTyped
  <2>2. sizes \in SUBSET Nat /\ sizes # {}
    BY <2>1
  <2>3. PICK n \in sizes : \A m \in sizes : n <= m
    <3> HIDE DEF sizes
    <3> QED BY <2>2, Least
  <2>4. PICK at \in bad : \A to \in bad : SizeOf(glob, id, at) <= SizeOf(glob, id, to)
    BY <2>3
  <2>5. \A to \in Spots(glob, id) :
           Steady(glob, to) /\ SizeOf(glob, id, to) < SizeOf(glob, id, at)
              => W[to] = Hope(id, R, to)
    BY <2>1, <2>4
  <2>6. W[at] = Hope(id, R, at)
    BY <1>1, <1>2, <1>3, <2>4, <2>5, HopeHolds
  <2> QED BY <2>4, <2>6
<1>5. /\ Spot(0, 0, -1, 0) \in Spots(glob, id) /\ Steady(glob, Spot(0, 0, -1, 0))
      /\ (Hope(id, R, Spot(0, 0, -1, 0)) <=> 0 \in R[0])
  <2>1. Len(glob) \in Nat /\ Len(id) \in Nat /\ ~(-1 >= 0) /\ -1 < 0
    BY <1>1
  <2>2. Spot(0, 0, -1, 0) \in Spots(glob, id)
    BY <2>1 DEF Spots, Spot
  <2>3. Steady(glob, Spot(0, 0, -1, 0))
    BY <2>1 DEF Spot, Steady
  <2>4. Hope(id, R, Spot(0, 0, -1, 0)) <=> 0 \in R[0]
    BY <2>1 DEF Spot, Hope
  <2> QED BY <2>2, <2>3, <2>4
<1> QED BY <1>2, <1>3, <1>4, <1>5

-----------------------------------------------------------------------------
Kinds == {"scan", "run", "baseline"}

\* The steps each command goes through.
Stages ==
    [scan     |-> {"plan", "open", "setup", "check", "finish", "write", "ended"},
     run      |-> {"open", "plan", "setup", "check", "finish", "write", "ended"},
     baseline |-> {"plan", "setup", "check", "save", "ended"}]

\* Between openSession and its end a command has its reports open.
Session ==
    /\ cmd.kind # "baseline"
    /\ \/ pc \in {"setup", "check", "finish", "write"}
       \/ pc = "plan" /\ cmd.kind = "run"

FileInv ==
    /\ file \in [Files -> {"absent", "empty", "unsure", "full"}]
    /\ pc # "idle" =>
          /\ cmd.kind \in Kinds
          /\ pc \in Stages[cmd.kind]
          /\ cmd.kind # "baseline" => cmd.flags.files \subseteq Files
    /\ pc # "idle" /\ Session => \A p \in cmd.flags.files : file[p] \in {"empty", "full"}
    /\ ReportsAreWhole

\* Closed leaves nothing that is empty or cut.
LEMMA ClosedIsWhole ==
    ASSUME NEW fs \in [Files -> {"absent", "empty", "cut", "unsure", "full"}]
    PROVE  /\ Closed(fs) \in [Files -> {"absent", "unsure", "full"}]
           /\ \A p \in Files : fs[p] = "full" => Closed(fs)[p] = "full"
  BY DEF Closed

\* A command that ends without a verdict leaves no empty report.
LEMMA EndWithoutVerdict ==
    ASSUME FileInv, pc # "idle", cmd' = cmd,
           NEW fs \in [Files -> {"absent", "empty", "cut", "unsure", "full"}],
           End(2, fs)
    PROVE  FileInv'
<1>1. /\ file' \in [Files -> {"absent", "unsure", "full"}]
      /\ pc' = "ended" /\ exit' = 2
  BY ClosedIsWhole DEF End
<1>2. cmd.kind \in Kinds /\ "ended" \in Stages[cmd.kind]
  BY DEF FileInv, Kinds, Stages
<1>3. ~Session'
  BY <1>1 DEF Session
<1>4. ReportsAreWhole'
  BY <1>1 DEF ReportsAreWhole, At
<1> QED BY <1>1, <1>2, <1>3, <1>4 DEF FileInv

\* A step in the middle keeps what is known of the reports.
LEMMA Onward ==
    ASSUME FileInv, pc # "idle", cmd' = cmd, file' = file,
           pc' \in Stages[cmd.kind] \ {"idle", "ended"},
           Session' => Session
    PROVE  FileInv'
<1>1. ReportsAreWhole'
  BY DEF ReportsAreWhole, At
<1> QED BY <1>1 DEF FileInv

\* Which reports exist at each step of a command.
THEOREM FileInvariant == Spec => []FileInv
<1>1. Init => FileInv
  BY DEF Init, FileInv, NoFiles, ReportsAreWhole, At
<1>2. FileInv /\ [Next]_vars => FileInv'
  <2> SUFFICES ASSUME FileInv, [Next]_vars PROVE FileInv'
    OBVIOUS
  <2> USE DEF At
  <2>1. ASSUME NEW kind \in DOMAIN FirstStep, NEW cfg \in Configs, NEW flags \in Flags,
               Start(kind, cfg, flags)
        PROVE  FileInv'
    <3>1. /\ kind \in Kinds /\ cmd'.kind = kind
          /\ kind # "baseline" => cmd'.flags = flags
          /\ pc' = FirstStep[kind] /\ file' = file
      BY <2>1 DEF Start, FirstStep, Kinds
    <3>2. pc' \in Stages[kind] /\ pc' # "ended" /\ ~Session'
      BY <3>1 DEF FirstStep, Kinds, Stages, Session
    <3>3. ReportsAreWhole'
      BY <3>2 DEF ReportsAreWhole
    <3> QED BY <3>1, <3>2, <3>3, CommandAssumption DEF FileInv
  <2>2. ASSUME Open PROVE FileInv'
    <3>1. /\ cmd.kind \in {"scan", "run"} /\ cmd' = cmd
          /\ pc' = FollowingStep[cmd.kind].open
          /\ file' = [p \in Files |-> IF p \in cmd.flags.files THEN "empty" ELSE "absent"]
      BY <2>2 DEF Open, Proceed, FileInv, Kinds, Stages
    <3>2. pc' \in Stages[cmd.kind] /\ pc' # "idle" /\ pc' # "ended"
      BY <3>1 DEF FollowingStep, Stages
    <3>3. ReportsAreWhole'
      BY <3>2 DEF ReportsAreWhole
    <3>4. cmd.flags.files \subseteq Files
      BY <2>2, <3>1 DEF Open, FileInv
    <3> QED BY <3>1, <3>2, <3>3, <3>4 DEF FileInv, Kinds
  <2>3. ASSUME OpenFails PROVE FileInv'
    <3>1. CASE BaselineUnread /\ End(2, NoFiles)
      BY <2>3, <3>1, EndWithoutVerdict DEF OpenFails, NoFiles
    <3>2. CASE \E made \in SUBSET cmd.flags.files :
                  End(2, [p \in Files |-> IF p \in made THEN "empty" ELSE "absent"])
      BY <2>3, <3>2, EndWithoutVerdict DEF OpenFails
    <3> QED BY <2>3, <3>1, <3>2 DEF OpenFails
  <2>4. ASSUME Plan PROVE FileInv'
    <3>1. pc = "plan" /\ cmd' = cmd /\ file' = file /\ pc' = FollowingStep[cmd.kind].plan
      BY <2>4 DEF Plan, Proceed
    <3>2. CASE cmd.kind = "scan"
      BY <3>1, <3>2, Onward DEF FollowingStep, Stages, Session
    <3>3. CASE cmd.kind = "run"
      BY <3>1, <3>3, Onward DEF FollowingStep, Stages, Session
    <3>4. CASE cmd.kind = "baseline"
      BY <3>1, <3>4, Onward DEF FollowingStep, Stages, Session
    <3> QED BY <3>1, <3>2, <3>3, <3>4 DEF FileInv, Kinds
  <2>5. ASSUME PlanRefused PROVE FileInv'
    BY <2>5, EndWithoutVerdict DEF PlanRefused, FileInv
  <2>6. ASSUME Setup PROVE FileInv'
    <3>1. CASE Proceed /\ UNCHANGED <<file, exit>>
      <4>1. pc = "setup" /\ cmd' = cmd /\ file' = file /\ pc' = FollowingStep[cmd.kind].setup
        BY <2>6, <3>1 DEF Setup, Proceed
      <4> QED BY <4>1, Onward DEF FollowingStep, Stages, Session, FileInv, Kinds
    <3>2. CASE End(2, file)
      BY <2>6, <3>2, EndWithoutVerdict DEF Setup, FileInv
    <3> QED BY <2>6, <3>1, <3>2 DEF Setup
  <2>7. ASSUME NEW failed \in SUBSET Ran, Check(failed) PROVE FileInv'
    <3>1. pc = "check" /\ cmd' = cmd /\ file' = file /\ pc' = FollowingStep[cmd.kind].check
      BY <2>7 DEF Check, Proceed
    <3> QED BY <3>1, Onward DEF FollowingStep, Stages, Session, FileInv, Kinds
  <2>8. ASSUME Save PROVE FileInv'
    <3>1. /\ cmd.kind = "baseline" /\ cmd' = cmd /\ pc' = "ended"
          /\ file' = Closed(file)
      BY <2>8 DEF Save, End, FileInv, Kinds, Stages
    <3>2. file' \in [Files -> {"absent", "unsure", "full"}]
      BY <3>1, ClosedIsWhole DEF FileInv
    <3> QED BY <3>1, <3>2 DEF FileInv, Stages, Kinds, Session, ReportsAreWhole
  <2>9. ASSUME ApplyBaseline PROVE FileInv'
    <3>1. pc = "finish" /\ cmd' = cmd /\ file' = file /\ pc' = "write"
      BY <2>9 DEF ApplyBaseline
    <3> QED BY <3>1, Onward DEF Stages, Session, FileInv, Kinds
  <2>10. ASSUME NEW p \in Files, Write(p) PROVE FileInv'
    <3>1. /\ pc = "write" /\ cmd' = cmd /\ cmd.kind \in {"scan", "run"}
          /\ file \in [Files -> {"absent", "empty", "unsure", "full"}]
      BY <2>10 DEF Write, FileInv, Kinds, Stages
    <3>2. CASE file' = [file EXCEPT ![p] = "full"] /\ UNCHANGED <<pc, exit>>
      <4>1. ReportsAreWhole'
        BY <3>1, <3>2 DEF ReportsAreWhole
      <4> QED BY <3>1, <3>2, <4>1 DEF FileInv, Session
    <3>3. CASE End(2, [file EXCEPT ![p] = "cut"])
      BY <3>1, <3>3, EndWithoutVerdict
    <3>4. CASE End(2, [file EXCEPT ![p] = "unsure"])
      BY <3>1, <3>4, EndWithoutVerdict
    <3> QED BY <2>10, <3>2, <3>3, <3>4 DEF Write
  <2>11. ASSUME Finish PROVE FileInv'
    <3>1. /\ pc = "write" /\ cmd' = cmd /\ cmd.kind \in {"scan", "run"}
          /\ file \in [Files -> {"absent", "empty", "unsure", "full"}]
      BY <2>11 DEF Finish, FileInv, Kinds, Stages
    <3>2. CASE End(ExitCode, file)
      <4>1. \A p \in cmd.flags.files : p \in Files /\ file[p] = "full"
        BY <2>11, <3>1 DEF Finish, FileInv, Session
      <4>2. /\ pc' = "ended" /\ file' \in [Files -> {"absent", "unsure", "full"}]
            /\ \A p \in cmd.flags.files : file'[p] = "full"
        BY <3>1, <3>2, <4>1, ClosedIsWhole DEF End
      <4> QED BY <3>1, <4>1, <4>2 DEF FileInv, Session, ReportsAreWhole, Stages, Kinds
    <3>3. CASE End(2, file)
      BY <3>1, <3>3, EndWithoutVerdict
    <3> QED BY <2>11, <3>2, <3>3 DEF Finish
  <2>12. ASSUME Leave PROVE FileInv'
    BY <2>12 DEF Leave, NoFiles, FileInv, ReportsAreWhole
  <2>13. ASSUME UNCHANGED command PROVE FileInv'
    BY <2>13 DEF command, FileInv, Session, ReportsAreWhole
  <2> QED
    BY <2>1, <2>2, <2>3, <2>4, <2>5, <2>6, <2>7, <2>8, <2>9, <2>10, <2>11, <2>12, <2>13
    DEF Next, Change, NextDay, Upgrade, vars
<1> QED BY <1>1, <1>2, PTL DEF Spec

\* "So an empty report is never mistaken for a clean one": whatever fails, a
\* report that a command leaves is whole, and a verdict comes with all of them.
THEOREM NoEmptyReport == Spec => []ReportsAreWhole
<1>1. FileInv => ReportsAreWhole
  BY DEF FileInv
<1> QED BY <1>1, FileInvariant, PTL

-----------------------------------------------------------------------------
\* What the file holds of a finding that was accepted with version v.
EntryAt(v, f) ==
    [check |-> Names[v][CheckOf[f]], target |-> TargetOf[f], subject |-> SubjectOf[f]]

BaselineInv ==
    /\ version \in Versions
    /\ present \subseteq Findings /\ accepted \subseteq Findings /\ res.findings \subseteq Findings
    /\ \A e \in baseline.entries : \E f \in accepted, v \in 1..version : e = EntryAt(v, f)
    /\ \A f \in accepted : \E v \in 1..version : EntryAt(v, f) \in baseline.entries
    /\ BaselineSurvivesRenames

\* A former ID leads to the check's current one, and so does the current one.
LEMMA LookupFollowsRenames ==
    ASSUME version \in Versions, NEW v \in 1..version, NEW c \in Checks
    PROVE  Lookup(Registry, Names[v][c]) = Names[version][c]
<1> DEFINE id == Names[version]
           former == {Names[w][d] : w \in 1..version, d \in Checks} \ {id[d] : d \in Checks}
           named(n) == CHOOSE d \in Checks : \E w \in 1..version : Names[w][d] = n
           now == [n \in former |-> id[named(n)]]
<1>1. Registry.aliases = now
  BY DEF Registry
<1>2. v \in Versions /\ \A w \in 1..version : w \in Versions
  BY CommandAssumption
<1>3. CASE Names[v][c] \in former
  <2>1. /\ named(Names[v][c]) \in Checks
        /\ \E w \in 1..version : Names[w][named(Names[v][c])] = Names[v][c]
    OBVIOUS
  <2>2. named(Names[v][c]) = c
    BY <1>2, <2>1, CommandAssumption
  <2> HIDE DEF named, former
  <2>3. now[Names[v][c]] = id[c]
    BY <1>3, <2>2
  <2>4. Names[v][c] \in DOMAIN now
    BY <1>3
  <2> HIDE DEF now
  <2> QED BY <1>1, <2>3, <2>4 DEF Lookup
<1>4. CASE Names[v][c] \notin former
  <2>1. PICK d \in Checks : Names[v][c] = id[d]
    BY <1>4
  <2>2. d = c
    BY <1>2, <2>1, CommandAssumption
  <2> QED BY <1>1, <1>4, <2>1, <2>2 DEF Lookup
<1> QED BY <1>3, <1>4

\* An entry is read under the ID its check has now.
LEMMA CanonicalIsCurrent ==
    ASSUME version \in Versions, NEW v \in 1..version, NEW f \in Findings
    PROVE  Canonical(EntryAt(v, f)) = Entry(f)
<1>1. CheckOf[f] \in Checks
  BY CommandAssumption
<1> QED BY <1>1, LookupFollowsRenames DEF Canonical, EntryAt, Entry, IdOf

\* Check, target and subject tell two findings apart.
LEMMA EntriesAreDistinct ==
    ASSUME version \in Versions, NEW f \in Findings, NEW g \in Findings, Entry(f) = Entry(g)
    PROVE  f = g
<1>1. /\ Names[version][CheckOf[f]] = Names[version][CheckOf[g]]
      /\ TargetOf[f] = TargetOf[g] /\ SubjectOf[f] = SubjectOf[g]
  BY DEF Entry, IdOf
<1>2. CheckOf[f] \in Checks /\ CheckOf[g] \in Checks
  BY CommandAssumption
<1>3. CheckOf[f] = CheckOf[g]
  BY <1>1, <1>2, CommandAssumption
<1> QED BY <1>1, <1>3, CommandAssumption

\* The entries that match a result are those of the accepted findings.
LEMMA KnownIsAccepted ==
    ASSUME BaselineInv, NEW f \in Findings
    PROVE  (Entry(f) \in {Canonical(e) : e \in baseline.entries}) <=> f \in accepted
<1>1. ASSUME f \in accepted PROVE Entry(f) \in {Canonical(e) : e \in baseline.entries}
  <2>1. PICK v \in 1..version : EntryAt(v, f) \in baseline.entries
    BY <1>1 DEF BaselineInv
  <2> QED BY <2>1, CanonicalIsCurrent DEF BaselineInv
<1>2. ASSUME NEW e \in baseline.entries, Entry(f) = Canonical(e) PROVE f \in accepted
  <2>1. PICK g \in accepted, v \in 1..version : e = EntryAt(v, g)
    BY <1>2 DEF BaselineInv
  <2>2. g \in Findings /\ Canonical(e) = Entry(g)
    BY <2>1, CanonicalIsCurrent DEF BaselineInv
  <2>3. f = g
    BY <1>2, <2>2, EntriesAreDistinct DEF BaselineInv
  <2> QED BY <2>1, <2>3
<1> QED BY <1>1, <1>2

\* The baseline file names what the user accepted.
THEOREM BaselineInvariant == Spec => []BaselineInv
<1>1. Init => BaselineInv
  <2> SUFFICES ASSUME Init PROVE BaselineInv
    OBVIOUS
  <2>1. 1 \in Versions
    BY CommandAssumption
  <2> QED BY <2>1 DEF Init, BaselineInv, NoBaseline, NoResult, BaselineSurvivesRenames, At
<1>2. FileInv /\ BaselineInv /\ [Next]_vars => BaselineInv'
  <2> SUFFICES ASSUME FileInv, BaselineInv, [Next]_vars PROVE BaselineInv'
    OBVIOUS
  <2> USE DEF At
  <2>1. ASSUME UNCHANGED <<world, baseline, res, accepted>>, pc' # "write" PROVE BaselineInv'
    BY <2>1 DEF BaselineInv, world, EntryAt, BaselineSurvivesRenames
  <2>2. ASSUME NEW kind \in DOMAIN FirstStep, NEW cfg \in Configs, NEW flags \in Flags,
               Start(kind, cfg, flags)
        PROVE  BaselineInv'
    BY <2>1, <2>2 DEF Start, FirstStep
  <2>3. ASSUME Open \/ Plan \/ Setup PROVE BaselineInv'
    <3>1. UNCHANGED <<world, baseline, res, accepted>>
      BY <2>3 DEF Open, Plan, Setup
    <3>2. pc' # "write"
      BY <2>3 DEF Open, Plan, Setup, Proceed, End, FollowingStep, FileInv, Kinds, Stages
    <3> QED BY <2>1, <3>1, <3>2
  <2>4. ASSUME OpenFails \/ PlanRefused \/ Finish PROVE BaselineInv'
    BY <2>1, <2>4 DEF OpenFails, PlanRefused, Finish, End
  <2>5. ASSUME NEW failed \in SUBSET Ran, Check(failed) PROVE BaselineInv'
    <3>1. UNCHANGED <<world, baseline, accepted>> /\ pc' # "write"
      BY <2>5 DEF Check, Proceed, FollowingStep, FileInv, Kinds, Stages
    <3>2. res'.findings \subseteq Findings
      BY <2>5 DEF Check, Applied, NoResult, BaselineInv
    <3> QED BY <3>1, <3>2 DEF BaselineInv, world, EntryAt, BaselineSurvivesRenames
  <2>6. ASSUME Save PROVE BaselineInv'
    <3>1. UNCHANGED <<world, res>> /\ pc' = "ended"
      BY <2>6 DEF Save, End
    <3>2. CASE /\ baseline' = [readable |-> TRUE, entries |-> {Entry(f) : f \in res.findings}]
               /\ accepted' = res.findings
      <4>1. version \in 1..version
        BY CommandAssumption DEF BaselineInv
      <4>2. \A f \in res.findings : Entry(f) = EntryAt(version, f)
        BY DEF Entry, EntryAt, IdOf
      <4> QED BY <3>1, <3>2, <4>1, <4>2
              DEF BaselineInv, world, EntryAt, BaselineSurvivesRenames
    <3>3. CASE baseline' = NoBaseline /\ accepted' = {}
      BY <3>1, <3>3 DEF BaselineInv, NoBaseline, world, BaselineSurvivesRenames
    <3> QED BY <2>6, <3>2, <3>3 DEF Save
  <2>7. ASSUME ApplyBaseline PROVE BaselineInv'
    <3>1. UNCHANGED <<world, baseline, cmd, accepted>>
      BY <2>7 DEF ApplyBaseline
    <3>2. CASE cmd.flags.baseline
      <4> DEFINE known == {Canonical(e) : e \in baseline.entries}
                 old == {f \in res.findings : Entry(f) \in known}
      <4>1. res'.findings = res.findings \ old /\ res'.baselined = old
        BY <2>7, <3>2 DEF ApplyBaseline, Baselined
      <4>2. \A f \in res.findings : f \in old <=> f \in accepted
        BY KnownIsAccepted DEF BaselineInv
      <4>3. /\ pc' = "write" /\ res'.findings \cap accepted = {}
            /\ res'.baselined \subseteq accepted /\ res'.findings \subseteq Findings
        BY <2>7, <4>1, <4>2 DEF ApplyBaseline, BaselineInv
      <4> HIDE DEF old
      <4> QED BY <3>1, <4>3 DEF BaselineInv, world, EntryAt, BaselineSurvivesRenames
    <3>3. CASE ~cmd.flags.baseline
      BY <2>7, <3>1, <3>3 DEF ApplyBaseline, BaselineInv, world, EntryAt, BaselineSurvivesRenames
    <3> QED BY <3>2, <3>3
  <2>8. ASSUME NEW p \in Files, Write(p) PROVE BaselineInv'
    BY <2>8 DEF Write, End, BaselineInv, world, EntryAt, BaselineSurvivesRenames
  <2>9. ASSUME Leave PROVE BaselineInv'
    BY <2>9 DEF Leave, NoResult, BaselineInv, world, EntryAt, BaselineSurvivesRenames
  <2>10. ASSUME NEW found \in SUBSET Findings, Change(found) PROVE BaselineInv'
    BY <2>10 DEF Change, command, BaselineInv, EntryAt, BaselineSurvivesRenames
  <2>11. ASSUME NextDay PROVE BaselineInv'
    BY <2>11 DEF NextDay, command, BaselineInv, EntryAt, BaselineSurvivesRenames
  <2>12. ASSUME Upgrade PROVE BaselineInv'
    <3>1. 1..version \subseteq 1..version' /\ version' \in Versions
      BY <2>12, CommandAssumption DEF Upgrade, BaselineInv
    <3> QED BY <2>12, <3>1
            DEF Upgrade, command, BaselineInv, EntryAt, BaselineSurvivesRenames
  <2>13. ASSUME UNCHANGED vars PROVE BaselineInv'
    BY <2>13 DEF vars, world, command, BaselineInv, EntryAt, BaselineSurvivesRenames
  <2> QED
    BY <2>2, <2>3, <2>4, <2>5, <2>6, <2>7, <2>8, <2>9, <2>10, <2>11, <2>12, <2>13 DEF Next
<1> QED BY <1>1, <1>2, FileInvariant, PTL DEF Spec

\* "so baselines survive check renames": the baseline hides what the user
\* accepted and nothing else, through any number of versions and renames.
THEOREM BaselinesSurvive == Spec => []BaselineSurvivesRenames
<1>1. BaselineInv => BaselineSurvivesRenames
  BY DEF BaselineInv
<1> QED BY <1>1, BaselineInvariant, PTL
-----------------------------------------------------------------------------
\* An ID is a text without wildcards.
LEMMA IDsArePlain ==
    ASSUME NEW v \in Versions, NEW c \in Checks
    PROVE  /\ Names[v][c] \in Seq(Letters)
           /\ \A i \in 1..Len(Names[v][c]) : Names[v][c][i] \notin {Star, One}
           /\ ~Wild(Names[v][c])
<1>1. Names[v][c] \in Seq(Letters \ {Star, One})
  BY TextAssumption
<1> DEFINE id == Names[v][c]
<1> HIDE DEF id
<1>2. id \in Seq(Letters \ {Star, One})
  BY <1>1 DEF id
<1>3. \A i \in 1..Len(id) : id[i] \in Letters \ {Star, One}
  BY <1>2
<1>4. id \in Seq(Letters)
  BY <1>2
<1>5. DOMAIN id = 1..Len(id)
  BY <1>2
<1>6. ~Wild(id)
  BY <1>3, <1>5 DEF Wild
<1> QED BY <1>3, <1>4, <1>6 DEF id

\* The versions up to the installed one are versions.
LEMMA Versioned ==
    ASSUME version \in Versions
    PROVE  version \in 1..version /\ \A v \in 1..version : v \in Versions
  BY CommandAssumption

\* Lookup finds a check under each name it has had, and under no other.
LEMMA LookupFinds ==
    ASSUME version \in Versions, NEW n, NEW c \in Checks
    PROVE  Lookup(Registry, n) = Names[version][c] <=> \E v \in 1..version : Names[v][c] = n
<1>1. ASSUME NEW v \in 1..version, Names[v][c] = n PROVE Lookup(Registry, n) = Names[version][c]
  BY <1>1, LookupFollowsRenames
<1>2. ASSUME Lookup(Registry, n) = Names[version][c] PROVE \E v \in 1..version : Names[v][c] = n
  <2>1. CASE n \in DOMAIN Registry.aliases
    <3>1. DOMAIN Registry.aliases \subseteq {Names[v][d] : v \in 1..version, d \in Checks}
      BY DEF Registry
    <3>2. PICK v \in 1..version, d \in Checks : n = Names[v][d]
      BY <2>1, <3>1
    <3>3. Names[version][d] = Names[version][c]
      BY <1>2, <3>2, LookupFollowsRenames
    <3>4. d = c
      BY <3>3, CommandAssumption
    <3> QED BY <3>2, <3>4
  <2>2. CASE n \notin DOMAIN Registry.aliases
    BY <1>2, <2>2, Versioned DEF Lookup
  <2> QED BY <2>1, <2>2
<1> QED BY <1>1, <1>2

\* A glob matches the checks it names, through Match or through the aliases.
LEMMA MatchesIsNaming ==
    ASSUME version \in Versions, NEW glob \in Seq(Letters), NEW c \in Checks
    PROVE  matches(Registry, glob, Names[version][c]) <=> Naming(glob, c)
<1>1. CASE Wild(glob)
  <2> DEFINE id == Names[version][c]
  <2>1. id \in Seq(Letters) /\ \A i \in 1..Len(id) : id[i] # Star
    BY IDsArePlain
  <2>2. Match(glob, id) <=> Covers(glob, id)
    <3> HIDE DEF id
    <3> QED BY <2>1, GlobsMatchAsMeant
  <2> QED BY <1>1, <2>2 DEF matches, Naming
<1>2. CASE ~Wild(glob)
  BY <1>2, LookupFinds DEF matches, Naming
<1> QED BY <1>1, <1>2

\* The same for a set of globs.
LEMMA MatchedIsNamed ==
    ASSUME version \in Versions, NEW globs, globs \subseteq Seq(Letters), NEW c \in Checks
    PROVE  Names[version][c] \in Matched(Registry, globs) <=> \E g \in globs : Naming(g, c)
<1>1. Names[version][c] \in Registry.checks
  BY DEF Registry
<1>2. \A g \in globs : matches(Registry, g, Names[version][c]) <=> Naming(g, c)
  BY MatchesIsNaming
<1> QED BY <1>1, <1>2 DEF Matched

\* Select chooses the checks that the patterns name.
LEMMA SelectedIsChosen ==
    ASSUME version \in Versions, NEW patterns,
           \A p \in patterns : p.glob \in Seq(Letters) /\ p.neg \in BOOLEAN, NEW c \in Checks
    PROVE  Names[version][c] \in Select(Registry, patterns) <=> Chosen(patterns, c)
<1> DEFINE id == Names[version][c]
           named(neg) == \E p \in patterns : p.neg = neg /\ Naming(p.glob, c)
<1>1. ASSUME NEW neg \in BOOLEAN
      PROVE  id \in Matched(Registry, Globs(patterns, neg)) <=> named(neg)
  <2>1. Globs(patterns, neg) \subseteq Seq(Letters)
    BY DEF Globs
  <2>2. id \in Matched(Registry, Globs(patterns, neg))
           <=> \E g \in Globs(patterns, neg) : Naming(g, c)
    BY <2>1, MatchedIsNamed
  <2>3. (\E g \in Globs(patterns, neg) : Naming(g, c)) <=> named(neg)
    BY DEF Globs
  <2> QED BY <2>2, <2>3
<1>2. id \in Registry.checks
  BY DEF Registry
<1>3. Globs(patterns, FALSE) = {} <=> \A p \in patterns : p.neg
  BY DEF Globs
<1>4. id \in Select(Registry, patterns) <=>
         /\ Globs(patterns, FALSE) = {} \/ named(FALSE)
         /\ ~named(TRUE)
  <2>1. id \in Select(Registry, patterns) <=>
           /\ id \in IF Globs(patterns, FALSE) = {} THEN Registry.checks
                     ELSE Matched(Registry, Globs(patterns, FALSE))
           /\ id \notin Matched(Registry, Globs(patterns, TRUE))
    BY DEF Select
  <2>2. Globs(patterns, FALSE) = {} => ~named(FALSE)
    BY DEF Globs
  <2> HIDE DEF id, named
  <2> QED BY <1>1, <1>2, <2>1, <2>2
<1>5. /\ named(TRUE) <=> \E p \in patterns : p.neg /\ Naming(p.glob, c)
      /\ named(FALSE) <=> \E p \in patterns : ~p.neg /\ Naming(p.glob, c)
  OBVIOUS
<1> HIDE DEF named
<1> QED BY <1>3, <1>4, <1>5 DEF Chosen
\* A plan that is not refused is the one written.
LEMMA PlannedIsWritten ==
    ASSUME Typed, pc = "plan", Plan
    PROVE  (ConfigIsValid /\ PlanIsWritten)'
<1>1. /\ UNCHANGED <<version, cmd>> /\ version \in Versions
      /\ PatternsTyped(cmd.flags.only) /\ (cmd.kind # "scan" => cmd.cfg \in Configs)
      /\ ~NoChecks
      /\ plan' = [t \in Targets |->
                    IF cmd.kind = "scan" THEN Scanned(Registry, cmd.flags.only, cmd.flags.active)
                    ELSE Planned(Registry, cmd.cfg, cmd.flags.only, cmd.flags.active, t)]
  BY DEF Plan, Typed, world
<1> DEFINE only == cmd.flags.only.list
<1>2. \A p \in only : p.glob \in Seq(Letters) /\ p.neg \in BOOLEAN
  BY <1>1 DEF PatternsTyped
<1>3. ~OnlyFails(Registry, cmd.flags.only)
  BY <1>1 DEF NoChecks, ScanFails, PlanFails
<1>4. ASSUME NEW p \in only, ~p.neg PROVE \E c \in Checks : Naming(p.glob, c)
  <2>1. cmd.flags.only.given
    BY <1>1, <1>4 DEF PatternsTyped
  <2>2. p.glob \in Globs(only, FALSE)
    BY <1>2, <1>4 DEF Globs
  <2>3. Matched(Registry, {p.glob}) # {}
    BY <1>3, <2>1, <2>2 DEF OnlyFails, SelectFails
  <2>4. PICK id \in Registry.checks : id \in Matched(Registry, {p.glob})
    BY <2>3 DEF Matched
  <2>5. PICK c \in Checks : id = Names[version][c]
    BY <2>4 DEF Registry
  <2>6. {p.glob} \subseteq Seq(Letters)
    BY <1>2
  <2>7. Naming(p.glob, c)
    BY <1>1, <2>4, <2>5, <2>6, MatchedIsNamed
  <2> QED BY <2>7
<1>5. ASSUME NEW c \in Checks
      PROVE  Names[version][c] \in Select(Registry, only) <=> Chosen(only, c)
  BY <1>1, <1>2, SelectedIsChosen
<1>6. ASSUME NEW c \in Checks
      PROVE  Names[version][c] \in Registry.active <=> c \in ActiveChecks
  <2>1. Registry.active = {Names[version][d] : d \in ActiveChecks}
    BY DEF Registry
  <2>2. \A d \in ActiveChecks : Names[version][d] = Names[version][c] => d = c
    BY <1>1, CommandAssumption
  <2> QED BY <2>1, <2>2
<1>7. ASSUME ~cmd.flags.only.given, NEW c \in Checks PROVE Chosen(only, c)
  BY <1>1, <1>7 DEF Chosen, PatternsTyped
<1>8. ASSUME NEW t \in Targets, NEW c \in Checks
      PROVE  Names[version][c] \in plan'[t] <=>
                /\ Chosen(only, c)
                /\ cmd.kind # "scan" => Chosen(CheckPatterns(cmd.cfg, t), c)
                /\ c \in ActiveChecks =>
                      cmd.flags.active \/ (cmd.kind # "scan" /\ cmd.cfg.active[t])
  <2> DEFINE id == Names[version][c]
  <2>1. CASE cmd.kind = "scan"
    <3>1. id \in plan'[t] <=>
             id \in Select(Registry, only) /\ (id \in Registry.active => cmd.flags.active)
      BY <1>1, <2>1 DEF Scanned
    <3> HIDE DEF only
    <3> QED BY <1>5, <1>6, <2>1, <3>1
  <2>2. CASE cmd.kind # "scan"
    <3>1. id \in plan'[t] <=>
             /\ id \in Select(Registry, CheckPatterns(cmd.cfg, t))
             /\ cmd.flags.only.given => id \in Select(Registry, only)
             /\ id \in Registry.active => cmd.flags.active \/ cmd.cfg.active[t]
      BY <1>1, <2>2 DEF Planned
    <3>2. \A p \in CheckPatterns(cmd.cfg, t) : p.glob \in Seq(Letters) /\ p.neg \in BOOLEAN
      BY <1>1, <2>2, TextAssumption DEF CheckPatterns, PatternsTyped
    <3>3. id \in Select(Registry, CheckPatterns(cmd.cfg, t))
             <=> Chosen(CheckPatterns(cmd.cfg, t), c)
      BY <1>1, <3>2, SelectedIsChosen
    <3> HIDE DEF only, id
    <3>4. (cmd.flags.only.given => id \in Select(Registry, only)) <=> Chosen(only, c)
      BY <1>5, <1>7 DEF id
    <3>5. id \in Registry.active <=> c \in ActiveChecks
      BY <1>6 DEF id
    <3> QED BY <2>2, <3>1, <3>3, <3>4, <3>5 DEF id
  <2> QED BY <2>1, <2>2
<1>9. ConfigIsValid'
  <2>1. Registry' = Registry
    BY <1>1 DEF Registry
  <2> QED BY <1>1, <2>1 DEF ConfigIsValid, NoChecks, ConfigInvalid
<1>10. PlanIsWritten'
  <2>1. \A glob, c : Naming(glob, c)' <=> Naming(glob, c)
    BY <1>1 DEF Naming
  <2>2. \A patterns, c : Chosen(patterns, c)' <=> Chosen(patterns, c)
    BY <2>1 DEF Chosen
  <2> QED BY <1>1, <1>4, <1>8, <2>1, <2>2 DEF PlanIsWritten
<1> QED BY <1>9, <1>10

\* The severity the code compares with --fail-on is the one a reader would.
LEMMA LevelIsSeverity ==
    ASSUME Typed, pc # "idle", ConfigIsValid, cmd.kind # "scan", NEW f \in Findings
    PROVE  Level(f) = Severity(cmd.cfg, f)
<1> DEFINE read == {n \in DOMAIN cmd.cfg.overrides : Naming(n, CheckOf[f])}
           own == {n \in DOMAIN cmd.cfg.overrides : Lookup(Registry, n) = IdOf(f)}
<1>1. CheckOf[f] \in Checks /\ version \in Versions /\ cmd.cfg \in Configs
  BY CommandAssumption DEF Typed
<1>2. ASSUME NEW n \in DOMAIN cmd.cfg.overrides
      PROVE  Naming(n, CheckOf[f]) <=> Lookup(Registry, n) = IdOf(f)
  <2>1. ~Wild(n)
    <3>1. Lookup(Registry, n) \in Registry.checks
      BY <1>2 DEF ConfigIsValid, ConfigInvalid
    <3>2. PICK c \in Checks : Lookup(Registry, n) = Names[version][c]
      <4>1. Registry.checks = {Names[version][c] : c \in Checks}
        BY DEF Registry
      <4> QED BY <3>1, <4>1
    <3>3. PICK v \in 1..version : Names[v][c] = n
      BY <1>1, <3>2, LookupFinds
    <3> QED BY <1>1, <3>3, Versioned, IDsArePlain
  <2> QED BY <1>1, <2>1, LookupFinds DEF Naming, IdOf
<1>3. read = own
  BY <1>2
<1> HIDE DEF read, own
<1>4. Level(f) = IF read = {} THEN SeverityOf[f] ELSE cmd.cfg.overrides[CHOOSE n \in read : TRUE]
  BY DEF Level, read
<1>5. Severity(cmd.cfg, f) =
         IF own = {} THEN SeverityOf[f] ELSE cmd.cfg.overrides[CHOOSE n \in own : TRUE]
  BY DEF Severity, own
<1> QED BY <1>3, <1>4, <1>5

\* What the code suppresses is what a reader would call suppressed today.
LEMMA SuppressedIsExcused ==
    ASSUME Typed, pc # "idle", NEW f \in Findings
    PROVE  Excused(f) <=> (cmd.flags.baseline /\ f \in accepted) \/ Suppressed(f)
<1>1. CheckOf[f] \in Checks /\ version \in Versions /\ day \in Nat
  BY CommandAssumption DEF Typed
<1>2. ASSUME cmd.kind # "scan", NEW s \in cmd.cfg.suppressions
      PROVE  ~Expired(s) /\ Suppresses(s, f) <=>
                /\ Naming(s.glob, CheckOf[f])
                /\ s.target = Nil \/ s.target = TargetOf[f]
                /\ s.subject = Nil \/ s.subject = SubjectOf[f]
                /\ s.expires = 0 \/ day < s.expires
  <2>1. s.glob \in Seq(Letters) /\ s.expires \in Nat
    BY <1>2, TextAssumption DEF Typed
  <2>2. ~Expired(s) <=> s.expires = 0 \/ day < s.expires
    BY <1>1, <2>1 DEF Expired
  <2>3. IdOf(f) \in Select(Registry, {Include(s.glob)}) <=> Naming(s.glob, CheckOf[f])
    <3>1. \A p \in {Include(s.glob)} :
             p.glob = s.glob /\ p.neg = FALSE /\ p.glob \in Seq(Letters) /\ p.neg \in BOOLEAN
      <4>1. Include(s.glob).glob = s.glob /\ Include(s.glob).neg = FALSE
        BY DEF Include
      <4> HIDE DEF Include
      <4> QED BY <2>1, <4>1
    <3>2. IdOf(f) \in Select(Registry, {Include(s.glob)}) <=> Chosen({Include(s.glob)}, CheckOf[f])
      BY <1>1, <3>1, SelectedIsChosen DEF IdOf
    <3>3. Chosen({Include(s.glob)}, CheckOf[f]) <=> Naming(s.glob, CheckOf[f])
      BY <3>1 DEF Chosen
    <3> QED BY <3>2, <3>3
  <2> QED BY <2>2, <2>3 DEF Suppresses
<1> QED BY <1>2 DEF Excused, Suppressed
\* The three exit codes of a verdict and what each stands for.
LEMMA ExitCodeTells ==
    /\ ExitCode \in {0, 1, 3}
    /\ ExitCode = 1 => Failing # {}
    /\ ExitCode = 0 => Failing = {} /\ (cmd.flags.strict => res.failed = {})
<1>1. CASE Failing # {}
  <2>1. ExitCode = 1
    BY <1>1 DEF ExitCode
  <2> QED BY <1>1, <2>1
<1>2. CASE Failing = {} /\ cmd.flags.strict /\ res.failed # {}
  <2>1. ExitCode = 3
    BY <1>2 DEF ExitCode
  <2> QED BY <2>1
<1>3. CASE Failing = {} /\ ~(cmd.flags.strict /\ res.failed # {})
  <2>1. ExitCode = 0
    BY <1>3 DEF ExitCode
  <2> QED BY <1>3, <2>1
<1> QED BY <1>1, <1>2, <1>3

\* What is known of the plan does not change while version, command and plan don't.
LEMMA PlanStays ==
    ASSUME UNCHANGED <<version, cmd, plan>>
    PROVE  (ConfigIsValid => ConfigIsValid') /\ (PlanIsWritten => PlanIsWritten')
<1>1. Registry' = Registry
  BY DEF Registry
<1>2. \A glob, c : Naming(glob, c)' <=> Naming(glob, c)
  BY DEF Naming
<1>3. \A patterns, c : Chosen(patterns, c)' <=> Chosen(patterns, c)
  BY <1>2 DEF Chosen
<1>4. PlanIsWritten => PlanIsWritten'
  BY <1>2, <1>3 DEF PlanIsWritten
<1>5. ConfigIsValid => ConfigIsValid'
  BY <1>1 DEF ConfigIsValid, ConfigInvalid
<1> QED BY <1>4, <1>5

\* What the result should be changes with the world and the plan only.
LEMMA ReadingStays ==
    ASSUME UNCHANGED <<world, cmd, plan>>, res'.failed = res.failed
    PROVE  \A f : (Seen(f)' <=> Seen(f)) /\ (Suppressed(f)' <=> Suppressed(f))
<1>1. Registry' = Registry /\ \A f : IdOf(f)' = IdOf(f)
  BY DEF world, Registry, IdOf
<1>2. Ran' = Ran
  BY DEF Ran
<1>3. \A f : Seen(f)' <=> Seen(f)
  BY <1>1, <1>2 DEF world, Seen
<1>4. \A f, s : (~Expired(s) /\ Suppresses(s, f))' <=> (~Expired(s) /\ Suppresses(s, f))
  BY <1>1 DEF world, Expired, Suppresses
<1>5. \A f : Suppressed(f)' <=> Suppressed(f)
  BY <1>4 DEF Suppressed
<1> QED BY <1>3, <1>5

\* Nor does what is known of the result.
LEMMA ResultStays ==
    ASSUME UNCHANGED <<world, cmd, plan, res, accepted>>, ResultIsRight,
           pc' = "finish" <=> pc = "finish"
    PROVE  ResultIsRight'
  BY ReadingStays DEF ResultIsRight

\* The command ends without a verdict.
LEMMA NoVerdict ==
    ASSUME Typed, pc # "idle", UNCHANGED <<version, day, cmd>>, pc' = "ended", exit' = 2
    PROVE  VerdictInv'
<1>1. Typed'
  BY DEF Typed
<1> QED BY <1>1 DEF VerdictInv, PlanIsMade, Judged

\* A step on the way to a result.
LEMMA OnTheWay ==
    ASSUME VerdictInv, pc # "idle", UNCHANGED <<version, day, cmd>>,
           pc' \notin {"idle", "finish", "write", "ended"},
           PlanIsMade' => (ConfigIsValid /\ PlanIsWritten)'
    PROVE  VerdictInv'
<1>1. Typed'
  BY DEF VerdictInv, Typed
<1> QED BY <1>1 DEF VerdictInv, Judged

\* The engine runs and the config is applied.
LEMMA CheckedIsRight ==
    ASSUME FileInv, VerdictInv, NEW failed \in SUBSET Ran, Check(failed), pc' = "finish",
           present \subseteq Findings
    PROVE  ResultIsRight'
<1> DEFINE found == {f \in present : <<TargetOf[f], IdOf(f)>> \in Ran \ failed}
<1>1. /\ UNCHANGED <<world, cmd, plan, accepted>>
      /\ res' = IF cmd.kind = "scan" THEN [NoResult EXCEPT !.findings = found, !.failed = failed]
                ELSE Applied(cmd.cfg, found, failed)
  BY DEF Check
<1>2. Registry' = Registry /\ (\A f : IdOf(f)' = IdOf(f)) /\ Ran' = Ran
  BY <1>1 DEF world, Registry, IdOf, Ran
<1>3. \A f : Suppressed(f)' <=> Suppressed(f)
  BY <1>1, <1>2 DEF world, Expired, Suppresses, Suppressed
<1>4. /\ res'.failed = failed
      /\ res'.findings = {f \in found : ~Suppressed(f)}
  <2>1. CASE cmd.kind = "scan"
    BY <1>1, <2>1 DEF NoResult, Suppressed
  <2>2. CASE cmd.kind # "scan"
    <3> HIDE DEF found
    <3> QED BY <1>1, <2>2 DEF Applied, Suppressed
  <2> QED BY <2>1, <2>2
<1>5. \A f \in Findings : Seen(f)' <=> f \in found
  BY <1>1, <1>2, <1>4 DEF world, Seen
<1> QED BY <1>3, <1>4, <1>5 DEF ResultIsRight

\* The baseline takes out of the result what was accepted.
LEMMA BaselineAppliedIsRight ==
    ASSUME BaselineInv, ResultIsRight, pc = "finish", ApplyBaseline
    PROVE  ResultIsRight'
<1>1. /\ UNCHANGED <<world, cmd, plan, accepted>> /\ pc' = "write"
      /\ res' = IF cmd.flags.baseline THEN Baselined(res) ELSE res
  BY DEF ApplyBaseline
<1>2. /\ res'.failed = res.failed
      /\ \A f : f \in res'.findings <=>
                   f \in res.findings /\ ~(cmd.flags.baseline /\ f \in accepted)
  <2>1. CASE cmd.flags.baseline
    <3> DEFINE known == {Canonical(e) : e \in baseline.entries}
    <3>1. /\ res'.findings = res.findings \ {f \in res.findings : Entry(f) \in known}
          /\ res'.failed = res.failed
      BY <1>1, <2>1 DEF Baselined
    <3>2. \A f \in res.findings : Entry(f) \in known <=> f \in accepted
      BY KnownIsAccepted DEF BaselineInv
    <3> HIDE DEF known
    <3> QED BY <2>1, <3>1, <3>2
  <2>2. CASE ~cmd.flags.baseline
    BY <1>1, <2>2
  <2> QED BY <2>1, <2>2
<1>3. \A f : (Seen(f)' <=> Seen(f)) /\ (Suppressed(f)' <=> Suppressed(f))
  BY <1>1, <1>2, ReadingStays
<1> QED BY <1>1, <1>2, <1>3 DEF ResultIsRight

\* From its start to its verdict a command does what was asked for.
THEOREM VerdictInvariant == Spec => []VerdictInv
<1>1. Init => VerdictInv
  <2> SUFFICES ASSUME Init PROVE VerdictInv
    OBVIOUS
  <2>1. 1 \in Versions
    BY CommandAssumption
  <2> QED BY <2>1 DEF Init, VerdictInv, Typed, PlanIsMade, Judged
<1>2. FileInv /\ BaselineInv /\ VerdictInv /\ [Next]_vars => VerdictInv'
  <2> SUFFICES ASSUME FileInv, BaselineInv, VerdictInv, [Next]_vars PROVE VerdictInv'
    OBVIOUS
  <2> USE DEF At
  <2>0. Typed
    BY DEF VerdictInv
  <2>1. ASSUME NEW kind \in DOMAIN FirstStep, NEW cfg \in Configs, NEW flags \in Flags,
               Start(kind, cfg, flags)
        PROVE  VerdictInv'
    <3>1. /\ UNCHANGED <<version, day>> /\ pc' = FirstStep[kind]
          /\ cmd'.kind = kind /\ (kind # "scan" => cmd'.cfg = cfg)
          /\ cmd'.flags.only = flags.only /\ kind \in Kinds
      BY <2>1 DEF Start, FirstStep, Kinds, world
    <3>2. pc' \in {"plan", "open"} /\ (pc' = "open" => kind = "run")
      BY <3>1 DEF FirstStep, Kinds
    <3>3. Typed'
      BY <2>0, <3>1, TextAssumption DEF Typed
    <3> QED BY <3>1, <3>2, <3>3 DEF VerdictInv, PlanIsMade, Judged
  <2>2. ASSUME Open PROVE VerdictInv'
    <3>1. /\ UNCHANGED <<version, day, cmd, plan>> /\ pc = "open" /\ cmd.kind \in {"scan", "run"}
          /\ pc' = FollowingStep[cmd.kind].open
      BY <2>2 DEF Open, Proceed, world, FileInv, Kinds, Stages
    <3>2. CASE cmd.kind = "scan"
      BY <3>1, <3>2, OnTheWay, PlanStays DEF FollowingStep, VerdictInv, PlanIsMade
    <3>3. CASE cmd.kind = "run"
      BY <3>1, <3>3, OnTheWay DEF FollowingStep, PlanIsMade
    <3> QED BY <3>1, <3>2, <3>3
  <2>3. ASSUME OpenFails \/ PlanRefused PROVE VerdictInv'
    BY <2>0, <2>3, NoVerdict DEF OpenFails, PlanRefused, End, world
  <2>4. ASSUME Plan PROVE VerdictInv'
    <3>1. UNCHANGED <<version, day, cmd>> /\ pc = "plan" /\ pc' = FollowingStep[cmd.kind].plan
      BY <2>4 DEF Plan, Proceed, world
    <3>2. pc' \notin {"idle", "finish", "write", "ended"}
      BY <3>1 DEF FollowingStep, FileInv, Kinds
    <3> QED BY <2>0, <2>4, <3>1, <3>2, PlannedIsWritten, OnTheWay
  <2>5. ASSUME Setup PROVE VerdictInv'
    <3>1. UNCHANGED <<version, day, cmd, plan>> /\ pc = "setup"
      BY <2>5 DEF Setup, world
    <3>2. CASE Proceed
      <4>1. pc' = "check"
        BY <3>1, <3>2 DEF Proceed, FollowingStep, FileInv, Kinds
      <4> QED BY <3>1, <4>1, PlanStays, OnTheWay DEF VerdictInv, PlanIsMade
    <3>3. CASE End(2, file)
      BY <2>0, <3>1, <3>3, NoVerdict DEF End
    <3> QED BY <2>5, <3>2, <3>3 DEF Setup
  <2>6. ASSUME NEW failed \in SUBSET Ran, Check(failed) PROVE VerdictInv'
    <3>1. /\ UNCHANGED <<version, day, cmd, plan>> /\ pc = "check"
          /\ pc' = FollowingStep[cmd.kind].check
      BY <2>6 DEF Check, Proceed, world
    <3>2. CASE cmd.kind = "baseline"
      BY <3>1, <3>2, PlanStays, OnTheWay DEF FollowingStep, VerdictInv, PlanIsMade
    <3>3. CASE cmd.kind # "baseline"
      <4>1. pc' = "finish"
        BY <3>1, <3>3 DEF FollowingStep, FileInv, Kinds
      <4>2. ResultIsRight'
        BY <2>6, <4>1, CheckedIsRight DEF BaselineInv
      <4>3. Typed'
        BY <2>0, <3>1, <4>1 DEF Typed
      <4> QED BY <3>1, <4>1, <4>2, <4>3, PlanStays DEF VerdictInv, PlanIsMade, Judged
    <3> QED BY <3>2, <3>3
  <2>7. ASSUME Save PROVE VerdictInv'
    <3>1. /\ UNCHANGED <<version, day, cmd>> /\ pc' = "ended" /\ exit' \in {0, 2} /\ pc = "save"
          /\ cmd.kind = "baseline"
      BY <2>7 DEF Save, End, world, FileInv, Kinds, Stages
    <3>2. Typed'
      BY <2>0, <3>1 DEF Typed
    <3> QED BY <3>1, <3>2 DEF VerdictInv, PlanIsMade, Judged
  <2>8. ASSUME ApplyBaseline PROVE VerdictInv'
    <3>1. /\ UNCHANGED <<version, day, cmd, plan>> /\ pc = "finish" /\ pc' = "write"
      BY <2>8 DEF ApplyBaseline, world
    <3>2. ResultIsRight'
      BY <2>8, <3>1, BaselineAppliedIsRight DEF VerdictInv
    <3>3. Typed'
      BY <2>0, <3>1 DEF Typed
    <3> QED BY <3>1, <3>2, <3>3, PlanStays DEF VerdictInv, PlanIsMade, Judged
  <2>9. ASSUME NEW p \in Files, Write(p) PROVE VerdictInv'
    <3>1. UNCHANGED <<world, cmd, plan, res, accepted>> /\ pc = "write"
      BY <2>9 DEF Write
    <3>2. CASE UNCHANGED <<pc, exit>>
      <4>1. Typed'
        BY <2>0, <3>1, <3>2 DEF Typed, world
      <4>2. ResultIsRight'
        BY <3>1, <3>2, ResultStays DEF VerdictInv
      <4> QED BY <3>1, <3>2, <4>1, <4>2, PlanStays DEF VerdictInv, PlanIsMade, Judged, world
    <3>3. CASE pc' = "ended" /\ exit' = 2
      BY <2>0, <3>1, <3>3, NoVerdict DEF world
    <3> QED BY <2>9, <3>2, <3>3 DEF Write, End
  <2>10. ASSUME Finish PROVE VerdictInv'
    <3>1. UNCHANGED <<world, cmd, plan, res, accepted>> /\ pc = "write" /\ pc' = "ended"
      BY <2>10 DEF Finish, End
    <3>2. CASE exit' = 2
      BY <2>0, <3>1, <3>2, NoVerdict DEF world
    <3>3. CASE exit' = ExitCode
      <4>1. Typed'
        BY <2>0, <3>1 DEF Typed, world
      <4>2. ResultIsRight'
        BY <3>1, ResultStays DEF VerdictInv
      <4>3. ExitCode' = ExitCode
        <5>1. \A f : (cmd.kind # "scan" => Severity(cmd.cfg, f)' = Severity(cmd.cfg, f))
          BY <3>1 DEF world, Severity, IdOf, Registry
        <5>2. Failing' = Failing
          BY <3>1, <5>1 DEF Failing
        <5> QED BY <3>1, <5>2 DEF ExitCode
      <4>4. ConfigIsValid'
        BY <3>1, PlanStays DEF VerdictInv, PlanIsMade, world
      <4>5. cmd'.kind # "baseline"
        BY <3>1 DEF FileInv, Stages, Kinds
      <4>6. exit' = ExitCode'
        BY <3>3, <4>3
      <4> HIDE DEF At
      <4> QED BY <3>1, <4>1, <4>2, <4>4, <4>5, <4>6 DEF VerdictInv, PlanIsMade, Judged
    <3> QED BY <2>10, <3>2, <3>3 DEF Finish, End
  <2>11. ASSUME Leave PROVE VerdictInv'
    BY <2>0, <2>11 DEF Leave, world, VerdictInv, Typed, PlanIsMade, Judged
  <2>12. ASSUME NEW found \in SUBSET Findings, Change(found) PROVE VerdictInv'
    BY <2>0, <2>12 DEF Change, command, VerdictInv, Typed, PlanIsMade, Judged
  <2>13. ASSUME NextDay PROVE VerdictInv'
    BY <2>0, <2>13 DEF NextDay, command, VerdictInv, Typed, PlanIsMade, Judged
  <2>14. ASSUME Upgrade PROVE VerdictInv'
    BY <2>0, <2>14 DEF Upgrade, command, VerdictInv, Typed, PlanIsMade, Judged
  <2>15. ASSUME UNCHANGED vars PROVE VerdictInv'
    <3>1. UNCHANGED <<world, cmd, plan, res, accepted>> /\ UNCHANGED <<pc, exit>>
      BY <2>15 DEF vars, command
    <3>2. Typed'
      BY <2>0, <3>1 DEF Typed, world
    <3>3. ResultIsRight => ResultIsRight'
      BY <3>1, ResultStays
    <3>4. ExitCode' = ExitCode
      <4>1. \A f : (cmd.kind # "scan" => Severity(cmd.cfg, f)' = Severity(cmd.cfg, f))
        BY <3>1 DEF world, Severity, IdOf, Registry
      <4>2. Failing' = Failing
        BY <3>1, <4>1 DEF Failing
      <4> QED BY <3>1, <4>2 DEF ExitCode
    <3> QED BY <3>1, <3>2, <3>3, <3>4, PlanStays DEF VerdictInv, PlanIsMade, Judged, world
  <2> QED
    BY <2>1, <2>2, <2>3, <2>4, <2>5, <2>6, <2>7, <2>8, <2>9, <2>10, <2>11, <2>12, <2>13, <2>14,
       <2>15
    DEF Next
<1> QED BY <1>1, <1>2, FileInvariant, BaselineInvariant, PTL DEF Spec

\* The checks that run on a target are those the patterns of the config and of
\* --only choose, for any globs (Select, Match).
THEOREM PlansAreAsWritten == Spec => []SelectedAsWritten
<1>1. VerdictInv => SelectedAsWritten
  BY DEF VerdictInv, PlanIsMade, SelectedAsWritten, At
<1> QED BY <1>1, VerdictInvariant, PTL

\* Of the findings in a result, those that fail the build are the alarming ones.
LEMMA FailingIsAlarming ==
    ASSUME VerdictInv, Judged
    PROVE  \A f \in Findings : f \in Failing <=> Alarming(f)
<1> SUFFICES ASSUME NEW f \in Findings PROVE f \in Failing <=> Alarming(f)
  OBVIOUS
<1>1. Typed /\ ConfigIsValid /\ ResultIsRight /\ pc = "ended"
  BY DEF VerdictInv, Judged
<1>2. f \in res.findings <=> Seen(f) /\ ~Excused(f)
  BY <1>1, SuppressedIsExcused DEF ResultIsRight
<1>3. Level(f) = IF cmd.kind = "scan" THEN SeverityOf[f] ELSE Severity(cmd.cfg, f)
  <2>1. CASE cmd.kind = "scan"
    BY <2>1 DEF Level
  <2>2. CASE cmd.kind # "scan"
    BY <1>1, <2>2, LevelIsSeverity
  <2> QED BY <2>1, <2>2
<1> QED BY <1>2, <1>3 DEF Failing, Alarming

\* A build that passes is clean, whatever the globs, overrides, suppressions
\* and renames (finish).
THEOREM PassesAreEarned == Spec => []PassIsEarned
<1>1. VerdictInv => PassIsEarned
  <2> SUFFICES ASSUME VerdictInv, pc = "ended", cmd.kind # "baseline", exit = 0
               PROVE  /\ ~\E f \in Findings : Alarming(f)
                      /\ cmd.flags.strict => res.failed = {}
    BY DEF PassIsEarned, At
  <2>1. Judged /\ ExitCode = 0
    BY DEF Judged, VerdictInv
  <2> QED BY <2>1, ExitCodeTells, FailingIsAlarming
<1> QED BY <1>1, VerdictInvariant, PTL

\* A build fails on findings only if one of them is new to the user and severe
\* enough ("only findings that are not in the baseline are reported and fail
\* the run").
THEOREM FailuresAreDeserved == Spec => []FailureIsDeserved
<1>1. VerdictInv => FailureIsDeserved
  <2> SUFFICES ASSUME VerdictInv, pc = "ended", exit = 1
               PROVE  \E f \in Findings : Alarming(f)
    BY DEF FailureIsDeserved, At
  <2>1. Judged /\ ExitCode = 1
    BY DEF Judged, VerdictInv
  <2>2. res.findings \subseteq Findings
    BY <2>1 DEF VerdictInv, ResultIsRight
  <2>3. Failing # {} /\ Failing \subseteq Findings
    BY <2>1, <2>2, ExitCodeTells DEF Failing
  <2> QED BY <2>1, <2>3, FailingIsAlarming
<1> QED BY <1>1, VerdictInvariant, PTL
=============================================================================
