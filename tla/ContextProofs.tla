--------------------------- MODULE ContextProofs ---------------------------
(***************************************************************************)
(* What becomes of a session's history on its way to the model: it is cut  *)
(* short (Compaction) and made into a request (ModelRequest).  Each        *)
(* theorem is about the property that Capabilities states of one of them.  *)
(***************************************************************************)
EXTENDS Capabilities, ListsProofs, FiniteSetTheorems, TLAPS

-----------------------------------------------------------------------------
(***************************************************************************)
(* Compaction: the functions it is built from, which run over a list once, *)
(* from behind or from the front.                                          *)
(***************************************************************************)
TotalsOf(f, s) ==
  f = [k \in 1 .. Len(s) + 1 |-> IF k > Len(s) THEN 0 ELSE s[k] + f[k + 1]]

\* The tokens from each place on.
LEMMA TotalsAre ==
  ASSUME NEW s \in Seq(Nat)
  PROVE  /\ K!Totals(s) \in [1 .. Len(s) + 1 -> Nat]
         /\ K!Totals(s)[Len(s) + 1] = 0
         /\ \A k \in 1 .. Len(s) : K!Totals(s)[k] = s[k] + K!Totals(s)[k + 1]
<1> DEFINE N == Len(s)
           g == [n \in 1 .. N |-> [x \in Nat |-> s[n] + x]]
<1>1. N \in Nat /\ \A n \in 1 .. N : s[n] \in Nat
  OBVIOUS
<1>2. g \in [1 .. N -> [Nat -> Nat]]
  BY <1>1
<1>3. \A n \in 1 .. N, x \in Nat : g[n][x] = s[n] + x
  OBVIOUS
<1> HIDE DEF N, g
<1>4. PICK f \in [1 .. N + 1 -> Nat] : GoesDown(f, N, 0, g)
  BY <1>1, <1>2, RunDown
<1>5. TotalsOf(f, s)
  <2>1. ASSUME NEW k \in 1 .. N + 1
        PROVE  f[k] = IF k > N THEN 0 ELSE s[k] + f[k + 1]
    <3>1. CASE k = N + 1
      BY <1>1, <1>4, <3>1 DEF GoesDown
    <3>2. CASE k # N + 1
      <4>1. k \in 1 .. N /\ ~ (k > N) /\ k + 1 \in 1 .. N + 1
        BY <1>1, <3>2
      <4>2. QED
        BY <1>3, <1>4, <4>1 DEF GoesDown
    <3>3. QED
      BY <3>1, <3>2
  <2>2. f = [k \in 1 .. N + 1 |-> IF k > N THEN 0 ELSE s[k] + f[k + 1]]
    BY <2>1
  <2>3. QED
    BY <2>2 DEF TotalsOf, N
<1>6. PICK h : TotalsOf(h, s) /\ K!Totals(s) = h
  <2>1. K!Totals(s) = CHOOSE h : TotalsOf(h, s)
    BY DEF K!Totals, TotalsOf
  <2>2. QED
    BY <1>5, <2>1
<1>7. h = [k \in 1 .. N + 1 |-> IF k > N THEN 0 ELSE s[k] + h[k + 1]]
  BY <1>6 DEF TotalsOf, N
<1>8. h[N + 1] = 0 /\ \A k \in 1 .. N : h[k] = s[k] + h[k + 1]
  <2>1. N + 1 \in 1 .. N + 1 /\ N + 1 > N /\ \A k \in 1 .. N : k \in 1 .. N + 1 /\ ~ (k > N)
    BY <1>1
  <2>2. QED
    BY <1>7, <2>1
<1>9. \A k \in 1 .. N + 1 : h[k] \in Nat
  <2>1. h[N + 1] \in Nat
    BY <1>8
  <2>2. ASSUME NEW k \in 1 .. N, h[k + 1] \in Nat PROVE h[k] \in Nat
    <3>1. h[k] = s[k] + h[k + 1] /\ s[k] \in Nat
      BY <1>1, <1>8
    <3>2. QED
      BY <2>2, <3>1
  <2>3. QED
    BY <1>1, <2>1, <2>2, DownStays
<1>10. h \in [1 .. N + 1 -> Nat]
  <2>1. h = [k \in 1 .. N + 1 |-> h[k]]
    BY <1>7
  <2>2. QED
    BY <1>9, <2>1
<1>11. QED
  BY <1>6, <1>8, <1>10 DEF N

\* f is what is left of the budget, from behind.
LeftOf(f, ms) ==
  f = [k \in 1 .. Len(ms) + 1 |->
         IF k > Len(ms) THEN PruneBudget
         ELSE IF K!IsTool(ms[k]) /\ f[k + 1] >= K!Size(ms[k])
                THEN f[k + 1] - K!Size(ms[k])
                ELSE f[k + 1]]

\* What is left of the budget, place by place.
LEMMA BudgetIs ==
  ASSUME PruneBudget \in Nat, NEW P, NEW ms \in Seq(P),
         \A k \in 1 .. Len(ms) : K!Size(ms[k]) \in Nat
  PROVE  /\ \A k \in 1 .. Len(ms) + 1 : K!BudgetLeft(ms)[k] \in Nat
         /\ K!BudgetLeft(ms)[Len(ms) + 1] = PruneBudget
         /\ \A k \in 1 .. Len(ms) :
              K!BudgetLeft(ms)[k] =
                IF K!IsTool(ms[k]) /\ K!BudgetLeft(ms)[k + 1] >= K!Size(ms[k])
                  THEN K!BudgetLeft(ms)[k + 1] - K!Size(ms[k])
                  ELSE K!BudgetLeft(ms)[k + 1]
<1> DEFINE N == Len(ms)
           T == {k \in 1 .. N : K!IsTool(ms[k])}
           z == [k \in 1 .. N |-> K!Size(ms[k])]
           g == [n \in 1 .. N |-> [x \in Nat |-> IF n \in T /\ x >= z[n] THEN x - z[n] ELSE x]]
<1>1. N \in Nat /\ \A n \in 1 .. N : z[n] \in Nat
  OBVIOUS
<1>2. \A n \in 1 .. N : z[n] = K!Size(ms[n]) /\ (n \in T <=> K!IsTool(ms[n]))
  OBVIOUS
<1> HIDE DEF N, T, z
<1>3. g \in [1 .. N -> [Nat -> Nat]]
  BY <1>1
<1>4. \A n \in 1 .. N, x \in Nat : g[n][x] = IF n \in T /\ x >= z[n] THEN x - z[n] ELSE x
  OBVIOUS
<1> HIDE DEF g
<1>5. PICK f \in [1 .. N + 1 -> Nat] : GoesDown(f, N, PruneBudget, g)
  BY <1>1, <1>3, RunDown
<1> DEFINE E(h) == h = [k \in 1 .. N + 1 |->
                          IF k > N THEN PruneBudget
                          ELSE IF k \in T /\ h[k + 1] >= z[k] THEN h[k + 1] - z[k] ELSE h[k + 1]]
<1>6. \A h : LeftOf(h, ms) <=> E(h)
  <2>1. ASSUME NEW h PROVE LeftOf(h, ms) <=> E(h)
    <3>1. ASSUME NEW k \in 1 .. N + 1, ~ (k > N)
          PROVE  z[k] = K!Size(ms[k]) /\ (k \in T <=> K!IsTool(ms[k]))
      BY <1>1, <1>2, <3>1
    <3>2. [k \in 1 .. N + 1 |->
             IF k > N THEN PruneBudget
             ELSE IF K!IsTool(ms[k]) /\ h[k + 1] >= K!Size(ms[k])
                    THEN h[k + 1] - K!Size(ms[k]) ELSE h[k + 1]]
           = [k \in 1 .. N + 1 |->
                          IF k > N THEN PruneBudget
                          ELSE IF k \in T /\ h[k + 1] >= z[k] THEN h[k + 1] - z[k] ELSE h[k + 1]]
      BY <3>1
    <3>3. QED
      BY <3>2 DEF LeftOf, N
  <2>2. QED
    BY <2>1
<1>7. E(f)
  <2>1. ASSUME NEW k \in 1 .. N + 1
        PROVE  f[k] = IF k > N THEN PruneBudget
                      ELSE IF k \in T /\ f[k + 1] >= z[k] THEN f[k + 1] - z[k] ELSE f[k + 1]
    <3>1. CASE k = N + 1
      BY <1>1, <1>5, <3>1 DEF GoesDown
    <3>2. CASE k # N + 1
      <4>1. k \in 1 .. N /\ ~ (k > N) /\ k + 1 \in 1 .. N + 1
        BY <1>1, <3>2
      <4>2. f[k] = g[k][f[k + 1]] /\ f[k + 1] \in Nat
        BY <1>5, <4>1 DEF GoesDown
      <4>3. QED
        BY <1>4, <4>1, <4>2
    <3>3. QED
      BY <3>1, <3>2
  <2>2. QED
    BY <2>1
<1>8. PICK h : E(h) /\ K!BudgetLeft(ms) = h
  <2>1. K!BudgetLeft(ms) = CHOOSE h : LeftOf(h, ms)
    BY DEF K!BudgetLeft, LeftOf
  <2>2. \E h : LeftOf(h, ms)
    BY <1>6, <1>7
  <2>3. LeftOf(K!BudgetLeft(ms), ms)
    BY <2>1, <2>2
  <2>4. QED
    BY <1>6, <2>3
<1>9. /\ h[N + 1] = PruneBudget
      /\ \A k \in 1 .. N :
           h[k] = IF k \in T /\ h[k + 1] >= z[k] THEN h[k + 1] - z[k] ELSE h[k + 1]
  <2>1. N + 1 \in 1 .. N + 1 /\ N + 1 > N /\ \A k \in 1 .. N : k \in 1 .. N + 1 /\ ~ (k > N)
    BY <1>1
  <2>2. QED
    BY <1>8, <2>1
<1> HIDE DEF E
<1>10. \A k \in 1 .. N + 1 : h[k] \in Nat
  <2>1. h[N + 1] \in Nat
    BY <1>9
  <2>2. ASSUME NEW k \in 1 .. N, h[k + 1] \in Nat PROVE h[k] \in Nat
    <3>1. /\ h[k] = IF k \in T /\ h[k + 1] >= z[k] THEN h[k + 1] - z[k] ELSE h[k + 1]
          /\ z[k] \in Nat
      BY <1>1, <1>9
    <3>2. QED
      BY <2>2, <3>1
  <2>3. QED
    BY <1>1, <2>1, <2>2, DownStays
<1>11. QED
  BY <1>2, <1>8, <1>9, <1>10 DEF N

-----------------------------------------------------------------------------
SizesKnown(ms) == \A k \in 1 .. Len(ms) : K!Size(ms[k]) \in Nat

\* The sizes of the messages, before and after they are pruned.
LEMMA SizesAre ==
  ASSUME K!CompactionConstants, NEW P, NEW ms \in Seq(P), SizesKnown(ms)
  PROVE  /\ K!SizesOf(ms) \in Seq(Nat) /\ Len(K!SizesOf(ms)) = Len(ms)
         /\ \A k \in 1 .. Len(ms) : K!SizesOf(ms)[k] = K!Size(ms[k])
         /\ K!pruneToolOutputs(ms) \in Seq(Nat) /\ Len(K!pruneToolOutputs(ms)) = Len(ms)
         /\ \A k \in 1 .. Len(ms) :
              K!pruneToolOutputs(ms)[k] =
                IF K!IsTool(ms[k]) /\ K!BudgetLeft(ms)[k + 1] < K!Size(ms[k])
                  THEN PrunedSize ELSE K!Size(ms[k])
<1>1. DOMAIN ms = 1 .. Len(ms) /\ Len(ms) \in Nat /\ PrunedSize \in Nat
  BY DEF K!CompactionConstants
<1>2. /\ K!SizesOf(ms) \in Seq(Nat) /\ Len(K!SizesOf(ms)) = Len(ms)
      /\ \A k \in 1 .. Len(ms) : K!SizesOf(ms)[k] = K!Size(ms[k])
  BY <1>1 DEF K!SizesOf, SizesKnown
<1> DEFINE p == [k \in 1 .. Len(ms) |->
                   IF K!IsTool(ms[k]) /\ K!BudgetLeft(ms)[k + 1] < K!Size(ms[k])
                     THEN PrunedSize ELSE K!Size(ms[k])]
<1>3. K!pruneToolOutputs(ms) = p
  BY <1>1 DEF K!pruneToolOutputs
<1>4. p \in Seq(Nat) /\ Len(p) = Len(ms)
  <2>1. p \in [1 .. Len(ms) -> Nat]
    BY <1>1 DEF SizesKnown
  <2> HIDE DEF p
  <2>2. QED
    BY <1>1, <2>1
<1>5. QED
  BY <1>2, <1>3, <1>4

\* Pruning stays in its budget, and touches tool results only.
LEMMA PruneStaysInBudget ==
  ASSUME K!CompactionConstants, NEW P, messages \in Seq(P), SizesKnown(messages)
  PROVE  K!PruneInBudget
<1> DEFINE ms == messages
           N == Len(ms)
           s == K!pruneToolOutputs(ms)
           kept == [i \in DOMAIN s |-> IF K!IsTool(ms[i]) /\ s[i] # PrunedSize THEN s[i] ELSE 0]
           left == K!BudgetLeft(ms)
           sum == K!Totals(kept)
<1>1. /\ s \in Seq(Nat) /\ Len(s) = N /\ N \in Nat /\ DOMAIN s = 1 .. N
      /\ \A k \in 1 .. N :
           s[k] = IF K!IsTool(ms[k]) /\ left[k + 1] < K!Size(ms[k])
                    THEN PrunedSize ELSE K!Size(ms[k])
  BY SizesAre
<1>2. /\ PruneBudget \in Nat
      /\ \A k \in 1 .. N + 1 : left[k] \in Nat
      /\ left[N + 1] = PruneBudget
      /\ \A k \in 1 .. N :
           left[k] = IF K!IsTool(ms[k]) /\ left[k + 1] >= K!Size(ms[k])
                       THEN left[k + 1] - K!Size(ms[k]) ELSE left[k + 1]
  <2>1. PruneBudget \in Nat
    BY DEF K!CompactionConstants
  <2>2. QED
    BY <2>1, BudgetIs DEF SizesKnown
<1>3. \A k \in 1 .. N : K!Size(ms[k]) \in Nat
  BY DEF SizesKnown
<1> HIDE DEF s, left, N
<1>4. kept \in Seq(Nat) /\ Len(kept) = N
  <2>1. \A k \in 1 .. N : s[k] \in Nat
    BY <1>1
  <2>2. kept \in [1 .. N -> Nat]
    BY <1>1, <2>1
  <2> HIDE DEF kept
  <2>3. QED
    BY <1>1, <2>2
<1>5. \A k \in 1 .. N : kept[k] = IF K!IsTool(ms[k]) /\ s[k] # PrunedSize THEN s[k] ELSE 0
  BY <1>1
<1> HIDE DEF kept
<1>6. /\ \A k \in 1 .. N + 1 : sum[k] \in Nat
      /\ sum[N + 1] = 0
      /\ \A k \in 1 .. N : sum[k] = kept[k] + sum[k + 1]
  BY <1>4, TotalsAre
<1> HIDE DEF sum, ms
<1> DEFINE f == [k \in 1 .. N + 1 |-> sum[k] + left[k]]
           V == 0 .. PruneBudget
<1>7. f[N + 1] \in V
  BY <1>1, <1>2, <1>6
<1>8. ASSUME NEW k \in 1 .. N, f[k + 1] \in V PROVE f[k] \in V
  <2>1. /\ k \in 1 .. N + 1 /\ k + 1 \in 1 .. N + 1
        /\ f[k] = sum[k] + left[k] /\ f[k + 1] = sum[k + 1] + left[k + 1]
    BY <1>1
  <2>2. /\ sum[k] \in Nat /\ left[k] \in Nat /\ sum[k + 1] \in Nat /\ left[k + 1] \in Nat
        /\ sum[k] = kept[k] + sum[k + 1] /\ K!Size(ms[k]) \in Nat /\ kept[k] \in Nat
    BY <1>2, <1>3, <1>4, <1>6, <2>1
  <2> HIDE DEF f
  <2>3. CASE K!IsTool(ms[k]) /\ left[k + 1] >= K!Size(ms[k])
    <3>1. left[k] = left[k + 1] - K!Size(ms[k])
      BY <1>2, <2>3
    <3>2. ~ (left[k + 1] < K!Size(ms[k]))
      BY <2>2, <2>3
    <3>3. s[k] = K!Size(ms[k])
      BY <1>1, <3>2
    <3>4. kept[k] <= K!Size(ms[k])
      BY <1>5, <2>2, <3>3
    <3>5. f[k] \in Nat /\ f[k] <= f[k + 1]
      BY <2>1, <2>2, <3>1, <3>4
    <3>6. QED
      BY <1>2, <1>8, <3>5
  <2>4. CASE ~ (K!IsTool(ms[k]) /\ left[k + 1] >= K!Size(ms[k]))
    <3>1. left[k] = left[k + 1]
      BY <1>2, <2>4
    <3>2. kept[k] = 0
      <4>1. CASE K!IsTool(ms[k])
        <5>1. left[k + 1] < K!Size(ms[k])
          BY <2>2, <2>4, <4>1
        <5>2. s[k] = PrunedSize
          BY <1>1, <4>1, <5>1
        <5>3. QED
          BY <1>5, <5>2
      <4>2. CASE ~ K!IsTool(ms[k])
        BY <1>5, <4>2
      <4>3. QED
        BY <4>1, <4>2
    <3>3. QED
      BY <1>2, <1>8, <2>1, <2>2, <3>1, <3>2
  <2>5. QED
    BY <2>3, <2>4
<1>9. sum[1] <= PruneBudget
  <2>1. f[1] \in V
    <3> HIDE DEF f, V
    <3>1. \A k \in 1 .. N + 1 : f[k] \in V
      BY <1>1, <1>7, <1>8, DownStays
    <3>2. QED
      BY <1>1, <3>1
  <2>2. f[1] = sum[1] + left[1] /\ sum[1] \in Nat /\ left[1] \in Nat
    BY <1>1, <1>2, <1>6
  <2>3. QED
    BY <1>2, <2>1, <2>2
<1>10. \A i \in 1 .. N : ~ K!IsTool(ms[i]) => s[i] = K!Size(ms[i])
  BY <1>1
<1>11. K!Total(kept) = sum[1]
  BY DEF K!Total, K!TotalFrom, sum
<1>12. QED
  BY <1>1, <1>9, <1>10, <1>11 DEF K!PruneInBudget, kept, s, ms

\* The last of some places of a list.
LEMMA LastPlace ==
  ASSUME NEW n \in Nat, NEW T, T \subseteq 1 .. n, T # {}
  PROVE  \E m \in T : \A k \in T : k <= m
<1> DEFINE R == {n - k : k \in T}
<1>1. R \subseteq Nat /\ R # {}
  <2>1. \A k \in T : n - k \in Nat
    OBVIOUS
  <2>2. PICK k \in T : TRUE
    OBVIOUS
  <2>3. n - k \in R
    OBVIOUS
  <2>4. QED
    BY <2>1, <2>3
<1>2. PICK r \in R : \A q \in R : r <= q
  <2> HIDE DEF R
  <2>1. QED
    BY <1>1, LeastOf
<1>3. PICK m \in T : r = n - m
  OBVIOUS
<1>4. ASSUME NEW k \in T PROVE k <= m
  <2>1. n - m <= n - k
    BY <1>2, <1>3
  <2>2. k \in 1 .. n /\ m \in 1 .. n
    OBVIOUS
  <2>3. QED
    BY <2>1, <2>2
<1>5. QED
  BY <1>4

\* The cut keeps what it has to, and no message more.
LEMMA CutsAreTight ==
  ASSUME K!CompactionConstants, NEW P, messages \in Seq(P), SizesKnown(messages)
  PROVE  K!CutIsTight
<1> DEFINE s == K!pruneToolOutputs(messages)
           c == K!findCutPoint(s)
           is == {i \in DOMAIN s : K!TotalFrom(s, i) >= KeepRecent}
           last == CHOOSE x \in is : \A y \in is : y <= x
<1>1. s \in Seq(Nat) /\ KeepRecent \in Nat \ {0}
  BY SizesAre DEF K!CompactionConstants
<1> HIDE DEF s
<1>2. DOMAIN s = 1 .. Len(s) /\ Len(s) \in Nat
  BY <1>1
<1>3. /\ \A k \in 1 .. Len(s) + 1 : K!TotalFrom(s, k) \in Nat
      /\ K!TotalFrom(s, Len(s) + 1) = 0
  BY <1>1, TotalsAre DEF K!TotalFrom
<1>4. c = IF is \subseteq {1} THEN 0 ELSE last
  BY DEF K!findCutPoint
<1>5. SUFFICES ASSUME c # 0
               PROVE  c > 1 /\ K!TotalFrom(s, c) >= KeepRecent /\ K!TotalFrom(s, c + 1) < KeepRecent
  BY DEF K!CutIsTight, s
<1> HIDE DEF c
<1>6. c = last /\ \E x \in is : x # 1
  BY <1>4, <1>5
<1>7. is \subseteq 1 .. Len(s)
  BY <1>2
<1>8. \E m \in is : \A k \in is : k <= m
  <2> HIDE DEF is
  <2>1. QED
    BY <1>2, <1>6, <1>7, LastPlace
<1>9. last \in is /\ \A y \in is : y <= last
  <2> HIDE DEF is
  <2>1. QED
    BY <1>8
<1> HIDE DEF last
<1>10. c \in 1 .. Len(s) /\ K!TotalFrom(s, c) >= KeepRecent
  BY <1>2, <1>6, <1>9
<1>11. c > 1
  <2>1. PICK x \in is : x # 1
    BY <1>6
  <2>2. x \in 1 .. Len(s) /\ x <= c
    BY <1>6, <1>7, <1>9
  <2>3. QED
    BY <1>2, <1>10, <2>1, <2>2
<1>12. K!TotalFrom(s, c + 1) < KeepRecent
  <2>1. CASE c = Len(s)
    BY <1>1, <1>3, <2>1
  <2>2. CASE c # Len(s)
    <3>1. c + 1 \in 1 .. Len(s) /\ c + 1 \in 1 .. Len(s) + 1 /\ ~ (c + 1 <= c)
      <4>1. Len(s) \in Nat /\ c \in 1 .. Len(s)
        BY <1>2, <1>10
      <4>2. c \in Nat
        BY <4>1
      <4>3. QED
        BY <2>2, <4>1, <4>2
    <3>2. c + 1 \notin is
      BY <1>6, <1>9, <3>1
    <3>3. ~ (K!TotalFrom(s, c + 1) >= KeepRecent)
      BY <1>2, <3>1, <3>2
    <3>4. QED
      BY <1>1, <1>3, <3>1, <3>3
  <2>3. QED
    BY <2>1, <2>2
<1>13. QED
  BY <1>10, <1>11, <1>12

-----------------------------------------------------------------------------
\* The lists of seqs, one after the other.
Flattens(f, seqs) ==
  f = [i \in 1 .. Len(seqs) |-> IF i = 1 THEN seqs[i] ELSE f[i - 1] \o seqs[i]]

LEMMA FlattenIs ==
  ASSUME NEW P, NEW seqs \in Seq(Seq(P)), seqs # <<>>
  PROVE  \E f : /\ Flattens(f, seqs)
                /\ K!FlattenSeq(seqs) = f[Len(seqs)]
                /\ \A i \in 1 .. Len(seqs) : f[i] \in Seq(P)
<1> DEFINE N == Len(seqs)
           g == [n \in 1 .. N |-> [x \in Seq(P) |-> x \o seqs[n]]]
<1>1. N \in Nat /\ N # 0 /\ \A n \in 1 .. N : seqs[n] \in Seq(P)
  OBVIOUS
<1> HIDE DEF N
<1>2. g \in [1 .. N -> [Seq(P) -> Seq(P)]]
  BY <1>1
<1>3. \A n \in 1 .. N, x \in Seq(P) : g[n][x] = x \o seqs[n]
  OBVIOUS
<1> HIDE DEF g
<1>4. PICK e \in [0 .. N -> Seq(P)] : GoesUp(e, N, <<>>, g)
  <2>1. <<>> \in Seq(P)
    OBVIOUS
  <2>2. QED
    BY <1>1, <1>2, <2>1, RunUp
<1> DEFINE f == [i \in 1 .. N |-> e[i]]
<1>5. Flattens(f, seqs)
  <2>1. ASSUME NEW i \in 1 .. N PROVE f[i] = IF i = 1 THEN seqs[i] ELSE f[i - 1] \o seqs[i]
    <3>1. e[i] = e[i - 1] \o seqs[i] /\ e[i - 1] \in Seq(P)
      <4>1. i - 1 \in 0 .. N
        BY <1>1
      <4>2. e[i] = g[i][e[i - 1]] /\ e[i - 1] \in Seq(P)
        BY <1>4, <4>1 DEF GoesUp
      <4>3. QED
        BY <1>3, <4>2
    <3>2. CASE i = 1
      <4>1. e[0] = <<>>
        BY <1>4 DEF GoesUp
      <4>2. e[i] = <<>> \o seqs[i] /\ seqs[i] \in Seq(P)
        <5>1. i - 1 = 0
          BY <3>2
        <5>2. seqs[i] \in Seq(P)
          BY <1>1
        <5>3. QED
          BY <3>1, <4>1, <5>1, <5>2
      <4>3. e[i] = seqs[i]
        BY <4>2
      <4>4. QED
        BY <3>2, <4>3
    <3>3. CASE i # 1
      <4>1. i - 1 \in 1 .. N
        BY <1>1, <3>3
      <4>2. QED
        BY <3>1, <3>3, <4>1
    <3>4. QED
      BY <3>2, <3>3
  <2>2. QED
    BY <2>1 DEF Flattens, N
<1> HIDE DEF f
<1>6. PICK h : Flattens(h, seqs) /\ K!FlattenSeq(seqs) = h[N]
  <2>1. K!FlattenSeq(seqs) = (CHOOSE h : Flattens(h, seqs))[N]
    BY <1>1 DEF K!FlattenSeq, Flattens, N
  <2>2. QED
    BY <1>5, <2>1
<1>7. h = [i \in 1 .. N |-> IF i = 1 THEN seqs[i] ELSE h[i - 1] \o seqs[i]]
  BY <1>6 DEF Flattens, N
<1>8. \A i \in 1 .. N : h[i] \in Seq(P)
  <2> DEFINE d == [i \in 0 .. N |-> IF i = 0 THEN <<>> ELSE h[i]]
  <2>1. d[0] \in Seq(P)
    BY <1>1
  <2>2. \A i \in 1 .. N : d[i] = h[i]
    OBVIOUS
  <2> HIDE DEF d
  <2>3. ASSUME NEW i \in 1 .. N, d[i - 1] \in Seq(P) PROVE d[i] \in Seq(P)
    <3>1. h[i] = IF i = 1 THEN seqs[i] ELSE h[i - 1] \o seqs[i]
      BY <1>7
    <3>2. i # 1 => i - 1 \in 1 .. N
      BY <1>1
    <3>3. i # 1 => h[i - 1] \in Seq(P)
      BY <2>2, <2>3, <3>2
    <3>4. h[i] \in Seq(P)
      <4>1. seqs[i] \in Seq(P)
        BY <1>1
      <4>2. QED
        BY <3>1, <3>3, <4>1
    <3>5. QED
      BY <2>2, <3>4
  <2>4. \A i \in 0 .. N : d[i] \in Seq(P)
    BY <1>1, <2>1, <2>3, UpStays
  <2>5. QED
    <3>1. \A i \in 1 .. N : i \in 0 .. N
      BY <1>1
    <3>2. QED
      BY <2>2, <2>4, <3>1
<1>9. QED
  BY <1>6, <1>8 DEF N

\* The lists before the last one are flattened alike.
LEMMA FlattenAgree ==
  ASSUME NEW a, NEW b, Len(a) \in Nat, Len(b) = Len(a) + 1,
         \A i \in 1 .. Len(a) : a[i] = b[i],
         NEW f, Flattens(f, a), NEW g, Flattens(g, b)
  PROVE  \A i \in 1 .. Len(a) : f[i] = g[i]
<1> DEFINE k == Len(a)
           Good == {i \in Nat : i \in 1 .. k => f[i] = g[i]}
<1>1. 0 \in Good
  OBVIOUS
<1>2. ASSUME NEW i \in Nat, i \in Good PROVE i + 1 \in Good
  <2>1. SUFFICES ASSUME i + 1 <= k PROVE f[i + 1] = g[i + 1]
    OBVIOUS
  <2>2. /\ i + 1 \in 1 .. k /\ i + 1 \in 1 .. Len(a) /\ i + 1 \in 1 .. Len(b)
        /\ (i + 1) - 1 = i /\ (i + 1 # 1 => f[i] = g[i])
    BY <1>2, <2>1
  <2>3. f[i + 1] = IF i + 1 = 1 THEN a[i + 1] ELSE f[i] \o a[i + 1]
    BY <2>2 DEF Flattens
  <2>4. g[i + 1] = IF i + 1 = 1 THEN b[i + 1] ELSE g[i] \o b[i + 1]
    BY <2>2 DEF Flattens
  <2>5. QED
    BY <2>2, <2>3, <2>4
<1> HIDE DEF Good
<1>3. \A i \in Nat : i \in Good
  BY <1>1, <1>2, NatInduct
<1>4. QED
  BY <1>3 DEF Good

LEMMA FlattenEmpty == K!FlattenSeq(<<>>) = <<>>
BY DEF K!FlattenSeq

LEMMA FlattenAppend ==
  ASSUME NEW P, NEW c \in Seq(Seq(P)), NEW x \in Seq(P)
  PROVE  /\ K!FlattenSeq(Append(c, x)) = K!FlattenSeq(c) \o x
         /\ K!FlattenSeq(c) \in Seq(P)
<1> DEFINE r == Append(c, x)
<1>1. /\ r \in Seq(Seq(P)) /\ r # <<>> /\ Len(r) = Len(c) + 1 /\ Len(c) \in Nat
      /\ r[Len(c) + 1] = x /\ \A i \in 1 .. Len(c) : c[i] = r[i]
  <2>1. Len(c) \in Nat
    OBVIOUS
  <2>2. QED
    BY <2>1, AppendProperties
<1> HIDE DEF r
<1>2. PICK g : /\ Flattens(g, r) /\ K!FlattenSeq(r) = g[Len(r)]
               /\ \A i \in 1 .. Len(r) : g[i] \in Seq(P)
  BY <1>1, FlattenIs
<1>3. g[Len(r)] = IF Len(r) = 1 THEN r[Len(r)] ELSE g[Len(r) - 1] \o r[Len(r)]
  <2>1. Len(r) \in 1 .. Len(r)
    BY <1>1
  <2>2. g = [i \in 1 .. Len(r) |-> IF i = 1 THEN r[i] ELSE g[i - 1] \o r[i]]
    BY <1>2 DEF Flattens
  <2>3. QED
    BY <2>1, <2>2
<1>4. CASE c = <<>>
  <2>1. K!FlattenSeq(c) = <<>> /\ Len(c) = 0
    BY <1>4, FlattenEmpty
  <2>2. K!FlattenSeq(r) = x
    BY <1>1, <1>2, <1>3, <2>1
  <2>3. QED
    BY <2>1, <2>2 DEF r
<1>5. CASE c # <<>>
  <2>1. PICK f : /\ Flattens(f, c) /\ K!FlattenSeq(c) = f[Len(c)]
                 /\ \A i \in 1 .. Len(c) : f[i] \in Seq(P)
    BY <1>5, FlattenIs
  <2>2. Len(c) \in 1 .. Len(c)
    BY <1>1, <1>5
  <2>3. f[Len(c)] = g[Len(c)]
    <3>1. \A i \in 1 .. Len(c) : f[i] = g[i]
      <4>1. /\ Flattens(f, c) /\ Flattens(g, r) /\ Len(c) \in Nat
            /\ Len(r) = Len(c) + 1 /\ \A i \in 1 .. Len(c) : c[i] = r[i]
        BY <1>1, <1>2, <2>1
      <4>2. QED
        BY <4>1, FlattenAgree
    <3>2. QED
      BY <2>2, <3>1
  <2>4. QED
    <3>1. Len(r) # 1 /\ Len(r) - 1 = Len(c)
      BY <1>1, <2>2
    <3>2. K!FlattenSeq(r) = g[Len(c)] \o x
      BY <1>1, <1>2, <1>3, <3>1
    <3>3. QED
      BY <2>1, <2>2, <2>3, <3>2 DEF r
<1>6. QED
  BY <1>4, <1>5

Chunks == Seq(Nat) \ {<<>>}
Chunkings == [chunks : Seq(Chunks), chunk : Seq(Nat), sum : Nat]

\* A quotient is a number.
LEMMA Quotient ==
  ASSUME NEW a \in Int, NEW b \in Int, b > 0
  PROVE  a \div b \in Int
OBVIOUS

\* Some chunk is planned.
LEMMA ChunksPlanned ==
  ASSUME K!CompactionConstants, NEW total \in Nat
  PROVE  K!NumChunks(total) \in Nat \ {0}
<1> DEFINE w == Window * Window * 40
           adaptive == IF 2 * total <= Window THEN (Window * 40) \div 100
                       ELSE w \div (200 * total)
           share == K!AtLeast((Window * 15) \div 100, adaptive)
<1>1. Window \in Nat /\ Window >= 7
  BY DEF K!CompactionConstants
<1>2. w \in Int
  BY <1>1
<1> HIDE DEF w
<1>3. adaptive \in Int
  <2>1. CASE 2 * total <= Window
    BY <1>1, <2>1
  <2>2. CASE ~ (2 * total <= Window)
    <3>1. 200 * total \in Int /\ 200 * total > 0
      BY <1>1, <2>2
    <3>2. w \div (200 * total) \in Int
      BY <1>2, <3>1, Quotient
    <3>3. QED
      BY <2>2, <3>2
  <2>3. QED
    BY <2>1, <2>2
<1> HIDE DEF adaptive
<1>4. (Window * 15) \div 100 \in Int /\ (Window * 15) \div 100 > 0
  BY <1>1
<1>5. share \in Int /\ share > 0
  BY <1>3, <1>4 DEF K!AtLeast
<1> HIDE DEF share
<1>6. K!Ceil(total, share) \in Int
  <2>1. total + share - 1 \in Int
    BY <1>5
  <2>2. QED
    BY <1>5, <2>1, Quotient DEF K!Ceil
<1>7. K!AtLeast(1, K!Ceil(total, share)) \in Nat \ {0}
  BY <1>6 DEF K!AtLeast
<1>8. QED
  BY <1>7 DEF K!NumChunks, share, adaptive, w

LEMMA ChunkedType ==
  ASSUME NEW acc \in Chunkings, NEW x \in Nat, NEW n, NEW total
  PROVE  K!Chunked(acc, x, n, total) \in Chunkings
<1>1. /\ acc = [chunks |-> acc.chunks, chunk |-> acc.chunk, sum |-> acc.sum]
      /\ acc.chunks \in Seq(Chunks) /\ acc.chunk \in Seq(Nat) /\ acc.sum \in Nat
  BY DEF Chunkings
<1>2. Append(acc.chunk, x) \in Chunks
  BY <1>1 DEF Chunks
<1>3. Append(acc.chunks, Append(acc.chunk, x)) \in Seq(Chunks)
  BY <1>1, <1>2
<1>4. [K!NoChunks EXCEPT !.chunks = Append(acc.chunks, Append(acc.chunk, x))] \in Chunkings
  <2> DEFINE X == Append(acc.chunks, Append(acc.chunk, x))
             r == [chunks |-> X, chunk |-> <<>>, sum |-> 0]
             e == [K!NoChunks EXCEPT !.chunks = X]
  <2>1. e = r
    <3> HIDE DEF X
    <3>1. QED
      BY DEF K!NoChunks
  <2>2. <<>> \in Seq(Nat) /\ 0 \in Nat
    OBVIOUS
  <2>3. QED
    BY <1>3, <2>1, <2>2 DEF Chunkings
<1>5. [acc EXCEPT !.chunk = Append(@, x), !.sum = @ + x] \in Chunkings
  <2>1. Append(acc.chunk, x) \in Seq(Nat) /\ acc.sum + x \in Nat
    BY <1>1
  <2>2. QED
    BY <1>1, <2>1 DEF Chunkings
<1>6. QED
  BY <1>4, <1>5 DEF K!Chunked

ChunksOf(f, s, n) ==
  f = [k \in 0 .. Len(s) |->
         IF k = 0 THEN K!NoChunks ELSE K!Chunked(f[k - 1], s[k], n, K!Total(s))]

LEMMA ChunksAre ==
  ASSUME NEW s \in Seq(Nat), NEW n
  PROVE  /\ K!ChunksUpTo(s, n)[0] = K!NoChunks
         /\ \A k \in 0 .. Len(s) : K!ChunksUpTo(s, n)[k] \in Chunkings
         /\ \A k \in 1 .. Len(s) :
              K!ChunksUpTo(s, n)[k] =
                K!Chunked(K!ChunksUpTo(s, n)[k - 1], s[k], n, K!Total(s))
<1> DEFINE N == Len(s)
           total == K!Total(s)
           g == [k \in 1 .. N |-> [x \in Chunkings |-> K!Chunked(x, s[k], n, total)]]
<1>1. N \in Nat /\ \A k \in 1 .. N : s[k] \in Nat
  OBVIOUS
<1>2. K!NoChunks \in Chunkings
  <2>1. <<>> \in Seq(Chunks) /\ <<>> \in Seq(Nat)
    OBVIOUS
  <2>2. QED
    BY <2>1 DEF K!NoChunks, Chunkings
<1> HIDE DEF N, total
<1>3. g \in [1 .. N -> [Chunkings -> Chunkings]]
  BY <1>1, ChunkedType
<1>4. \A k \in 1 .. N, x \in Chunkings : g[k][x] = K!Chunked(x, s[k], n, total)
  OBVIOUS
<1> HIDE DEF g
<1>5. PICK f \in [0 .. N -> Chunkings] : GoesUp(f, N, K!NoChunks, g)
  BY <1>1, <1>2, <1>3, RunUp
<1>6. ChunksOf(f, s, n)
  <2>1. ASSUME NEW k \in 0 .. N
        PROVE  f[k] = IF k = 0 THEN K!NoChunks ELSE K!Chunked(f[k - 1], s[k], n, total)
    <3>1. CASE k = 0
      BY <1>5, <3>1 DEF GoesUp
    <3>2. CASE k # 0
      <4>1. k \in 1 .. N /\ k - 1 \in 0 .. N
        BY <1>1, <3>2
      <4>2. f[k] = g[k][f[k - 1]] /\ f[k - 1] \in Chunkings
        BY <1>5, <4>1 DEF GoesUp
      <4>3. QED
        BY <1>4, <3>2, <4>1, <4>2
    <3>3. QED
      BY <3>1, <3>2
  <2>2. f = [k \in 0 .. N |-> IF k = 0 THEN K!NoChunks ELSE K!Chunked(f[k - 1], s[k], n, total)]
    BY <2>1
  <2>3. QED
    BY <2>2 DEF ChunksOf, N, total
<1>7. PICK h : ChunksOf(h, s, n) /\ K!ChunksUpTo(s, n) = h
  <2>1. K!ChunksUpTo(s, n) = CHOOSE h : ChunksOf(h, s, n)
    BY DEF K!ChunksUpTo, ChunksOf
  <2>2. QED
    BY <1>6, <2>1
<1>8. h = [k \in 0 .. N |-> IF k = 0 THEN K!NoChunks ELSE K!Chunked(h[k - 1], s[k], n, total)]
  BY <1>7 DEF ChunksOf, N, total
<1>9. h[0] = K!NoChunks /\ \A k \in 1 .. N : h[k] = K!Chunked(h[k - 1], s[k], n, total)
  <2>1. 0 \in 0 .. N /\ \A k \in 1 .. N : k \in 0 .. N /\ k # 0
    BY <1>1
  <2>2. QED
    BY <1>8, <2>1
<1>10. \A k \in 0 .. N : h[k] \in Chunkings
  <2>1. h[0] \in Chunkings
    BY <1>2, <1>9
  <2>2. ASSUME NEW k \in 1 .. N, h[k - 1] \in Chunkings PROVE h[k] \in Chunkings
    <3>1. h[k] = K!Chunked(h[k - 1], s[k], n, total) /\ s[k] \in Nat
      BY <1>1, <1>9
    <3>2. QED
      BY <2>2, <3>1, ChunkedType
  <2>3. QED
    BY <1>1, <2>1, <2>2, UpStays
<1>11. QED
  BY <1>7, <1>9, <1>10 DEF N, total

\* The chunks so far, with the open one, are the messages so far.
Covered(acc, s, n, k) ==
  /\ acc \in Chunkings
  /\ K!FlattenSeq(acc.chunks) \in Seq(Nat)
  /\ K!FlattenSeq(acc.chunks) \o acc.chunk = SubSeq(s, 1, k)
  /\ Len(acc.chunks) <= n - 1

LEMMA CoveredOn ==
  ASSUME NEW s \in Seq(Nat), NEW n \in Nat, NEW total, NEW k \in 1 .. Len(s),
         NEW acc, Covered(acc, s, n, k - 1)
  PROVE  Covered(K!Chunked(acc, s[k], n, total), s, n, k)
<1> DEFINE x == s[k]
           new == K!Chunked(acc, x, n, total)
           flat == K!FlattenSeq(acc.chunks)
<1>1. /\ acc \in Chunkings /\ flat \in Seq(Nat) /\ flat \o acc.chunk = SubSeq(s, 1, k - 1)
      /\ Len(acc.chunks) <= n - 1
  BY DEF Covered
<1>2. /\ acc = [chunks |-> acc.chunks, chunk |-> acc.chunk, sum |-> acc.sum]
      /\ acc.chunks \in Seq(Chunks) /\ acc.chunk \in Seq(Nat) /\ acc.sum \in Nat
  BY <1>1 DEF Chunkings
<1>3. x \in Nat /\ SubSeq(s, 1, k) = Append(SubSeq(s, 1, k - 1), x)
  OBVIOUS
<1> HIDE DEF flat, x
<1>4. new \in Chunkings
  BY <1>1, <1>3, ChunkedType
<1> HIDE DEF new
<1>5. Append(acc.chunk, x) \in Seq(Nat)
  BY <1>2, <1>3
<1>6. flat \o Append(acc.chunk, x) = SubSeq(s, 1, k)
  <2>1. flat \o Append(acc.chunk, x) = Append(flat \o acc.chunk, x)
    <3>1. \A a, b \in Seq(Nat), y \in Nat : a \o Append(b, y) = Append(a \o b, y)
      OBVIOUS
    <3>2. QED
      BY <1>1, <1>2, <1>3, <3>1
  <2>2. QED
    BY <1>1, <1>3, <2>1
<1>7. SUFFICES Covered(new, s, n, k)
  BY DEF new, x
<1>8. CASE (acc.sum + x) * n >= total /\ Len(acc.chunks) < n - 1
  <2>1. new = [K!NoChunks EXCEPT !.chunks = Append(acc.chunks, Append(acc.chunk, x))]
    BY <1>8 DEF K!Chunked, new
  <2>2. new.chunks = Append(acc.chunks, Append(acc.chunk, x)) /\ new.chunk = <<>>
    BY <2>1 DEF K!NoChunks
  <2>3. acc.chunks \in Seq(Seq(Nat))
    BY <1>2 DEF Chunks
  <2>4. K!FlattenSeq(new.chunks) = flat \o Append(acc.chunk, x)
    BY <1>5, <2>2, <2>3, FlattenAppend DEF flat
  <2>5. flat \o Append(acc.chunk, x) \in Seq(Nat)
    BY <1>1, <1>5
  <2>6. \A l \in Seq(Nat) : l \o <<>> = l
    OBVIOUS
  <2>7. Len(new.chunks) = Len(acc.chunks) + 1 /\ Len(acc.chunks) \in Nat
    BY <1>2, <2>2
  <2>8. Len(new.chunks) <= n - 1
    BY <1>8, <2>7
  <2>9. QED
    BY <1>4, <1>6, <2>2, <2>4, <2>5, <2>6, <2>8 DEF Covered
<1>9. CASE ~ ((acc.sum + x) * n >= total /\ Len(acc.chunks) < n - 1)
  <2>1. new = [acc EXCEPT !.chunk = Append(@, x), !.sum = @ + x]
    BY <1>9 DEF K!Chunked, new
  <2>2. new.chunks = acc.chunks /\ new.chunk = Append(acc.chunk, x)
    BY <1>2, <2>1
  <2>3. QED
    BY <1>1, <1>4, <1>6, <2>2 DEF Covered, flat
<1>10. QED
  BY <1>8, <1>9

\* The chunks are the messages, in order, and none is empty.
LEMMA SplitCovers ==
  ASSUME NEW s \in Seq(Nat), s # <<>>, NEW n \in Nat \ {0}
  PROVE  /\ K!FlattenSeq(K!splitByTokenShare(s, n)) = s
         /\ Len(K!splitByTokenShare(s, n)) <= n
         /\ \A i \in DOMAIN K!splitByTokenShare(s, n) : K!splitByTokenShare(s, n)[i] # <<>>
<1> DEFINE upTo == K!ChunksUpTo(s, n)
           end == upTo[Len(s)]
           c == K!splitByTokenShare(s, n)
<1>1. Len(s) \in Nat
  OBVIOUS
<1>2. c = IF n <= 1 THEN <<s>>
          ELSE IF end.chunk = <<>> THEN end.chunks ELSE Append(end.chunks, end.chunk)
  BY DEF K!splitByTokenShare
<1> HIDE DEF c
<1>3. \A k \in 0 .. Len(s) : Covered(upTo[k], s, n, k)
  <2> DEFINE Good == {k \in Nat : k <= Len(s) => Covered(upTo[k], s, n, k)}
  <2>1. 0 \in Good
    <3>1. upTo[0] = K!NoChunks /\ upTo[0] \in Chunkings
      BY <1>1, ChunksAre
    <3>2. upTo[0].chunks = <<>> /\ upTo[0].chunk = <<>>
      BY <3>1 DEF K!NoChunks
    <3>3. K!FlattenSeq(<<>>) = <<>>
      BY FlattenEmpty
    <3>4. <<>> \o <<>> = SubSeq(s, 1, 0) /\ <<>> \in Seq(Nat) /\ Len(<<>>) <= n - 1
      OBVIOUS
    <3> HIDE DEF upTo
    <3>5. QED
      BY <3>1, <3>2, <3>3, <3>4 DEF Covered
  <2>2. ASSUME NEW k \in Nat, k \in Good PROVE k + 1 \in Good
    <3>1. SUFFICES ASSUME k + 1 <= Len(s) PROVE Covered(upTo[k + 1], s, n, k + 1)
      OBVIOUS
    <3>2. k + 1 \in 1 .. Len(s) /\ (k + 1) - 1 = k /\ Covered(upTo[k], s, n, k)
      BY <1>1, <2>2, <3>1
    <3>3. upTo[k + 1] = K!Chunked(upTo[k], s[k + 1], n, K!Total(s))
      BY <3>2, ChunksAre
    <3> HIDE DEF upTo
    <3>4. Covered(K!Chunked(upTo[k], s[k + 1], n, K!Total(s)), s, n, k + 1)
      BY <3>2, CoveredOn
    <3>5. QED
      BY <3>3, <3>4
  <2> HIDE DEF Good
  <2>3. \A k \in Nat : k \in Good
    BY <2>1, <2>2, NatInduct
  <2>4. QED
    BY <2>3 DEF Good
<1>4. Covered(end, s, n, Len(s))
  <2> HIDE DEF upTo
  <2>1. QED
    BY <1>1, <1>3
<1> HIDE DEF end
<1>5. /\ end.chunks \in Seq(Chunks) /\ end.chunk \in Seq(Nat)
      /\ K!FlattenSeq(end.chunks) \o end.chunk = s
      /\ K!FlattenSeq(end.chunks) \in Seq(Nat) /\ Len(end.chunks) <= n - 1
  BY <1>4 DEF Covered, Chunkings
<1>6. \A r \in Seq(Chunks) : r \in Seq(Seq(Nat)) /\ \A i \in DOMAIN r : r[i] # <<>>
  BY DEF Chunks
<1>7. CASE n <= 1
  <2>1. c = <<s>>
    BY <1>2, <1>7
  <2>2. <<>> \in Seq(Seq(Nat)) /\ c = Append(<<>>, s)
    BY <2>1
  <2>3. K!FlattenSeq(c) = <<>> \o s
    BY <2>2, FlattenAppend, FlattenEmpty
  <2>4. <<>> \o s = s
    OBVIOUS
  <2>5. Len(c) = 1 /\ DOMAIN c = {1} /\ c[1] = s
    BY <2>1
  <2>6. QED
    BY <2>3, <2>4, <2>5 DEF c
<1>8. CASE ~ (n <= 1) /\ end.chunk = <<>>
  <2>1. c = end.chunks /\ Len(c) \in Nat
    BY <1>2, <1>5, <1>8
  <2>2. \A l \in Seq(Nat) : l \o <<>> = l
    OBVIOUS
  <2>3. K!FlattenSeq(c) = s
    BY <1>5, <1>8, <2>1, <2>2
  <2>4. Len(c) <= n
    BY <1>5, <2>1
  <2>5. \A i \in DOMAIN c : c[i] # <<>>
    BY <1>5, <1>6, <2>1
  <2>6. QED
    BY <2>3, <2>4, <2>5 DEF c
<1>9. CASE ~ (n <= 1) /\ end.chunk # <<>>
  <2>1. c = Append(end.chunks, end.chunk)
    BY <1>2, <1>9
  <2>2. end.chunk \in Chunks /\ end.chunks \in Seq(Seq(Nat))
    BY <1>5, <1>6, <1>9 DEF Chunks
  <2>3. c \in Seq(Chunks) /\ Len(c) = Len(end.chunks) + 1 /\ Len(end.chunks) \in Nat
    BY <1>5, <2>1, <2>2
  <2>4. K!FlattenSeq(c) = s
    BY <1>5, <2>1, <2>2, FlattenAppend
  <2>5. Len(c) <= n
    BY <1>5, <2>3
  <2>6. \A i \in DOMAIN c : c[i] # <<>>
    BY <1>6, <2>3
  <2>7. QED
    BY <2>4, <2>5, <2>6 DEF c
<1>10. QED
  BY <1>7, <1>8, <1>9

-----------------------------------------------------------------------------
(***************************************************************************)
(* Compaction, the history: the messages of a run are places of the log,   *)
(* or the summary, and so each has a size.                                 *)
(***************************************************************************)
Entry == [type : {"message", "compaction"}, size : Nat, tool : BOOLEAN, kept : Nat]

HistoryTypes ==
  /\ entries \in Seq(Entry)
  /\ messages \in Seq(0 .. Len(entries))
  /\ steered \in Seq(1 .. Len(entries))
  /\ pending.of \in Seq(Nat)

LEMMA PlacesPicked ==
  ASSUME NEW P, NEW log \in Seq(P), NEW T
  PROVE  Only([i \in DOMAIN log |-> i], T) \in Seq(1 .. Len(log))
<1>1. [i \in DOMAIN log |-> i] \in Seq(1 .. Len(log))
  OBVIOUS
<1>2. QED
  BY <1>1, OnlyType

LEMMA PlacesOnly == \A s, T : K!Only(s, T) = Only(s, T)
BY DEF K!Only, Only

LEMMA ContextType ==
  ASSUME NEW P, NEW log \in Seq(P)
  PROVE  K!buildContext(log) \in Seq(0 .. Len(log))
<1> DEFINE cs == {i \in DOMAIN log : log[i].type = "compaction"}
           c == CHOOSE x \in cs : \A y \in cs : y <= x
           start == IF cs = {} THEN 1 ELSE K!From(log, c)
           kept == K!Only([i \in DOMAIN log |-> i], {i \in K!MessageIds(log) : i >= start})
<1>1. kept \in Seq(1 .. Len(log))
  BY PlacesPicked, PlacesOnly
<1>2. K!buildContext(log) = (IF cs = {} THEN <<>> ELSE <<K!Summary>>) \o kept
  BY DEF K!buildContext
<1> HIDE DEF kept, cs
<1>3. kept \in Seq(0 .. Len(log))
  BY <1>1
<1>4. K!Summary \in 0 .. Len(log)
  BY DEF K!Summary
<1>5. (IF cs = {} THEN <<>> ELSE <<K!Summary>>) \in Seq(0 .. Len(log))
  <2>1. <<>> \in Seq(0 .. Len(log)) /\ <<K!Summary>> \in Seq(0 .. Len(log))
    BY <1>4
  <2>2. QED
    BY <2>1
<1>6. \A Q : \A a, b \in Seq(Q) : a \o b \in Seq(Q)
  OBVIOUS
<1>7. QED
  BY <1>2, <1>3, <1>5, <1>6

\* The log grows, and the places of it stay places of it.
LEMMA LogGrows ==
  ASSUME HistoryTypes, NEW e \in Entry
  PROVE  LET log == Append(entries, e)
         IN  /\ log \in Seq(Entry) /\ Len(log) = Len(entries) + 1
             /\ Len(log) \in 1 .. Len(log) /\ Len(log) \in 0 .. Len(log)
             /\ messages \in Seq(0 .. Len(log))
             /\ steered \in Seq(1 .. Len(log))
<1>1. /\ entries \in Seq(Entry) /\ Len(entries) \in Nat
      /\ messages \in Seq(0 .. Len(entries)) /\ steered \in Seq(1 .. Len(entries))
  BY DEF HistoryTypes
<1>2. Append(entries, e) \in Seq(Entry) /\ Len(Append(entries, e)) = Len(entries) + 1
  BY <1>1
<1>3. /\ messages \in Seq(0 .. Len(entries) + 1)
      /\ steered \in Seq(1 .. Len(entries) + 1)
  BY <1>1
<1>4. Len(entries) + 1 \in 1 .. Len(entries) + 1 /\ Len(entries) + 1 \in 0 .. Len(entries) + 1
  BY <1>1
<1>5. QED
  BY <1>2, <1>3, <1>4

LEMMA MessageType ==
  ASSUME K!CompactionConstants, NEW n \in Sizes, NEW tool \in BOOLEAN
  PROVE  K!Message(n, tool) \in Entry
<1>1. n \in Nat
  BY DEF K!CompactionConstants
<1>2. K!Message(n, tool) = [type |-> "message", size |-> n, tool |-> tool, kept |-> 0]
  BY DEF K!Message
<1>3. QED
  BY <1>1, <1>2 DEF Entry

LEMMA HistoryStep ==
  ASSUME K!CompactionConstants, HistoryTypes, [K!Next]_(K!vars)
  PROVE  HistoryTypes'
<1>1. ASSUME NEW n \in Sizes, NEW tool \in BOOLEAN, K!addMessage(n, tool) PROVE HistoryTypes'
  <2>1. K!Message(n, tool) \in Entry
    BY MessageType
  <2>2. /\ entries' = Append(entries, K!Message(n, tool))
        /\ messages' = Append(messages, Len(entries'))
        /\ steered' = steered /\ pending' = pending
    BY <1>1 DEF K!addMessage
  <2>3. /\ entries' \in Seq(Entry) /\ Len(entries') \in 0 .. Len(entries')
        /\ messages \in Seq(0 .. Len(entries')) /\ steered \in Seq(1 .. Len(entries'))
    BY <2>1, <2>2, LogGrows
  <2>4. messages' \in Seq(0 .. Len(entries'))
    BY <2>2, <2>3
  <2>5. QED
    BY <2>2, <2>3, <2>4 DEF HistoryTypes
<1>2. ASSUME NEW n \in Sizes, K!handleSteer(n) PROVE HistoryTypes'
  <2>1. K!Message(n, FALSE) \in Entry
    BY MessageType
  <2>2. /\ entries' = Append(entries, K!Message(n, FALSE))
        /\ steered' = Append(steered, Len(entries'))
        /\ messages' = messages /\ pending' = pending
    BY <1>2 DEF K!handleSteer
  <2>3. /\ entries' \in Seq(Entry) /\ Len(entries') \in 1 .. Len(entries')
        /\ messages \in Seq(0 .. Len(entries')) /\ steered \in Seq(1 .. Len(entries'))
    BY <2>1, <2>2, LogGrows
  <2>4. steered' \in Seq(1 .. Len(entries'))
    BY <2>2, <2>3
  <2>5. QED
    BY <2>2, <2>3, <2>4 DEF HistoryTypes
<1>3. ASSUME NEW n \in Sizes, K!handlePrompt(n) PROVE HistoryTypes'
  <2>1. K!Message(n, FALSE) \in Entry
    BY MessageType
  <2>2. /\ entries' = Append(entries, K!Message(n, FALSE))
        /\ messages' = Append(K!buildContext(entries'), Len(entries'))
        /\ steered' = <<>> /\ pending' = pending
    BY <1>3 DEF K!handlePrompt
  <2>3. entries' \in Seq(Entry) /\ Len(entries') \in 0 .. Len(entries')
    BY <2>1, <2>2, LogGrows
  <2>4. K!buildContext(entries') \in Seq(0 .. Len(entries'))
    BY <2>3, ContextType
  <2>5. messages' \in Seq(0 .. Len(entries'))
    <3>1. \A P : \A a \in Seq(P), x \in P : Append(a, x) \in Seq(P)
      OBVIOUS
    <3>2. QED
      BY <2>2, <2>3, <2>4, <3>1
  <2>6. steered' \in Seq(1 .. Len(entries'))
    BY <2>2
  <2>7. QED
    BY <2>2, <2>3, <2>5, <2>6 DEF HistoryTypes
<1>4. ASSUME K!pollSteering PROVE HistoryTypes'
  <2>1. /\ messages' = messages \o steered /\ steered' = <<>>
        /\ entries' = entries /\ pending' = pending
    BY <1>4 DEF K!pollSteering
  <2>2. /\ messages \in Seq(0 .. Len(entries)) /\ steered \in Seq(0 .. Len(entries))
        /\ <<>> \in Seq(1 .. Len(entries))
    BY DEF HistoryTypes
  <2>3. messages' \in Seq(0 .. Len(entries))
    BY <2>1, <2>2
  <2>4. QED
    BY <2>1, <2>2, <2>3 DEF HistoryTypes
<1>5. ASSUME K!beforeInference PROVE HistoryTypes'
  <2>1. entries' = entries /\ messages' = messages /\ steered' = steered
    BY <1>5 DEF K!beforeInference
  <2>2. pending' = pending \/ pending'.of = K!EntryIds
    BY <1>5 DEF K!beforeInference
  <2>3. K!EntryIds \in Seq(Nat)
    <3>1. K!EntryIds \in Seq(1 .. Len(entries))
      BY PlacesPicked, PlacesOnly DEF K!EntryIds, HistoryTypes
    <3>2. QED
      BY <3>1
  <2>4. QED
    BY <2>1, <2>2, <2>3 DEF HistoryTypes
<1>6. ASSUME K!compactSession PROVE HistoryTypes'
  <2> DEFINE k == IF pending.cut \in DOMAIN pending.of THEN pending.of[pending.cut] ELSE 0
  <2>1. k \in Nat
    BY DEF HistoryTypes
  <2>2. /\ entries' = Append(entries, K!CompactionEntry(k))
        /\ messages' = messages /\ steered' = steered /\ pending' = K!NoCut
    BY <1>6 DEF K!compactSession
  <2> HIDE DEF k
  <2>3. K!CompactionEntry(k) \in Entry
    BY <2>1 DEF K!CompactionEntry, Entry
  <2>4. /\ entries' \in Seq(Entry)
        /\ messages \in Seq(0 .. Len(entries')) /\ steered \in Seq(1 .. Len(entries'))
    BY <2>2, <2>3, LogGrows
  <2>5. K!NoCut.of \in Seq(Nat)
    BY DEF K!NoCut
  <2>6. QED
    BY <2>2, <2>4, <2>5 DEF HistoryTypes
<1>7. ASSUME K!summarizeFails PROVE HistoryTypes'
  <2>1. entries' = entries /\ messages' = messages /\ steered' = steered /\ pending' = K!NoCut
    BY <1>7 DEF K!summarizeFails
  <2>2. K!NoCut.of \in Seq(Nat)
    BY DEF K!NoCut
  <2>3. QED
    BY <2>1, <2>2 DEF HistoryTypes
<1>8. ASSUME UNCHANGED K!vars PROVE HistoryTypes'
  BY <1>8 DEF K!vars, HistoryTypes
<1>9. QED
  BY <1>1, <1>2, <1>3, <1>4, <1>5, <1>6, <1>7, <1>8 DEF K!Next

\* Every message has a size.
LEMMA MessagesHaveSizes ==
  ASSUME K!CompactionConstants, HistoryTypes
  PROVE  messages \in Seq(0 .. Len(entries)) /\ SizesKnown(messages)
<1>1. messages \in Seq(0 .. Len(entries)) /\ entries \in Seq(Entry) /\ SummarySize \in Nat
  BY DEF HistoryTypes, K!CompactionConstants
<1>2. ASSUME NEW k \in 1 .. Len(messages) PROVE K!Size(messages[k]) \in Nat
  <2>1. messages[k] \in 0 .. Len(entries)
    BY <1>1
  <2>2. CASE messages[k] = 0
    BY <1>1, <2>2 DEF K!Size, K!Summary
  <2>3. CASE messages[k] # 0
    <3>1. messages[k] \in 1 .. Len(entries)
      BY <1>1, <2>1, <2>3
    <3>2. entries[messages[k]] \in Entry
      BY <1>1, <3>1
    <3>3. QED
      BY <2>3, <3>2 DEF K!Size, K!Summary, Entry
  <2>4. QED
    BY <2>2, <2>3
<1>3. QED
  BY <1>1, <1>2 DEF SizesKnown

\* A compaction covers the history it is given: its chunks are the messages, in
\* order and none empty, and no more than planned; the cut keeps keepRecentTokens and
\* no message more; pruning stays in its budget and touches only tool results.
THEOREM HistoryIsCovered == ASSUME K!CompactionConstants PROVE K!Spec => []HistoryCovered
<1>1. K!Init => HistoryTypes
  BY DEF K!Init, HistoryTypes, K!NoCut
<1>2. HistoryTypes /\ [K!Next]_(K!vars) => HistoryTypes'
  BY HistoryStep
<1>3. HistoryTypes => HistoryCovered
  <2>1. SUFFICES ASSUME HistoryTypes PROVE HistoryCovered
    OBVIOUS
  <2>2. messages \in Seq(0 .. Len(entries)) /\ SizesKnown(messages)
    BY <2>1, MessagesHaveSizes
  <2>3. K!CutIsTight
    BY <2>2, CutsAreTight
  <2>4. K!PruneInBudget
    BY <2>2, PruneStaysInBudget
  <2>5. K!ChunksCover
    <3> DEFINE s == K!SizesOf(messages)
               n == K!NumChunks(K!Total(s))
    <3>1. SUFFICES ASSUME messages # <<>>
                   PROVE  /\ K!FlattenSeq(K!splitByTokenShare(s, n)) = s
                          /\ Len(K!splitByTokenShare(s, n)) <= n
                          /\ \A i \in DOMAIN K!splitByTokenShare(s, n) :
                               K!splitByTokenShare(s, n)[i] # <<>>
      BY DEF K!ChunksCover
    <3>2. s \in Seq(Nat) /\ Len(s) = Len(messages)
      BY <2>2, SizesAre
    <3>3. s # <<>>
      BY <2>2, <3>1, <3>2
    <3>4. K!Total(s) \in Nat
      <4>1. K!Totals(s) \in [1 .. Len(s) + 1 -> Nat] /\ 1 \in 1 .. Len(s) + 1
        BY <3>2, TotalsAre
      <4>2. QED
        BY <4>1 DEF K!Total, K!TotalFrom
    <3> HIDE DEF s
    <3>5. n \in Nat \ {0}
      BY <3>4, ChunksPlanned
    <3> HIDE DEF n
    <3>6. QED
      BY <3>2, <3>3, <3>5, SplitCovers
  <2>6. QED
    BY <2>3, <2>4, <2>5 DEF HistoryCovered
<1>4. QED
  BY <1>1, <1>2, <1>3, PTL DEF K!Spec

-----------------------------------------------------------------------------
(***************************************************************************)
(* ModelRequest: which calls of the last answer are open after each        *)
(* message, when results come in the order of the calls.  This is kept     *)
(* track of for the messages of a run, for what is left of them, and for   *)
(* what is sent.                                                           *)
(***************************************************************************)
Answers(m) == m.role \in {"toolResult", "tool"}
Named(m) == IF m.role = "tool" THEN m.ids[1] ELSE m.id
CutShort(m) == "stop" \in DOMAIN m /\ m.stop \in {"error", "aborted"}
Calls(m) == IF m.role = "assistant" /\ ~ CutShort(m) THEN m.ids ELSE <<>>

\* From r open calls to r2.
Onward(r, m, r2) ==
  IF Answers(m) THEN r # <<>> /\ Head(r) = Named(m) /\ r2 = Tail(r)
  ELSE r2 = Calls(m)

Trace(o, ms) ==
  /\ o \in [0 .. Len(ms) -> Seq(Nat)] /\ o[0] = <<>>
  /\ \A k \in 1 .. Len(ms) : Onward(o[k - 1], ms[k], o[k])

\* Whatever is no result comes when no call is open.
InTurn(o, ms) == \A k \in 1 .. Len(ms) : ~ Answers(ms[k]) => o[k - 1] = <<>>

OpenAt(ms, r) == \E o : Trace(o, ms) /\ o[Len(ms)] = r
WholeAt(ms, r) == \E o : Trace(o, ms) /\ InTurn(o, ms) /\ o[Len(ms)] = r

LEMMA OpenEmpty == OpenAt(<<>>, <<>>) /\ WholeAt(<<>>, <<>>)
<1> DEFINE o == [k \in 0 .. 0 |-> <<>>]
<1>1. Len(<<>>) = 0
  OBVIOUS
<1>2. o \in [0 .. 0 -> Seq(Nat)] /\ o[0] = <<>>
  OBVIOUS
<1> HIDE DEF o
<1>3. Trace(o, <<>>) /\ InTurn(o, <<>>)
  BY <1>1, <1>2 DEF Trace, InTurn
<1>4. QED
  BY <1>1, <1>2, <1>3 DEF OpenAt, WholeAt

LEMMA TraceOn ==
  ASSUME NEW V, NEW ms \in Seq(V), NEW m \in V, NEW o, Trace(o, ms),
         NEW r \in Seq(Nat), Onward(o[Len(ms)], m, r)
  PROVE  \E q : /\ Trace(q, Append(ms, m)) /\ q[Len(ms) + 1] = r
                /\ \A k \in 0 .. Len(ms) : q[k] = o[k]
<1> DEFINE n == Len(ms)
           t == Append(ms, m)
           q == [k \in 0 .. n + 1 |-> IF k = n + 1 THEN r ELSE o[k]]
<1>1. /\ n \in Nat /\ t \in Seq(V) /\ Len(t) = n + 1 /\ t[n + 1] = m
      /\ \A k \in 1 .. n : t[k] = ms[k]
  BY AppendProperties, LenProperties
<1>2. /\ o \in [0 .. n -> Seq(Nat)] /\ o[0] = <<>>
      /\ \A k \in 1 .. n : Onward(o[k - 1], ms[k], o[k])
  BY DEF Trace
<1>3. q[n + 1] = r /\ \A k \in 0 .. n : q[k] = o[k]
  BY <1>1
<1>4. q \in [0 .. n + 1 -> Seq(Nat)]
  BY <1>1, <1>2
<1>5. Onward(o[n], m, r)
  OBVIOUS
<1> HIDE DEF q, t, n
<1>6. ASSUME NEW k \in 1 .. n + 1 PROVE Onward(q[k - 1], t[k], q[k])
  <2>1. CASE k = n + 1
    <3>1. q[k - 1] = o[n] /\ t[k] = m /\ q[k] = r
      BY <1>1, <1>3, <2>1
    <3>2. QED
      BY <1>5, <3>1
  <2>2. CASE k # n + 1
    <3>1. k \in 1 .. n /\ k - 1 \in 0 .. n /\ k \in 0 .. n
      BY <1>1, <2>2
    <3>2. QED
      BY <1>1, <1>2, <1>3, <3>1
  <2>3. QED
    BY <2>1, <2>2
<1>7. q[0] = <<>>
  BY <1>1, <1>2, <1>3
<1>8. Trace(q, t)
  BY <1>1, <1>4, <1>6, <1>7 DEF Trace
<1>9. QED
  BY <1>3, <1>8 DEF t, n

LEMMA OpenOn ==
  ASSUME NEW V, NEW ms \in Seq(V), NEW m \in V, NEW r, OpenAt(ms, r),
         NEW r2 \in Seq(Nat), Onward(r, m, r2)
  PROVE  OpenAt(Append(ms, m), r2)
<1>1. PICK o : Trace(o, ms) /\ o[Len(ms)] = r
  BY DEF OpenAt
<1>2. PICK q : Trace(q, Append(ms, m)) /\ q[Len(ms) + 1] = r2
  BY <1>1, TraceOn
<1>3. Len(Append(ms, m)) = Len(ms) + 1
  OBVIOUS
<1>4. QED
  BY <1>2, <1>3 DEF OpenAt

LEMMA WholeOn ==
  ASSUME NEW V, NEW ms \in Seq(V), NEW m \in V, NEW r, WholeAt(ms, r),
         NEW r2 \in Seq(Nat), Onward(r, m, r2), ~ Answers(m) => r = <<>>
  PROVE  WholeAt(Append(ms, m), r2)
<1>1. PICK o : Trace(o, ms) /\ InTurn(o, ms) /\ o[Len(ms)] = r
  BY DEF WholeAt
<1>2. PICK q : /\ Trace(q, Append(ms, m)) /\ q[Len(ms) + 1] = r2
               /\ \A k \in 0 .. Len(ms) : q[k] = o[k]
  BY <1>1, TraceOn
<1> DEFINE t == Append(ms, m)
           n == Len(ms)
<1>3. /\ n \in Nat /\ Len(t) = n + 1 /\ t[n + 1] = m
      /\ \A k \in 1 .. n : t[k] = ms[k]
  BY AppendProperties, LenProperties
<1>4. ASSUME NEW k \in 1 .. n + 1, ~ Answers(t[k]) PROVE q[k - 1] = <<>>
  <2> HIDE DEF t, n
  <2>1. CASE k = n + 1
    <3>1. t[k] = m /\ q[k - 1] = o[n]
      BY <1>2, <1>3, <2>1 DEF n
    <3>2. QED
      BY <1>1, <1>4, <3>1 DEF n
  <2>2. CASE k # n + 1
    <3>1. k \in 1 .. n /\ k - 1 \in 0 .. n
      BY <1>3, <2>2
    <3>2. t[k] = ms[k] /\ q[k - 1] = o[k - 1]
      BY <1>2, <1>3, <3>1 DEF n
    <3>3. QED
      BY <1>1, <1>4, <3>1, <3>2 DEF InTurn, n
  <2>3. QED
    BY <2>1, <2>2
<1>5. InTurn(q, t)
  BY <1>3, <1>4 DEF InTurn
<1>6. QED
  BY <1>2, <1>3, <1>5 DEF WholeAt

\* Backwards, by one message.
LEMMA OpenBefore ==
  ASSUME NEW V, NEW ms \in Seq(V), NEW m \in V, NEW r2, OpenAt(Append(ms, m), r2)
  PROVE  \E r \in Seq(Nat) : OpenAt(ms, r) /\ Onward(r, m, r2)
<1> DEFINE t == Append(ms, m)
           n == Len(ms)
<1>1. /\ n \in Nat /\ Len(t) = n + 1 /\ t[n + 1] = m
      /\ \A k \in 1 .. n : t[k] = ms[k]
  BY AppendProperties, LenProperties
<1>2. PICK q : Trace(q, t) /\ q[n + 1] = r2
  BY <1>1 DEF OpenAt
<1> DEFINE o == [k \in 0 .. n |-> q[k]]
<1>3. /\ q \in [0 .. n + 1 -> Seq(Nat)] /\ q[0] = <<>>
      /\ \A k \in 1 .. n + 1 : Onward(q[k - 1], t[k], q[k])
  BY <1>1, <1>2 DEF Trace
<1> HIDE DEF t
<1>4. /\ o \in [0 .. n -> Seq(Nat)] /\ o[0] = <<>> /\ o[n] = q[n]
      /\ \A k \in 0 .. n : o[k] = q[k]
  BY <1>1, <1>3
<1> HIDE DEF o, n
<1>5. ASSUME NEW k \in 1 .. n PROVE Onward(o[k - 1], ms[k], o[k])
  <2>1. k \in 1 .. n + 1 /\ k - 1 \in 0 .. n /\ k \in 0 .. n
    BY <1>1
  <2>2. QED
    BY <1>1, <1>3, <1>4, <2>1
<1>6. Trace(o, ms)
  BY <1>4, <1>5 DEF Trace, n
<1>7. OpenAt(ms, q[n])
  BY <1>4, <1>6 DEF OpenAt, n
<1>8. Onward(q[n], m, r2) /\ q[n] \in Seq(Nat)
  <2>1. n + 1 \in 1 .. n + 1 /\ (n + 1) - 1 = n /\ n \in 0 .. n + 1
    BY <1>1
  <2>2. QED
    BY <1>1, <1>2, <1>3, <2>1
<1>9. QED
  BY <1>7, <1>8

LEMMA WholeBefore ==
  ASSUME NEW V, NEW ms \in Seq(V), NEW m \in V, NEW r2, WholeAt(Append(ms, m), r2)
  PROVE  \E r \in Seq(Nat) : /\ WholeAt(ms, r) /\ Onward(r, m, r2)
                             /\ ~ Answers(m) => r = <<>>
<1> DEFINE t == Append(ms, m)
           n == Len(ms)
<1>1. /\ n \in Nat /\ Len(t) = n + 1 /\ t[n + 1] = m
      /\ \A k \in 1 .. n : t[k] = ms[k]
  BY AppendProperties, LenProperties
<1>2. PICK q : Trace(q, t) /\ InTurn(q, t) /\ q[n + 1] = r2
  BY <1>1 DEF WholeAt
<1> DEFINE o == [k \in 0 .. n |-> q[k]]
<1>3. /\ q \in [0 .. n + 1 -> Seq(Nat)] /\ q[0] = <<>>
      /\ \A k \in 1 .. n + 1 : Onward(q[k - 1], t[k], q[k])
      /\ \A k \in 1 .. n + 1 : ~ Answers(t[k]) => q[k - 1] = <<>>
  BY <1>1, <1>2 DEF Trace, InTurn
<1> HIDE DEF t
<1>4. /\ o \in [0 .. n -> Seq(Nat)] /\ o[0] = <<>> /\ o[n] = q[n]
      /\ \A k \in 0 .. n : o[k] = q[k]
  BY <1>1, <1>3
<1> HIDE DEF o, n
<1>5. ASSUME NEW k \in 1 .. n
      PROVE  Onward(o[k - 1], ms[k], o[k]) /\ (~ Answers(ms[k]) => o[k - 1] = <<>>)
  <2>1. k \in 1 .. n + 1 /\ k - 1 \in 0 .. n /\ k \in 0 .. n
    BY <1>1
  <2>2. QED
    BY <1>1, <1>3, <1>4, <2>1
<1>6. Trace(o, ms) /\ InTurn(o, ms)
  BY <1>4, <1>5 DEF Trace, InTurn, n
<1>7. WholeAt(ms, q[n])
  BY <1>4, <1>6 DEF WholeAt, n
<1>8. n + 1 \in 1 .. n + 1 /\ (n + 1) - 1 = n /\ n \in 0 .. n + 1
  BY <1>1
<1>9. Onward(q[n], m, r2) /\ q[n] \in Seq(Nat) /\ (~ Answers(m) => q[n] = <<>>)
  BY <1>1, <1>2, <1>3, <1>8
<1>10. QED
  BY <1>7, <1>9

LEMMA OpenType == ASSUME NEW V, NEW ms \in Seq(V), NEW r, OpenAt(ms, r) PROVE r \in Seq(Nat)
<1>1. Len(ms) \in Nat
  OBVIOUS
<1>2. QED
  BY <1>1 DEF OpenAt, Trace

LEMMA WholeType == ASSUME NEW V, NEW ms \in Seq(V), NEW r, WholeAt(ms, r) PROVE r \in Seq(Nat)
<1>1. Len(ms) \in Nat
  OBVIOUS
<1>2. QED
  BY <1>1 DEF WholeAt, Trace

-----------------------------------------------------------------------------
(***************************************************************************)
(* The messages of a run's context.                                        *)
(***************************************************************************)
Users == [role : {"user"}, body : {"text", "image"}, logged : BOOLEAN]
Said == [role : {"assistant"}, body : {"text", "thinking", "both", "empty"},
         ids : Seq(Nat), stop : {"stop", "error", "aborted", "unknown"},
         same : BOOLEAN, failed : BOOLEAN]
Returned == [role : {"toolResult"}, id : Nat, image : BOOLEAN, real : BOOLEAN]
InContext == Users \cup Said \cup Returned

LEMMA MessageFacts ==
  ASSUME NEW m \in InContext
  PROVE  /\ m.role \in {"user", "assistant", "toolResult"}
         /\ m.role = "user" => m \in Users
         /\ m.role = "assistant" => m \in Said
         /\ m.role = "toolResult" => m \in Returned
         /\ m.role = "assistant" => m.ids \in Seq(Nat)
         /\ m.role = "assistant" => (CutShort(m) <=> m.stop \in {"error", "aborted"})
         /\ m.role = "toolResult" => m.id \in Nat
         /\ Answers(m) <=> m.role = "toolResult"
         /\ Answers(m) => Named(m) = m.id
         /\ Calls(m) \in Seq(Nat)
         /\ m.role # "assistant" => Calls(m) = <<>>
<1>1. CASE m \in Users
  <2>1. m.role = "user"
    BY <1>1 DEF Users
  <2>2. <<>> \in Seq(Nat)
    OBVIOUS
  <2>3. QED
    BY <1>1, <2>1, <2>2 DEF Answers, Calls
<1>2. CASE m \in Said
  <2>1. /\ m.role = "assistant" /\ m.ids \in Seq(Nat) /\ "stop" \in DOMAIN m
    BY <1>2 DEF Said
  <2>2. <<>> \in Seq(Nat)
    OBVIOUS
  <2>3. QED
    BY <1>2, <2>1, <2>2 DEF Answers, Calls, CutShort
<1>3. CASE m \in Returned
  <2>1. m.role = "toolResult" /\ m.id \in Nat
    BY <1>3 DEF Returned
  <2>2. <<>> \in Seq(Nat)
    OBVIOUS
  <2>3. QED
    BY <1>3, <2>1, <2>2 DEF Answers, Calls, Named
<1>4. QED
  BY <1>1, <1>2, <1>3 DEF InContext

-----------------------------------------------------------------------------
(***************************************************************************)
(* What the log keeps of them.                                             *)
(***************************************************************************)
Logged == {m \in InContext : m.role = "user" => m.logged}
Forgotten(m) ==
  IF m.role = "assistant" THEN [m EXCEPT !.stop = "unknown", !.same = FALSE] ELSE m

LEMMA RequestOnly == \A s, T : D!Only(s, T) = Only(s, T)
BY DEF D!Only, Only

LEMMA ForgottenIs ==
  ASSUME NEW m \in InContext
  PROVE  /\ Forgotten(m) \in InContext
         /\ Forgotten(m).role = m.role
         /\ m.role # "assistant" => Forgotten(m) = m
         /\ m.role = "assistant" => /\ Forgotten(m).ids = m.ids
                                    /\ Forgotten(m).stop = "unknown"
                                    /\ Forgotten(m).same = FALSE
                                    /\ Calls(Forgotten(m)) = m.ids
<1>1. CASE m.role # "assistant"
  BY <1>1 DEF Forgotten
<1>2. CASE m.role = "assistant"
  <2>1. m \in Said
    BY <1>2, MessageFacts
  <2> DEFINE f == [m EXCEPT !.stop = "unknown", !.same = FALSE]
  <2>2. f \in Said /\ f.role = "assistant" /\ f.ids = m.ids /\ f.stop = "unknown" /\ f.same = FALSE
    BY <2>1 DEF Said
  <2>3. Forgotten(m) = f
    BY <1>2 DEF Forgotten
  <2> HIDE DEF f
  <2>4. Calls(f) = m.ids
    <3>1. ~ CutShort(f)
      BY <2>2 DEF CutShort
    <3>2. QED
      BY <2>2, <3>1 DEF Calls
  <2>5. QED
    BY <1>2, <2>2, <2>3, <2>4 DEF InContext
<1>3. QED
  BY <1>1, <1>2

LEMMA KeptIs ==
  ASSUME NEW ms \in Seq(InContext)
  PROVE  D!Kept(ms) = Only(ms, Logged) /\ D!Kept(ms) \in Seq(InContext)
<1> DEFINE T == {m \in D!ToSet(ms) : m.role = "user" => m.logged}
<1>1. D!Kept(ms) = Only(ms, T)
  BY RequestOnly DEF D!Kept
<1>2. ASSUME NEW i \in 1 .. Len(ms) PROVE ms[i] \in T <=> ms[i] \in Logged
  <2>1. ms[i] \in InContext /\ ms[i] \in D!ToSet(ms)
    BY DEF D!ToSet
  <2>2. QED
    BY <2>1 DEF Logged
<1> HIDE DEF T
<1>3. Only(ms, T) = Only(ms, Logged)
  BY <1>2, OnlyAlike
<1>4. QED
  BY <1>1, <1>3, OnlyType

\* A list of which each member is changed, one member longer.
LEMMA ChangedOn ==
  ASSUME NEW V, NEW s \in Seq(V), NEW x \in V, NEW f \in [V -> V]
  PROVE  /\ [i \in DOMAIN s |-> f[s[i]]] \in Seq(V)
         /\ [i \in DOMAIN Append(s, x) |-> f[Append(s, x)[i]]]
            = Append([i \in DOMAIN s |-> f[s[i]]], f[x])
OBVIOUS

LEMMA RebuiltOn ==
  ASSUME NEW ms \in Seq(InContext), NEW m \in InContext
  PROVE  /\ D!buildContext(<<>>) = <<>>
         /\ D!buildContext(ms) \in Seq(InContext)
         /\ D!buildContext(Append(ms, m)) =
              IF m \in Logged THEN Append(D!buildContext(ms), Forgotten(m))
              ELSE D!buildContext(ms)
<1> DEFINE F == [n \in InContext |-> Forgotten(n)]
           Each(s) == [i \in DOMAIN s |-> F[s[i]]]
<1>1. F \in [InContext -> InContext]
  BY ForgottenIs
<1>2. ASSUME NEW l \in Seq(InContext) PROVE D!buildContext(l) = Each(Only(l, Logged))
  <2>1. D!Kept(l) = Only(l, Logged) /\ D!Kept(l) \in Seq(InContext)
    BY KeptIs
  <2> DEFINE ks == D!Kept(l)
  <2>2. ASSUME NEW i \in DOMAIN ks
        PROVE  (IF ks[i].role = "assistant" THEN [ks[i] EXCEPT !.stop = "unknown", !.same = FALSE]
                ELSE ks[i]) = F[ks[i]]
    <3>1. ks[i] \in InContext
      BY <2>1
    <3>2. QED
      BY <3>1 DEF Forgotten
  <2>3. D!buildContext(l) = Each(ks)
    BY <2>2, Zenon DEF D!buildContext
  <2>4. QED
    BY <2>1, <2>3
<1> HIDE DEF F
<1>3. Only(ms, Logged) \in Seq(InContext) /\ Append(ms, m) \in Seq(InContext)
  BY OnlyType
<1>4. /\ Each(Only(ms, Logged)) \in Seq(InContext)
      /\ Each(Append(Only(ms, Logged), m)) = Append(Each(Only(ms, Logged)), F[m])
  <2>1. ASSUME NEW s \in Seq(InContext)
        PROVE  Each(s) \in Seq(InContext) /\ Each(Append(s, m)) = Append(Each(s), F[m])
    <3>1. /\ [i \in DOMAIN s |-> F[s[i]]] \in Seq(InContext)
          /\ [i \in DOMAIN Append(s, m) |-> F[Append(s, m)[i]]]
             = Append([i \in DOMAIN s |-> F[s[i]]], F[m])
      BY <1>1, ChangedOn
    <3>2. QED
      BY <3>1
  <2> HIDE DEF Each
  <2>2. QED
    BY <1>3, <2>1
<1>5. Only(Append(ms, m), Logged)
        = IF m \in Logged THEN Append(Only(ms, Logged), m) ELSE Only(ms, Logged)
  BY OnlyAppend
<1>6. <<>> \in Seq(InContext) /\ Only(<<>>, Logged) = <<>> /\ Each(<<>>) = <<>>
  BY OnlyEmpty
<1>7. F[m] = Forgotten(m)
  BY DEF F
<1> HIDE DEF Each
<1>8. QED
  BY <1>2, <1>3, <1>4, <1>5, <1>6, <1>7

\* In the log as in the context, results come in the order of their calls.
LEMMA RebuiltIsOpen ==
  ASSUME NEW ms \in Seq(InContext), NEW r, OpenAt(ms, r)
  PROVE  \E q \in Seq(Nat) : OpenAt(D!buildContext(ms), q) /\ (r # <<>> => q = r)
<1> DEFINE Good(l) == \A p : OpenAt(l, p) =>
                        \E q \in Seq(Nat) : /\ OpenAt(D!buildContext(l), q)
                                            /\ p # <<>> => q = p
           Z == {l \in Seq(InContext) : Good(l)}
<1>1. <<>> \in Z
  <2>1. <<>> \in Seq(InContext) /\ <<>> \in Seq(Nat)
    OBVIOUS
  <2>2. D!buildContext(<<>>) = <<>> /\ OpenAt(<<>>, <<>>)
    <3>1. PICK m : m \in Users
      <4>1. [role |-> "user", body |-> "text", logged |-> TRUE] \in Users
        BY DEF Users
      <4>2. QED
        BY <4>1
    <3>2. QED
      BY <2>1, <3>1, RebuiltOn, OpenEmpty DEF InContext
  <2>3. ASSUME NEW p, OpenAt(<<>>, p) PROVE p = <<>>
    BY <2>3 DEF OpenAt, Trace
  <2>4. QED
    BY <2>1, <2>2, <2>3
<1>2. ASSUME NEW l \in Seq(InContext), NEW m \in InContext, l \in Z PROVE Append(l, m) \in Z
  <2>1. SUFFICES ASSUME NEW p2, OpenAt(Append(l, m), p2)
                 PROVE  \E q \in Seq(Nat) : /\ OpenAt(D!buildContext(Append(l, m)), q)
                                            /\ p2 # <<>> => q = p2
    OBVIOUS
  <2>2. PICK p \in Seq(Nat) : OpenAt(l, p) /\ Onward(p, m, p2)
    BY <2>1, OpenBefore
  <2>3. PICK q \in Seq(Nat) : OpenAt(D!buildContext(l), q) /\ (p # <<>> => q = p)
    BY <1>2, <2>2
  <2>4. /\ D!buildContext(l) \in Seq(InContext)
        /\ D!buildContext(Append(l, m)) =
             IF m \in Logged THEN Append(D!buildContext(l), Forgotten(m)) ELSE D!buildContext(l)
    BY RebuiltOn
  <2>5. Forgotten(m) \in InContext
    BY ForgottenIs
  <2>6. CASE m.role = "toolResult"
    <3>1. p # <<>> /\ p2 = Tail(p) /\ Forgotten(m) = m /\ m \in Logged
      BY <2>2, <2>6, ForgottenIs, MessageFacts DEF Onward, Logged
    <3>2. Onward(q, m, p2) /\ p2 \in Seq(Nat)
      BY <2>2, <2>3, <3>1
    <3>3. OpenAt(Append(D!buildContext(l), m), p2)
      BY <2>3, <2>4, <3>2, OpenOn
    <3>4. QED
      BY <2>4, <3>1, <3>2, <3>3
  <2>7. CASE m.role = "user"
    <3>1. /\ p2 = <<>> /\ Forgotten(m) = m /\ ~ Answers(m) /\ Calls(m) = <<>>
          /\ <<>> \in Seq(Nat)
      <4>1. Forgotten(m) = m
        BY <2>7, ForgottenIs
      <4>2. ~ Answers(m) /\ Calls(m) = <<>>
        BY <2>7, MessageFacts
      <4>3. p2 = <<>>
        BY <2>2, <4>2 DEF Onward
      <4>4. QED
        BY <4>1, <4>2, <4>3
    <3>2. OpenAt(Append(D!buildContext(l), m), <<>>)
      BY <2>3, <2>4, <3>1, OpenOn DEF Onward
    <3>3. QED
      BY <2>3, <2>4, <3>1, <3>2
  <2>8. CASE m.role = "assistant"
    <3>1. /\ m.ids \in Seq(Nat) /\ m \in Logged /\ p2 \in {<<>>, m.ids}
          /\ ~ Answers(Forgotten(m)) /\ Calls(Forgotten(m)) = m.ids
      <4>1. m.ids \in Seq(Nat) /\ m \in Logged /\ ~ Answers(m)
        BY <2>8, MessageFacts DEF Logged
      <4>2. p2 = Calls(m)
        BY <2>2, <4>1 DEF Onward
      <4>3. Calls(m) \in {<<>>, m.ids}
        BY DEF Calls
      <4>4. Forgotten(m).role = "assistant" /\ Calls(Forgotten(m)) = m.ids
        BY <2>8, ForgottenIs
      <4>5. QED
        BY <4>1, <4>2, <4>3, <4>4 DEF Answers
    <3>2. OpenAt(Append(D!buildContext(l), Forgotten(m)), m.ids)
      BY <2>3, <2>4, <2>5, <3>1, OpenOn DEF Onward
    <3>3. QED
      BY <2>4, <3>1, <3>2
  <2>9. QED
    BY <2>6, <2>7, <2>8, MessageFacts
<1> HIDE DEF Z
<1>3. ms \in Z
  BY <1>1, <1>2, ListInduct
<1>4. QED
  BY <1>3 DEF Z

\* What is rebuilt is made of messages that were there, without what the log
\* does not keep.
LEMMA RebuiltFrom ==
  ASSUME NEW ms \in Seq(InContext)
  PROVE  \A i \in 1 .. Len(D!buildContext(ms)) :
           \E j \in 1 .. Len(ms) : D!buildContext(ms)[i] = Forgotten(ms[j])
<1> DEFINE ks == Only(ms, Logged)
<1>1. /\ ks \in Seq(InContext)
      /\ \A i \in DOMAIN ks : \E j \in DOMAIN ms : ms[j] = ks[i]
  BY OnlyType
<1>2. D!buildContext(ms) = [i \in DOMAIN ks |-> Forgotten(ks[i])]
  BY KeptIs DEF D!buildContext, Forgotten
<1> HIDE DEF ks
<1>3. DOMAIN ks = 1 .. Len(ks) /\ DOMAIN ms = 1 .. Len(ms) /\ Len(D!buildContext(ms)) = Len(ks)
  BY <1>1, <1>2
<1>4. QED
  BY <1>1, <1>2, <1>3

-----------------------------------------------------------------------------
(***************************************************************************)
(* The open calls of a context.                                            *)
(***************************************************************************)
Speakers(ms) == {i \in DOMAIN ms : ms[i].role = "assistant"}
Latest(ms) == CHOOSE x \in Speakers(ms) : \A y \in Speakers(ms) : y <= x
Returns(ms) == {ms[j].id : j \in {j \in DOMAIN ms : ms[j].role = "toolResult"}}
OpenIn(ms) ==
  IF Speakers(ms) = {} \/ ms[Latest(ms)].stop # "stop" THEN <<>>
  ELSE Only(ms[Latest(ms)].ids, Elements(ms[Latest(ms)].ids) \ Returns(ms))

OpenWith(ms) ==
  IF Speakers(ms) = {} \/ ms[Latest(ms)].stop # "stop" THEN <<>>
  ELSE D!Only(ms[Latest(ms)].ids, D!ToSet(ms[Latest(ms)].ids) \ Returns(ms))

LEMMA OpenIs == D!Open = OpenIn(context) /\ D!Open' = OpenIn(context')
<1>1. \A s : D!ToSet(s) = Elements(s)
  BY DEF D!ToSet, Elements
<1>2. ASSUME NEW ms PROVE OpenWith(ms) = OpenIn(ms)
  BY <1>1, RequestOnly DEF OpenWith, OpenIn
<1>3. D!Open = OpenWith(context)
  BY DEF D!Open, OpenWith, Speakers, Latest, Returns
<1>4. D!Open' = OpenWith(context')
  BY DEF D!Open, OpenWith, Speakers, Latest, Returns
<1>5. QED
  BY <1>2, <1>3, <1>4

LEMMA LatestIs ==
  ASSUME NEW ms \in Seq(InContext), Speakers(ms) # {}
  PROVE  Latest(ms) \in Speakers(ms) /\ \A y \in Speakers(ms) : y <= Latest(ms)
<1> DEFINE T == {l \in Seq(InContext) :
                   Speakers(l) # {} => \E x \in Speakers(l) : \A y \in Speakers(l) : y <= x}
<1>1. <<>> \in T
  BY DEF Speakers
<1>2. ASSUME NEW l \in Seq(InContext), NEW m \in InContext, l \in T PROVE Append(l, m) \in T
  <2> DEFINE a == Append(l, m)
  <2>1. /\ a \in Seq(InContext) /\ Len(l) \in Nat /\ DOMAIN a = 1 .. Len(l) + 1
        /\ a[Len(l) + 1] = m /\ DOMAIN l = 1 .. Len(l)
        /\ \A i \in 1 .. Len(l) : a[i] = l[i]
    OBVIOUS
  <2> HIDE DEF a
  <2>2. CASE m.role = "assistant"
    <3>1. Len(l) + 1 \in Speakers(a) /\ \A y \in Speakers(a) : y <= Len(l) + 1
      BY <2>1, <2>2 DEF Speakers
    <3>2. QED
      BY <2>1, <3>1 DEF a
  <2>3. CASE m.role # "assistant"
    <3>1. Speakers(a) = Speakers(l)
      BY <2>1, <2>3 DEF Speakers
    <3>2. QED
      BY <1>2, <2>1, <3>1 DEF a
  <2>4. QED
    BY <2>2, <2>3
<1> HIDE DEF T
<1>3. ms \in T
  BY <1>1, <1>2, ListInduct
<1>4. PICK x \in Speakers(ms) : \A y \in Speakers(ms) : y <= x
  BY <1>3 DEF T
<1>5. QED
  BY <1>4 DEF Latest

LEMMA OpenAfter ==
  ASSUME NEW ms \in Seq(InContext), NEW m \in InContext
  PROVE  /\ m.role = "user" => OpenIn(Append(ms, m)) = OpenIn(ms)
         /\ m.role = "assistant" =>
              OpenIn(Append(ms, m)) = IF m.stop # "stop" THEN <<>>
                                      ELSE Only(m.ids, Elements(m.ids) \ Returns(ms))
         /\ m.role = "toolResult" =>
              OpenIn(Append(ms, m))
                = IF Speakers(ms) = {} \/ ms[Latest(ms)].stop # "stop" THEN <<>>
                  ELSE Only(ms[Latest(ms)].ids,
                            Elements(ms[Latest(ms)].ids) \ (Returns(ms) \cup {m.id}))
<1> DEFINE a == Append(ms, m)
           n == Len(ms) + 1
<1>1. /\ a \in Seq(InContext) /\ Len(ms) \in Nat /\ DOMAIN a = 1 .. n
      /\ a[n] = m /\ DOMAIN ms = 1 .. Len(ms) /\ n \in 1 .. n
      /\ \A i \in 1 .. Len(ms) : a[i] = ms[i] /\ i \in 1 .. n
      /\ \A i \in 1 .. n : i \in 1 .. Len(ms) \/ i = n
  OBVIOUS
<1> HIDE DEF a, n
<1>2. m.role # "toolResult" => Returns(a) = Returns(ms)
  <2>1. ASSUME m.role # "toolResult"
        PROVE  {j \in DOMAIN a : a[j].role = "toolResult"}
                 = {j \in DOMAIN ms : ms[j].role = "toolResult"}
    BY <1>1, <2>1
  <2>2. \A j \in DOMAIN ms : a[j].id = ms[j].id
    BY <1>1
  <2>3. QED
    BY <2>1, <2>2 DEF Returns
<1>3. m.role = "toolResult" => Returns(a) = Returns(ms) \cup {m.id}
  BY <1>1 DEF Returns
<1>4. m.role # "assistant" =>
        Speakers(a) = Speakers(ms) /\ Latest(a) = Latest(ms)
  <2>1. m.role # "assistant" => Speakers(a) = Speakers(ms)
    BY <1>1 DEF Speakers
  <2>2. QED
    BY <2>1 DEF Latest
<1>5. m.role # "assistant" /\ Speakers(ms) # {} => a[Latest(a)] = ms[Latest(ms)]
  <2>1. SUFFICES ASSUME m.role # "assistant", Speakers(ms) # {}
                 PROVE  a[Latest(a)] = ms[Latest(ms)]
    OBVIOUS
  <2>2. Latest(ms) \in DOMAIN ms
    BY <2>1, LatestIs DEF Speakers
  <2>3. QED
    BY <1>1, <1>4, <2>1, <2>2
<1>6. ASSUME m.role = "user" PROVE OpenIn(a) = OpenIn(ms)
  BY <1>2, <1>4, <1>5, <1>6 DEF OpenIn
<1>7. ASSUME m.role = "assistant"
      PROVE  OpenIn(a) = IF m.stop # "stop" THEN <<>>
                         ELSE Only(m.ids, Elements(m.ids) \ Returns(ms))
  <2>1. n \in Speakers(a) /\ \A y \in Speakers(a) : y \in 1 .. n /\ y <= n
    BY <1>1, <1>7 DEF Speakers
  <2>2. Latest(a) \in Speakers(a) /\ n <= Latest(a)
    BY <1>1, <2>1, LatestIs
  <2>3. Latest(a) = n
    BY <1>1, <2>1, <2>2
  <2>4. QED
    BY <1>1, <1>2, <1>7, <2>1, <2>3 DEF OpenIn
<1>8. ASSUME m.role = "toolResult"
      PROVE  OpenIn(a)
                = IF Speakers(ms) = {} \/ ms[Latest(ms)].stop # "stop" THEN <<>>
                  ELSE Only(ms[Latest(ms)].ids,
                            Elements(ms[Latest(ms)].ids) \ (Returns(ms) \cup {m.id}))
  BY <1>3, <1>4, <1>5, <1>8 DEF OpenIn
<1>9. QED
  BY <1>6, <1>7, <1>8 DEF a

-----------------------------------------------------------------------------
(***************************************************************************)
(* The contexts of the runs: results come in the order of the calls of the *)
(* last answer, a message's calls are distinct, and two answers with the   *)
(* same call are of the same model.                                        *)
(***************************************************************************)
CallsKnown(ms, n) ==
  /\ \A i \in 1 .. Len(ms) : ms[i].role = "assistant" =>
       /\ Distinct(ms[i].ids)
       /\ \A c \in 1 .. Len(ms[i].ids) : ms[i].ids[c] <= n
  /\ \A i \in 1 .. Len(ms) : ms[i].role = "toolResult" => ms[i].id <= n

Apart(ms) ==
  \A i, j \in 1 .. Len(ms) : ms[i].role = "assistant" /\ ms[j].role = "assistant" =>
    \A c \in 1 .. Len(ms[i].ids), d \in 1 .. Len(ms[j].ids) :
      ms[i].ids[c] = ms[j].ids[d] => ms[i].same = ms[j].same

ContextTypes == context \in Seq(InContext) /\ calls \in Nat

RequestInv ==
  /\ ContextTypes
  /\ OpenAt(context, D!Open)
  /\ CallsKnown(context, calls)
  /\ Apart(context)

LEMMA RebuiltCalls ==
  ASSUME NEW ms \in Seq(InContext), NEW n, CallsKnown(ms, n)
  PROVE  CallsKnown(D!buildContext(ms), n) /\ Apart(D!buildContext(ms))
<1> DEFINE b == D!buildContext(ms)
<1>1. /\ \A i \in 1 .. Len(b) : \E j \in 1 .. Len(ms) : b[i] = Forgotten(ms[j])
      /\ \A j \in 1 .. Len(ms) : ms[j] \in InContext
  BY RebuiltFrom
<1> HIDE DEF b
<1>2. ASSUME NEW i \in 1 .. Len(b)
      PROVE  /\ b[i].role = "assistant" =>
                  /\ Distinct(b[i].ids) /\ \A c \in 1 .. Len(b[i].ids) : b[i].ids[c] <= n
                  /\ b[i].same = FALSE
             /\ b[i].role = "toolResult" => b[i].id <= n
  <2>1. PICK j \in 1 .. Len(ms) : b[i] = Forgotten(ms[j])
    BY <1>1
  <2>2. /\ b[i].role = ms[j].role
        /\ ms[j].role # "assistant" => b[i] = ms[j]
        /\ ms[j].role = "assistant" => b[i].ids = ms[j].ids /\ b[i].same = FALSE
    BY <1>1, <2>1, ForgottenIs
  <2>3. QED
    BY <2>2 DEF CallsKnown
<1>3. QED
  BY <1>2 DEF CallsKnown, Apart, b

LEMMA CallsOn ==
  ASSUME NEW ms \in Seq(InContext), NEW n \in Nat, CallsKnown(ms, n), Apart(ms),
         NEW m \in InContext, m.role = "user" \/ (m.role = "toolResult" /\ m.id <= n)
  PROVE  CallsKnown(Append(ms, m), n) /\ Apart(Append(ms, m))
<1> DEFINE a == Append(ms, m)
           k == Len(ms) + 1
<1>1. /\ Len(ms) \in Nat /\ Len(a) = k /\ a[k] = m
      /\ \A i \in 1 .. Len(ms) : a[i] = ms[i]
      /\ \A i \in 1 .. k : i \in 1 .. Len(ms) \/ i = k
  OBVIOUS
<1> HIDE DEF a, k
<1>2. m.role # "assistant"
  OBVIOUS
<1>3. \A i \in 1 .. k : a[i].role = "assistant" => i \in 1 .. Len(ms)
  BY <1>1, <1>2
<1>4. Apart(a)
  <2>1. SUFFICES ASSUME NEW i \in 1 .. k, NEW j \in 1 .. k,
                        a[i].role = "assistant", a[j].role = "assistant",
                        NEW c \in 1 .. Len(a[i].ids), NEW d \in 1 .. Len(a[j].ids),
                        a[i].ids[c] = a[j].ids[d]
                 PROVE  a[i].same = a[j].same
    BY <1>1 DEF Apart
  <2>2. i \in 1 .. Len(ms) /\ j \in 1 .. Len(ms) /\ a[i] = ms[i] /\ a[j] = ms[j]
    BY <1>1, <1>3, <2>1
  <2>3. QED
    BY <2>1, <2>2 DEF Apart
<1>5. CallsKnown(a, n)
  BY <1>1, <1>3 DEF CallsKnown
<1>6. QED
  BY <1>4, <1>5 DEF a

LEMMA ContextParts ==
  /\ \A b \in {"text", "image"} : D!User(b) \in Logged /\ D!User(b).role = "user"
  /\ \A b \in {"text", "image"} : D!Prompted(b) \in InContext /\ D!Prompted(b).role = "user"
  /\ \A n \in Nat, i \in BOOLEAN : /\ D!Result(n, i) \in InContext
                                   /\ D!Result(n, i).role = "toolResult"
                                   /\ D!Result(n, i).id = n
  /\ \A b \in {"text", "thinking", "both", "empty"}, ids \in Seq(Nat),
        s \in {"stop", "error", "aborted"} :
       /\ D!Assistant(b, ids, s) \in InContext
       /\ D!Assistant(b, ids, s).role = "assistant"
       /\ D!Assistant(b, ids, s).ids = ids
       /\ D!Assistant(b, ids, s).stop = s
<1>1. \A b \in {"text", "image"} : D!User(b) \in Logged /\ D!User(b).role = "user"
  BY DEF D!User, Logged, InContext, Users
<1>2. \A b \in {"text", "image"} : D!Prompted(b) \in InContext /\ D!Prompted(b).role = "user"
  BY DEF D!Prompted, InContext, Users
<1>3. \A n \in Nat, i \in BOOLEAN : /\ D!Result(n, i) \in InContext
                                    /\ D!Result(n, i).role = "toolResult"
                                    /\ D!Result(n, i).id = n
  BY DEF D!Result, InContext, Returned
<1>4. ASSUME NEW b \in {"text", "thinking", "both", "empty"}, NEW ids \in Seq(Nat),
             NEW s \in {"stop", "error", "aborted"}
      PROVE  /\ D!Assistant(b, ids, s) \in InContext
             /\ D!Assistant(b, ids, s).role = "assistant"
             /\ D!Assistant(b, ids, s).ids = ids
             /\ D!Assistant(b, ids, s).stop = s
  BY DEF D!Assistant, InContext, Said
<1>5. QED
  BY <1>1, <1>2, <1>3, <1>4

\* After a user's message no call is open.
LEMMA UserCloses ==
  ASSUME NEW ms \in Seq(InContext), NEW r, OpenAt(ms, r),
         NEW m \in InContext, m.role = "user"
  PROVE  OpenAt(Append(ms, m), <<>>)
<1>1. ~ Answers(m) /\ Calls(m) = <<>>
  BY MessageFacts
<1>2. <<>> \in Seq(Nat)
  OBVIOUS
<1>3. QED
  BY <1>1, <1>2, OpenOn DEF Onward

LEMMA PromptKeeps ==
  ASSUME RequestInv, D!prompt PROVE RequestInv'
<1>1. /\ context \in Seq(InContext) /\ calls \in Nat
      /\ OpenAt(context, OpenIn(context)) /\ CallsKnown(context, calls) /\ Apart(context)
  BY OpenIs DEF RequestInv, ContextTypes
<1>2. PICK b \in {"text", "image"} :
        /\ context' = D!buildContext(Append(context, D!User(b))) \o <<D!Prompted(b)>>
        /\ calls' = calls
  BY DEF D!prompt
<1> DEFINE u == D!User(b)
           p == D!Prompted(b)
           ms == Append(context, u)
           l == D!buildContext(ms)
<1>3. /\ u \in InContext /\ u.role = "user"
      /\ p \in InContext /\ p.role = "user"
  BY ContextParts DEF Logged
<1> HIDE DEF u, p
<1>4. ms \in Seq(InContext) /\ OpenAt(ms, <<>>) /\ CallsKnown(ms, calls)
  <2>1. ms \in Seq(InContext)
    BY <1>1, <1>3
  <2>2. OpenAt(ms, <<>>)
    BY <1>1, <1>3, UserCloses
  <2>3. CallsKnown(ms, calls)
    BY <1>1, <1>3, CallsOn
  <2>4. QED
    BY <2>1, <2>2, <2>3
<1> HIDE DEF ms
<1>5. l \in Seq(InContext) /\ CallsKnown(l, calls) /\ Apart(l)
  BY <1>3, <1>4, RebuiltOn, RebuiltCalls
<1>6. PICK q \in Seq(Nat) : OpenAt(l, q)
  BY <1>4, RebuiltIsOpen
<1>7. \A i \in 1 .. Len(l) : l[i].role = "assistant" => l[i].stop = "unknown"
  <2>1. ASSUME NEW i \in 1 .. Len(l), l[i].role = "assistant" PROVE l[i].stop = "unknown"
    <3>1. PICK j \in 1 .. Len(ms) : l[i] = Forgotten(ms[j])
      BY <1>4, RebuiltFrom
    <3>2. ms[j] \in InContext
      BY <1>4
    <3>3. /\ Forgotten(ms[j]).role = ms[j].role
          /\ ms[j].role = "assistant" => Forgotten(ms[j]).stop = "unknown"
      BY <3>2, ForgottenIs
    <3> HIDE DEF l
    <3>4. QED
      BY <2>1, <3>1, <3>3
  <2>2. QED
    BY <2>1
<1> HIDE DEF l
<1>8. OpenIn(l) = <<>>
  <2>1. CASE Speakers(l) = {}
    BY <2>1 DEF OpenIn
  <2>2. CASE Speakers(l) # {}
    <3>1. Latest(l) \in Speakers(l)
      BY <1>5, <2>2, LatestIs
    <3>2. Latest(l) \in 1 .. Len(l) /\ l[Latest(l)].role = "assistant"
      BY <1>5, <3>1 DEF Speakers
    <3>3. l[Latest(l)].stop # "stop"
      BY <1>7, <3>2
    <3>4. QED
      BY <3>3 DEF OpenIn
  <2>3. QED
    BY <2>1, <2>2
<1>9. context' = Append(l, p)
  BY <1>2, <1>5 DEF l, ms, u, p
<1>10. context' \in Seq(InContext)
  BY <1>3, <1>5, <1>9
<1>11. OpenAt(context', <<>>)
  BY <1>3, <1>5, <1>6, <1>9, UserCloses
<1>12. OpenIn(context') = <<>>
  BY <1>3, <1>5, <1>8, <1>9, OpenAfter
<1>13. CallsKnown(context', calls) /\ Apart(context')
  BY <1>1, <1>3, <1>5, <1>9, CallsOn
<1>14. QED
  BY <1>1, <1>2, <1>10, <1>11, <1>12, <1>13, OpenIs DEF RequestInv, ContextTypes

LEMMA SteerKeeps ==
  ASSUME RequestInv, D!steer PROVE RequestInv'
<1>1. /\ context \in Seq(InContext) /\ calls \in Nat
      /\ OpenAt(context, OpenIn(context)) /\ CallsKnown(context, calls) /\ Apart(context)
  BY OpenIs DEF RequestInv, ContextTypes
<1>2. /\ context' = Append(context, D!User("text")) /\ calls' = calls
      /\ OpenIn(context) = <<>>
  BY OpenIs DEF D!steer
<1> DEFINE u == D!User("text")
<1>3. u \in InContext /\ u.role = "user"
  BY ContextParts DEF Logged
<1> HIDE DEF u
<1>4. context' = Append(context, u)
  BY <1>2 DEF u
<1>5. context' \in Seq(InContext)
  BY <1>1, <1>3, <1>4
<1>6. OpenAt(context', <<>>)
  BY <1>1, <1>3, <1>4, UserCloses
<1>7. OpenIn(context') = <<>>
  BY <1>1, <1>2, <1>3, <1>4, OpenAfter
<1>8. CallsKnown(context', calls) /\ Apart(context')
  BY <1>1, <1>3, <1>4, CallsOn
<1>9. QED
  BY <1>1, <1>2, <1>5, <1>6, <1>7, <1>8, OpenIs DEF RequestInv, ContextTypes

LEMMA ResultKeeps ==
  ASSUME RequestInv, D!result PROVE RequestInv'
<1>1. /\ context \in Seq(InContext) /\ calls \in Nat
      /\ OpenAt(context, OpenIn(context)) /\ CallsKnown(context, calls) /\ Apart(context)
  BY OpenIs DEF RequestInv, ContextTypes
<1> DEFINE o == OpenIn(context)
<1>2. PICK img \in BOOLEAN :
        /\ context' = Append(context, D!Result(Head(o), img)) /\ calls' = calls
        /\ o # <<>>
  BY OpenIs DEF D!result
<1> DEFINE m == D!Result(Head(o), img)
           at == Latest(context)
           ids == context[at].ids
           T == Elements(ids) \ Returns(context)
<1>3. /\ Speakers(context) # {} /\ context[at].stop = "stop" /\ o = Only(ids, T)
  BY <1>2 DEF OpenIn
<1>4. at \in 1 .. Len(context) /\ context[at].role = "assistant"
  BY <1>1, <1>3, LatestIs DEF Speakers
<1>5. ids \in Seq(Nat) /\ Distinct(ids) /\ \A c \in 1 .. Len(ids) : ids[c] <= calls
  <2>1. context[at] \in InContext
    BY <1>1, <1>4
  <2>2. QED
    BY <1>1, <1>4, <2>1, MessageFacts DEF CallsKnown
<1> HIDE DEF at, ids, T
<1>6. /\ o \in Seq(Nat) /\ Head(o) \in Nat /\ Head(o) <= calls /\ Tail(o) \in Seq(Nat)
  <2>1. /\ Only(ids, T) \in Seq(Nat)
        /\ \A i \in DOMAIN Only(ids, T) : \E j \in DOMAIN ids : ids[j] = Only(ids, T)[i]
    BY <1>5, OnlyType
  <2> HIDE DEF o
  <2>2. o \in Seq(Nat) /\ 1 \in DOMAIN o /\ Head(o) = o[1] /\ Tail(o) \in Seq(Nat)
    BY <1>2, <1>3, <2>1
  <2>3. PICK j \in DOMAIN ids : ids[j] = o[1]
    BY <1>3, <2>1, <2>2
  <2>4. j \in 1 .. Len(ids)
    BY <1>5
  <2>5. QED
    BY <1>5, <2>2, <2>3, <2>4
<1>7. m \in InContext /\ m.role = "toolResult" /\ m.id = Head(o)
  BY <1>6, ContextParts
<1> HIDE DEF m
<1>8. OpenIn(Append(context, m)) = Only(ids, Elements(ids) \ (Returns(context) \cup {m.id}))
  BY <1>1, <1>3, <1>7, OpenAfter DEF ids, at
<1>9. Elements(ids) \ (Returns(context) \cup {m.id}) = T \ {Head(o)}
  BY <1>7 DEF T
<1>10. Only(ids, T \ {Head(o)}) = Tail(o)
  <2>1. Only(ids, T \ {Head(Only(ids, T))}) = Tail(Only(ids, T))
    <3>1. Only(ids, T) # <<>>
      BY <1>2, <1>3
    <3>2. QED
      BY <1>5, <3>1, OnlyTail
  <2>2. QED
    BY <1>3, <2>1
<1> HIDE DEF o
<1>11. OpenIn(Append(context, m)) = Tail(o)
  BY <1>8, <1>9, <1>10
<1>12. OpenAt(Append(context, m), Tail(o))
  <2>1. Answers(m) /\ Named(m) = m.id
    BY <1>7, MessageFacts
  <2>2. Onward(o, m, Tail(o))
    BY <1>2, <1>7, <2>1 DEF Onward
  <2>3. OpenAt(context, o)
    BY <1>1 DEF o
  <2>4. QED
    BY <1>1, <1>6, <1>7, <2>2, <2>3, OpenOn
<1>13. CallsKnown(Append(context, m), calls) /\ Apart(Append(context, m))
  BY <1>1, <1>6, <1>7, CallsOn
<1>14. context' = Append(context, m) /\ Append(context, m) \in Seq(InContext)
  BY <1>1, <1>2, <1>7 DEF m
<1>15. QED
  BY <1>1, <1>2, <1>11, <1>12, <1>13, <1>14, OpenIs DEF RequestInv, ContextTypes

\* An answer names its calls anew.
LEMMA AnswerKeeps ==
  ASSUME RequestInv, D!answer PROVE RequestInv'
<1>1. /\ context \in Seq(InContext) /\ calls \in Nat
      /\ OpenAt(context, OpenIn(context)) /\ CallsKnown(context, calls) /\ Apart(context)
  BY OpenIs DEF RequestInv, ContextTypes
<1>2. PICK b \in {"text", "thinking", "both", "empty"}, n \in 0 .. 2,
           s \in {"stop", "error", "aborted"} :
        /\ context' = Append(context, D!Assistant(b, [j \in 1 .. n |-> calls + j], s))
        /\ calls' = calls + n
  BY DEF D!answer
<1> DEFINE ids == [j \in 1 .. n |-> calls + j]
           m == D!Assistant(b, ids, s)
           a == Append(context, m)
           k == Len(context) + 1
<1>3. /\ ids \in Seq(Nat) /\ Len(ids) = n /\ Distinct(ids)
      /\ \A c \in 1 .. Len(ids) : ids[c] > calls /\ ids[c] <= calls + n
  BY <1>1 DEF Distinct
<1> HIDE DEF ids
<1>4. m \in InContext /\ m.role = "assistant" /\ m.ids = ids /\ m.stop = s
  BY <1>3, ContextParts
<1> HIDE DEF m
<1>5. Calls(m) = IF s = "stop" THEN ids ELSE <<>>
  BY <1>4, MessageFacts DEF Calls
<1>6. OpenIn(a) = Calls(m)
  <2>1. OpenIn(a) = IF s # "stop" THEN <<>> ELSE Only(ids, Elements(ids) \ Returns(context))
    BY <1>1, <1>4, OpenAfter
  <2>2. Only(ids, Elements(ids) \ Returns(context)) = ids
    <3>1. ASSUME NEW i \in 1 .. Len(ids) PROVE ids[i] \in Elements(ids) \ Returns(context)
      <4>1. ids[i] \in Elements(ids)
        BY <1>3 DEF Elements
      <4>2. \A j \in DOMAIN context : context[j].role = "toolResult" =>
              /\ context[j].id \in Nat /\ context[j].id <= calls
        BY <1>1, MessageFacts DEF CallsKnown
      <4>3. ids[i] \notin Returns(context)
        BY <1>1, <1>3, <4>2 DEF Returns
      <4>4. QED
        BY <4>1, <4>3
    <3>2. ids \in Seq(Elements(ids) \ Returns(context))
      BY <1>3, <3>1
    <3>3. QED
      BY <3>2, OnlyAll
  <2>3. QED
    BY <1>5, <2>1, <2>2
<1>7. OpenAt(a, Calls(m))
  <2>1. ~ Answers(m) /\ Calls(m) \in Seq(Nat)
    BY <1>4, MessageFacts
  <2>2. QED
    BY <1>1, <1>4, <2>1, OpenOn DEF Onward
<1>8. /\ Len(context) \in Nat /\ Len(a) = k /\ a[k] = m /\ a \in Seq(InContext)
      /\ \A i \in 1 .. Len(context) : a[i] = context[i] /\ context[i] \in InContext
      /\ \A i \in 1 .. k : i \in 1 .. Len(context) \/ i = k
  BY <1>1, <1>4
<1>9. context' = a
  BY <1>2 DEF m, ids
<1> HIDE DEF a, k
<1>10. \A i \in 1 .. Len(context) : context[i].role = "assistant" =>
         \A c \in 1 .. Len(context[i].ids) :
           context[i].ids[c] <= calls /\ context[i].ids[c] \in Nat
  <2>1. ASSUME NEW i \in 1 .. Len(context), context[i].role = "assistant",
               NEW c \in 1 .. Len(context[i].ids)
        PROVE  context[i].ids[c] <= calls /\ context[i].ids[c] \in Nat
    <3>1. context[i].ids \in Seq(Nat)
      BY <1>8, <2>1, MessageFacts
    <3>2. context[i].ids[c] \in Nat
      BY <3>1
    <3>3. QED
      BY <1>1, <2>1, <3>2 DEF CallsKnown
  <2>2. QED
    BY <2>1
<1>11. CallsKnown(a, calls + n)
  <2>1. ASSUME NEW i \in 1 .. Len(a), a[i].role = "assistant"
        PROVE  Distinct(a[i].ids) /\ \A c \in 1 .. Len(a[i].ids) : a[i].ids[c] <= calls + n
    <3>1. CASE i = k
      BY <1>3, <1>4, <1>8, <3>1
    <3>2. CASE i # k
      <4>1. i \in 1 .. Len(context) /\ a[i] = context[i]
        BY <1>8, <3>2
      <4>2. Distinct(a[i].ids)
        BY <1>1, <2>1, <4>1 DEF CallsKnown
      <4>3. \A c \in 1 .. Len(a[i].ids) : a[i].ids[c] <= calls /\ a[i].ids[c] \in Nat
        BY <1>10, <2>1, <4>1
      <4>4. QED
        BY <1>1, <4>2, <4>3
    <3>3. QED
      BY <3>1, <3>2
  <2>2. ASSUME NEW i \in 1 .. Len(a), a[i].role = "toolResult"
        PROVE  a[i].id <= calls + n
    <3>1. i \in 1 .. Len(context) /\ a[i] = context[i]
      BY <1>4, <1>8, <2>2
    <3>2. a[i].id <= calls /\ a[i].id \in Nat
      BY <1>1, <1>8, <2>2, <3>1, MessageFacts DEF CallsKnown
    <3>3. QED
      BY <1>1, <3>2
  <2>3. QED
    BY <2>1, <2>2 DEF CallsKnown
<1>12. Apart(a)
  <2>1. SUFFICES ASSUME NEW i \in 1 .. k, NEW j \in 1 .. k,
                        a[i].role = "assistant", a[j].role = "assistant",
                        NEW c \in 1 .. Len(a[i].ids), NEW d \in 1 .. Len(a[j].ids),
                        a[i].ids[c] = a[j].ids[d]
                 PROVE  a[i].same = a[j].same
    BY <1>8 DEF Apart
  <2>2. CASE i = k /\ j = k
    BY <2>2
  <2>3. CASE i # k /\ j # k
    <3>1. i \in 1 .. Len(context) /\ j \in 1 .. Len(context) /\ a[i] = context[i] /\ a[j] = context[j]
      BY <1>8, <2>3
    <3>2. QED
      BY <1>1, <2>1, <3>1 DEF Apart
  <2>4. CASE i = k /\ j # k
    <3>1. j \in 1 .. Len(context) /\ a[j] = context[j]
      BY <1>8, <2>4
    <3>2. a[j].ids[d] <= calls /\ a[j].ids[d] \in Nat
      BY <1>10, <2>1, <3>1
    <3>3. a[i].ids = ids /\ ids[c] > calls /\ ids[c] \in Nat
      BY <1>3, <1>4, <1>8, <2>1, <2>4
    <3>4. FALSE
      BY <1>1, <2>1, <3>2, <3>3
    <3>5. QED
      BY <3>4
  <2>5. CASE i # k /\ j = k
    <3>1. i \in 1 .. Len(context) /\ a[i] = context[i]
      BY <1>8, <2>5
    <3>2. a[i].ids[c] <= calls /\ a[i].ids[c] \in Nat
      BY <1>10, <2>1, <3>1
    <3>3. a[j].ids = ids /\ ids[d] > calls /\ ids[d] \in Nat
      BY <1>3, <1>4, <1>8, <2>1, <2>5
    <3>4. FALSE
      BY <1>1, <2>1, <3>2, <3>3
    <3>5. QED
      BY <3>4
  <2>6. QED
    BY <2>2, <2>3, <2>4, <2>5
<1>13. calls' = calls + n /\ calls' \in Nat
  BY <1>1, <1>2
<1>14. QED
  BY <1>6, <1>7, <1>8, <1>9, <1>11, <1>12, <1>13, OpenIs DEF RequestInv, ContextTypes

LEMMA RequestStep ==
  ASSUME RequestInv, [D!Next]_(D!vars) PROVE RequestInv'
<1>1. CASE UNCHANGED D!vars
  BY <1>1, OpenIs DEF RequestInv, ContextTypes, D!vars
<1>2. QED
  BY <1>1, PromptKeeps, SteerKeeps, ResultKeeps, AnswerKeeps DEF D!Next

LEMMA RequestInit == D!Init => RequestInv
<1>1. SUFFICES ASSUME D!Init PROVE RequestInv
  OBVIOUS
<1>2. context = <<>> /\ calls = 0 /\ Len(<<>>) = 0 /\ <<>> \in Seq(InContext)
  BY <1>1 DEF D!Init
<1>3. OpenIn(<<>>) = <<>>
  BY DEF OpenIn, Speakers
<1>4. CallsKnown(<<>>, 0) /\ Apart(<<>>)
  BY <1>2 DEF CallsKnown, Apart
<1>5. QED
  BY <1>2, <1>3, <1>4, OpenIs, OpenEmpty DEF RequestInv, ContextTypes

\* When the model is asked, no call is open.
LEMMA AskedWhole ==
  ASSUME RequestInv, D!Asks PROVE OpenAt(context, <<>>)
<1>1. /\ context \in Seq(InContext) /\ OpenAt(context, OpenIn(context))
  BY OpenIs DEF RequestInv, ContextTypes
<1>2. /\ context # <<>> /\ D!Last(context).role # "assistant"
      /\ D!Last(context).role = "toolResult" => OpenIn(context) = <<>>
  BY OpenIs DEF D!Asks
<1> DEFINE n == Len(context)
           ms == SubSeq(context, 1, n - 1)
           m == context[n]
<1>3. /\ m \in InContext /\ ms \in Seq(InContext) /\ context = Append(ms, m)
      /\ D!Last(context) = m
  BY <1>1, <1>2 DEF D!Last
<1> HIDE DEF ms, m
<1>4. CASE m.role = "toolResult"
  BY <1>1, <1>2, <1>3, <1>4
<1>5. CASE m.role = "user"
  <2>1. PICK r \in Seq(Nat) : Onward(r, m, OpenIn(context))
    <3>1. OpenAt(Append(ms, m), OpenIn(context))
      BY <1>1, <1>3
    <3>2. QED
      BY <1>3, <3>1, OpenBefore
  <2>2. ~ Answers(m) /\ Calls(m) = <<>>
    BY <1>3, <1>5, MessageFacts
  <2>3. OpenIn(context) = <<>>
    BY <2>1, <2>2 DEF Onward
  <2>4. QED
    BY <1>1, <2>3
<1>6. QED
  BY <1>2, <1>3, <1>4, <1>5, MessageFacts

-----------------------------------------------------------------------------
(***************************************************************************)
(* The first pass rewrites the calls of another model and their results    *)
(* alike.                                                                  *)
(***************************************************************************)
\* A message under f, which rewrites calls.
Rewritten(m, f) ==
  CASE m.role = "assistant" /\ ~ m.same ->
         [m EXCEPT !.body = IF @ \in {"thinking", "both"} THEN "text" ELSE @,
                   !.ids = [j \in DOMAIN @ |-> D!normalizeToolCallId(@[j])]]
    [] m.role = "toolResult" -> [m EXCEPT !.id = f[@]]
    [] OTHER -> m

AllBy(f, r) == [c \in 1 .. Len(r) |-> f[r[c]]]

Rewrites(f, m) ==
  m.role = "assistant" =>
    \A c \in 1 .. Len(m.ids) :
      f[m.ids[c]] = IF m.same THEN m.ids[c] ELSE D!normalizeToolCallId(m.ids[c])

LEMMA AllByType ==
  ASSUME NEW V, NEW f \in [V -> V], NEW r \in Seq(V)
  PROVE  /\ AllBy(f, r) \in Seq(V)
         /\ Len(AllBy(f, r)) = Len(r)
         /\ \A c \in 1 .. Len(r) : AllBy(f, r)[c] = f[r[c]]
<1>1. \A c \in 1 .. Len(r) : f[r[c]] \in V
  <2>1. ASSUME NEW c \in 1 .. Len(r) PROVE r[c] \in V
    BY ElementOfSeq
  <2>2. QED
    BY <2>1
<1>2. Len(r) \in Nat
  OBVIOUS
<1>3. QED
  BY <1>1, <1>2 DEF AllBy

LEMMA AllByNone == ASSUME NEW V, NEW f \in [V -> V] PROVE AllBy(f, <<>>) = <<>>
<1>1. <<>> \in Seq(V) /\ Len(<<>>) = 0
  OBVIOUS
<1>2. AllBy(f, <<>>) \in Seq(V) /\ Len(AllBy(f, <<>>)) = 0
  BY <1>1, AllByType
<1> DEFINE a == AllBy(f, <<>>)
<1> HIDE DEF a
<1>3. a \in Seq(V) /\ Len(a) = 0
  BY <1>2 DEF a
<1>4. a = <<>>
  BY <1>3
<1>5. QED
  BY <1>4 DEF a

LEMMA AllByTail ==
  ASSUME NEW V, NEW f \in [V -> V], NEW r \in Seq(V), r # <<>>
  PROVE  /\ AllBy(f, r) # <<>>
         /\ Head(AllBy(f, r)) = f[Head(r)]
         /\ AllBy(f, Tail(r)) = Tail(AllBy(f, r))
<1> DEFINE a == AllBy(f, r)
           t == Tail(r)
           b == AllBy(f, t)
           n == Len(r) - 1
<1>0. a \in Seq(V) /\ Len(a) = Len(r) /\ \A c \in 1 .. Len(r) : a[c] = f[r[c]]
  BY AllByType
<1>1. /\ n \in Nat /\ Len(r) = n + 1 /\ Head(r) = r[1] /\ t \in Seq(V) /\ Len(t) = n
      /\ \A c \in 1 .. n : t[c] = r[c + 1]
  OBVIOUS
<1> HIDE DEF t, n
<1>2. a \in Seq(V) /\ Len(a) = n + 1 /\ \A c \in 1 .. n + 1 : a[c] = f[r[c]]
  BY <1>0, <1>1
<1>3. b \in Seq(V) /\ Len(b) = n /\ \A c \in 1 .. n : b[c] = f[t[c]]
  BY <1>1, AllByType
<1> HIDE DEF a, b
<1>4. a # <<>> /\ Head(a) = a[1] /\ 1 \in 1 .. n + 1
  BY <1>1, <1>2
<1>5. /\ Tail(a) \in Seq(V) /\ Len(Tail(a)) = n
      /\ \A c \in 1 .. n : Tail(a)[c] = a[c + 1]
  BY <1>1, <1>2, <1>4
<1>6. ASSUME NEW c \in 1 .. n PROVE Tail(a)[c] = b[c]
  <2>1. c + 1 \in 1 .. n + 1
    BY <1>1
  <2>2. QED
    BY <1>1, <1>2, <1>3, <1>5, <2>1
<1>7. b = Tail(a)
  BY <1>3, <1>5, <1>6
<1>8. QED
  BY <1>1, <1>2, <1>4, <1>7 DEF a, b, t

LEMMA RewrittenIs ==
  ASSUME NEW f \in [Nat -> Nat], NEW m \in InContext, Rewrites(f, m)
  PROVE  /\ Rewritten(m, f) \in InContext
         /\ Rewritten(m, f).role = m.role
         /\ m.role = "user" => Rewritten(m, f) = m
         /\ m.role = "toolResult" => Rewritten(m, f).id = f[m.id]
         /\ m.role = "assistant" => Rewritten(m, f).ids = AllBy(f, m.ids)
         /\ Calls(Rewritten(m, f)) = AllBy(f, Calls(m))
<1>1. CASE m.role = "user"
  <2>1. Rewritten(m, f) = m
    BY <1>1 DEF Rewritten
  <2>2. Calls(m) = <<>> /\ AllBy(f, <<>>) = <<>>
    BY <1>1, MessageFacts, AllByNone
  <2>3. QED
    BY <1>1, <2>1, <2>2
<1>2. CASE m.role = "toolResult"
  <2> DEFINE w == [m EXCEPT !.id = f[m.id]]
  <2>1. Rewritten(m, f) = w
    BY <1>2 DEF Rewritten
  <2>2. m \in Returned
    BY <1>2, MessageFacts
  <2>3. w \in Returned /\ w.role = "toolResult" /\ w.id = f[m.id]
    BY <2>2 DEF Returned
  <2>4. Calls(m) = <<>> /\ AllBy(f, <<>>) = <<>>
    BY <1>2, MessageFacts, AllByNone
  <2> HIDE DEF w
  <2>5. Calls(w) = <<>>
    BY <2>3 DEF Calls
  <2>6. QED
    BY <1>2, <2>1, <2>3, <2>4, <2>5 DEF InContext
<1>3. CASE m.role = "assistant" /\ ~ m.same
  <2>1. m \in Said /\ m.ids \in Seq(Nat)
    BY <1>3, MessageFacts
  <2> DEFINE ids == [j \in DOMAIN m.ids |-> D!normalizeToolCallId(m.ids[j])]
             body == IF m.body \in {"thinking", "both"} THEN "text" ELSE m.body
             w == [m EXCEPT !.body = body, !.ids = ids]
  <2>2. Rewritten(m, f) = w
    BY <1>3 DEF Rewritten
  <2>3. ids = AllBy(f, m.ids)
    <3>1. DOMAIN m.ids = 1 .. Len(m.ids)
      BY <2>1
    <3>2. \A j \in 1 .. Len(m.ids) : f[m.ids[j]] = D!normalizeToolCallId(m.ids[j])
      BY <1>3 DEF Rewrites
    <3>3. QED
      BY <3>1, <3>2 DEF AllBy
  <2>4. ids \in Seq(Nat)
    <3>1. AllBy(f, m.ids) \in Seq(Nat)
      BY <2>1, AllByType
    <3>2. QED
      BY <2>3, <3>1
  <2> HIDE DEF ids
  <2>5. body \in {"text", "thinking", "both", "empty"}
    BY <2>1 DEF Said
  <2> HIDE DEF body
  <2>6. w \in Said /\ w.role = "assistant" /\ w.ids = ids /\ w.stop = m.stop
    BY <2>1, <2>4, <2>5 DEF Said
  <2> HIDE DEF w
  <2>7. w \in InContext
    BY <2>6 DEF InContext
  <2>8. Calls(w) = AllBy(f, Calls(m))
    <3>1. CutShort(w) <=> CutShort(m)
      BY <1>3, <2>6, <2>7, MessageFacts
    <3>2. CASE CutShort(m)
      <4>1. Calls(w) = <<>> /\ Calls(m) = <<>>
        BY <3>1, <3>2 DEF Calls
      <4>2. AllBy(f, <<>>) = <<>>
        BY AllByNone
      <4>3. QED
        BY <4>1, <4>2
    <3>3. CASE ~ CutShort(m)
      BY <1>3, <2>3, <2>6, <3>1, <3>3 DEF Calls
    <3>4. QED
      BY <3>2, <3>3
  <2>9. QED
    BY <1>3, <2>2, <2>3, <2>6, <2>7, <2>8
<1>4. CASE m.role = "assistant" /\ m.same
  <2>1. m \in Said /\ m.ids \in Seq(Nat)
    BY <1>4, MessageFacts
  <2>2. Rewritten(m, f) = m
    BY <1>4 DEF Rewritten
  <2>3. AllBy(f, m.ids) = m.ids
    <3>1. \A j \in 1 .. Len(m.ids) : f[m.ids[j]] = m.ids[j]
      BY <1>4 DEF Rewrites
    <3>2. AllBy(f, m.ids) = [c \in 1 .. Len(m.ids) |-> m.ids[c]]
      BY <3>1 DEF AllBy
    <3>3. QED
      BY <2>1, <3>2
  <2>4. AllBy(f, <<>>) = <<>>
    BY AllByNone
  <2>5. Calls(m) \in {<<>>, m.ids}
    BY DEF Calls
  <2>6. QED
    BY <1>4, <2>2, <2>3, <2>4, <2>5
<1>5. QED
  BY <1>1, <1>2, <1>3, <1>4, MessageFacts

LEMMA OnwardRewritten ==
  ASSUME NEW f \in [Nat -> Nat], NEW m \in InContext, Rewrites(f, m),
         NEW r \in Seq(Nat), NEW r2, Onward(r, m, r2)
  PROVE  Onward(AllBy(f, r), Rewritten(m, f), AllBy(f, r2))
<1> DEFINE w == Rewritten(m, f)
<1>1. /\ w \in InContext /\ w.role = m.role
      /\ m.role = "toolResult" => w.id = f[m.id]
      /\ Calls(w) = AllBy(f, Calls(m))
  BY RewrittenIs
<1> HIDE DEF w
<1>2. CASE m.role = "toolResult"
  <2>1. Answers(m) /\ Answers(w) /\ Named(m) = m.id /\ Named(w) = w.id
    BY <1>1, <1>2, MessageFacts
  <2>2. r # <<>> /\ Head(r) = m.id /\ r2 = Tail(r)
    BY <2>1 DEF Onward
  <2>3. AllBy(f, r) # <<>> /\ Head(AllBy(f, r)) = f[Head(r)] /\ AllBy(f, Tail(r)) = Tail(AllBy(f, r))
    BY <2>2, AllByTail
  <2>4. QED
    BY <1>1, <1>2, <2>1, <2>2, <2>3 DEF Onward, w
<1>3. CASE m.role # "toolResult"
  <2>1. ~ Answers(m) /\ ~ Answers(w)
    BY <1>1, <1>3, MessageFacts
  <2>2. QED
    BY <1>1, <2>1 DEF Onward, w
<1>4. QED
  BY <1>2, <1>3

LEMMA OpenRewritten ==
  ASSUME NEW f \in [Nat -> Nat], NEW ms \in Seq(InContext), OpenAt(ms, <<>>),
         \A i \in 1 .. Len(ms) : Rewrites(f, ms[i])
  PROVE  OpenAt([i \in DOMAIN ms |-> Rewritten(ms[i], f)], <<>>)
<1> DEFINE a == [i \in DOMAIN ms |-> Rewritten(ms[i], f)]
           n == Len(ms)
<1>1. /\ n \in Nat /\ Len(a) = n /\ \A i \in 1 .. n : a[i] = Rewritten(ms[i], f)
      /\ \A i \in 1 .. n : ms[i] \in InContext
  OBVIOUS
<1>2. PICK o : Trace(o, ms) /\ o[n] = <<>>
  BY DEF OpenAt
<1>3. /\ o \in [0 .. n -> Seq(Nat)] /\ o[0] = <<>>
      /\ \A k \in 1 .. n : Onward(o[k - 1], ms[k], o[k])
  BY <1>2 DEF Trace
<1> DEFINE q == [k \in 0 .. n |-> AllBy(f, o[k])]
<1> HIDE DEF a
<1>4. /\ q \in [0 .. n -> Seq(Nat)] /\ \A k \in 0 .. n : q[k] = AllBy(f, o[k])
  BY <1>3, AllByType
<1> HIDE DEF q, n
<1>5. AllBy(f, <<>>) = <<>>
  BY AllByNone
<1>6. q[0] = <<>> /\ q[n] = <<>>
  BY <1>1, <1>2, <1>3, <1>4, <1>5
<1>7. ASSUME NEW k \in 1 .. n PROVE Onward(q[k - 1], a[k], q[k])
  <2>0. k - 1 \in 0 .. n /\ k \in 0 .. n
    BY <1>1
  <2>1. o[k - 1] \in Seq(Nat) /\ Onward(o[k - 1], ms[k], o[k]) /\ ms[k] \in InContext
    BY <1>1, <1>3, <2>0
  <2>2. Rewrites(f, ms[k])
    BY DEF n
  <2>3. Onward(AllBy(f, o[k - 1]), Rewritten(ms[k], f), AllBy(f, o[k]))
    BY <2>1, <2>2, OnwardRewritten
  <2>4. QED
    BY <1>1, <1>4, <2>0, <2>3
<1>8. Trace(q, a)
  BY <1>1, <1>4, <1>6, <1>7 DEF Trace
<1>9. QED
  BY <1>1, <1>6, <1>8 DEF OpenAt, a

\* Distinct calls stay distinct.
LEMMA DistinctRewritten ==
  ASSUME NEW f \in [Nat -> Nat], NEW m \in InContext, m.role = "assistant",
         Rewrites(f, m), Distinct(m.ids)
  PROVE  Distinct(Rewritten(m, f).ids)
<1>1. Rewritten(m, f).ids = AllBy(f, m.ids) /\ m.ids \in Seq(Nat)
  BY RewrittenIs, MessageFacts
<1>2. Len(AllBy(f, m.ids)) = Len(m.ids) /\ \A c \in 1 .. Len(m.ids) : AllBy(f, m.ids)[c] = f[m.ids[c]]
  BY <1>1 DEF AllBy
<1>3. ASSUME NEW c \in 1 .. Len(m.ids), NEW d \in 1 .. Len(m.ids), f[m.ids[c]] = f[m.ids[d]]
      PROVE  c = d
  <2>1. m.ids[c] \in Nat /\ m.ids[d] \in Nat
    BY <1>1, ElementOfSeq
  <2>2. m.ids[c] = m.ids[d]
    <3>1. CASE m.same
      BY <1>3, <3>1 DEF Rewrites
    <3>2. CASE ~ m.same
      <4>1. D!normalizeToolCallId(m.ids[c]) = D!normalizeToolCallId(m.ids[d])
        BY <1>3, <3>2 DEF Rewrites
      <4>2. \A x, y \in Nat : D!normalizeToolCallId(x) = D!normalizeToolCallId(y) => x = y
        <5>1. CASE model.normalizes
          BY <5>1 DEF D!normalizeToolCallId
        <5>2. CASE ~ model.normalizes
          BY <5>2 DEF D!normalizeToolCallId
        <5>3. QED
          BY <5>1, <5>2
      <4>3. QED
        BY <2>1, <4>1, <4>2
    <3>3. QED
      BY <3>1, <3>2
  <2>3. QED
    BY <2>2 DEF Distinct
<1>4. QED
  BY <1>1, <1>2, <1>3 DEF Distinct

LEMMA AdaptedIs ==
  ASSUME NEW ms \in Seq(InContext), NEW n, CallsKnown(ms, n), Apart(ms), OpenAt(ms, <<>>)
  PROVE  /\ D!Adapted(ms) \in Seq(InContext)
         /\ Len(D!Adapted(ms)) = Len(ms)
         /\ OpenAt(D!Adapted(ms), <<>>)
         /\ \A i \in 1 .. Len(ms) : D!Adapted(ms)[i].role = "assistant" =>
              Distinct(D!Adapted(ms)[i].ids)
         /\ D!Texts(D!Adapted(ms)) = D!Texts(ms)
<1> DEFINE f == [id \in Nat |-> D!MapId(ms, id)]
           a == [i \in DOMAIN ms |-> Rewritten(ms[i], f)]
<1>1. f \in [Nat -> Nat]
  <2>1. ASSUME NEW id \in Nat PROVE D!MapId(ms, id) \in Nat
    BY DEF D!MapId, D!normalizeToolCallId
  <2>2. QED
    BY <2>1
<1>2. /\ DOMAIN ms = 1 .. Len(ms)
      /\ \A i \in 1 .. Len(ms) : ms[i] \in InContext
  OBVIOUS
<1>3. ASSUME NEW i \in 1 .. Len(ms) PROVE Rewrites(f, ms[i])
  <2>1. SUFFICES ASSUME ms[i].role = "assistant", NEW c \in 1 .. Len(ms[i].ids)
                 PROVE  f[ms[i].ids[c]] = IF ms[i].same THEN ms[i].ids[c]
                                          ELSE D!normalizeToolCallId(ms[i].ids[c])
    BY DEF Rewrites
  <2>2. ms[i].ids \in Seq(Nat) /\ ms[i].ids[c] \in Nat
    BY <1>2, <2>1, MessageFacts
  <2>3. f[ms[i].ids[c]] = D!MapId(ms, ms[i].ids[c])
    BY <2>2
  <2>4. CASE ms[i].same
    <3>1. ~ \E j \in DOMAIN ms : /\ ms[j].role = "assistant" /\ ~ ms[j].same
                                 /\ D!Contains(ms[j].ids, ms[i].ids[c])
      <4>1. SUFFICES ASSUME NEW j \in 1 .. Len(ms), ms[j].role = "assistant", ~ ms[j].same,
                            D!Contains(ms[j].ids, ms[i].ids[c])
                     PROVE  FALSE
        BY <1>2
      <4>2. PICK d \in 1 .. Len(ms[j].ids) : ms[j].ids[d] = ms[i].ids[c]
        BY <4>1 DEF D!Contains
      <4>3. ms[j].same = ms[i].same
        BY <2>1, <4>1, <4>2 DEF Apart
      <4>4. QED
        BY <2>4, <4>1, <4>3
    <3>2. QED
      BY <2>3, <2>4, <3>1 DEF D!MapId
  <2>5. CASE ~ ms[i].same
    <3>1. D!Contains(ms[i].ids, ms[i].ids[c])
      BY <2>1 DEF D!Contains
    <3>2. QED
      BY <1>2, <2>1, <2>3, <2>5, <3>1 DEF D!MapId
  <2>6. QED
    BY <2>4, <2>5
<1>4. D!Adapted(ms) = a
  <2>1. ASSUME NEW i \in DOMAIN ms, ms[i].role = "toolResult"
        PROVE  f[ms[i].id] = D!MapId(ms, ms[i].id)
    <3>1. ms[i].id \in Nat
      BY <1>2, <2>1, MessageFacts
    <3>2. QED
      BY <3>1
  <2> HIDE DEF f
  <2>2. QED
    BY <2>1 DEF D!Adapted, Rewritten
<1> HIDE DEF f
<1>5. ASSUME NEW i \in 1 .. Len(ms)
      PROVE  /\ a[i] \in InContext /\ a[i].role = ms[i].role
             /\ ms[i].role = "user" => a[i] = ms[i]
             /\ ms[i].role = "assistant" => Distinct(a[i].ids)
  <2>1. ms[i] \in InContext /\ Rewrites(f, ms[i]) /\ a[i] = Rewritten(ms[i], f)
    BY <1>2, <1>3
  <2> HIDE DEF a
  <2>2. /\ a[i] \in InContext /\ a[i].role = ms[i].role
        /\ ms[i].role = "user" => a[i] = ms[i]
    BY <1>1, <2>1, RewrittenIs
  <2>3. ms[i].role = "assistant" => Distinct(ms[i].ids)
    BY DEF CallsKnown
  <2>4. ms[i].role = "assistant" => Distinct(a[i].ids)
    BY <1>1, <2>1, <2>3, DistinctRewritten
  <2>5. QED
    BY <2>2, <2>4
<1>6. OpenAt(a, <<>>)
  BY <1>1, <1>3, OpenRewritten
<1>7. DOMAIN a = 1 .. Len(ms) /\ Len(ms) \in Nat
  BY <1>2
<1> HIDE DEF a
<1>8. a \in Seq(InContext) /\ Len(a) = Len(ms)
  <2>1. a = [i \in 1 .. Len(ms) |-> a[i]]
    BY <1>2 DEF a
  <2>2. QED
    BY <1>5, <1>7, <2>1
<1>9. D!Texts(a) = D!Texts(ms)
  <2>1. {i \in DOMAIN a : a[i].role = "user" /\ a[i].body = "text"}
          = {i \in DOMAIN ms : ms[i].role = "user" /\ ms[i].body = "text"}
    BY <1>2, <1>5, <1>7
  <2>2. QED
    BY <2>1 DEF D!Texts
<1>10. QED
  BY <1>4, <1>5, <1>6, <1>8, <1>9

-----------------------------------------------------------------------------
(***************************************************************************)
(* The second pass makes up for the calls that are open.                   *)
(***************************************************************************)
Wrote(m) == m.role = "user" /\ m.body = "text"

LEMMA RequestCardinality == \A X : D!Cardinality(X) = Cardinality(X)
BY DEF D!Cardinality, Cardinality

LEMMA TextsNone == D!Texts(<<>>) = 0
<1>1. DOMAIN <<>> = {}
  OBVIOUS
<1>2. \A ms : DOMAIN ms = {} => D!Texts(ms) = Cardinality({})
  <2>1. ASSUME NEW ms, DOMAIN ms = {}
        PROVE  {i \in DOMAIN ms : ms[i].role = "user" /\ ms[i].body = "text"} = {}
    BY <2>1
  <2>2. QED
    BY <2>1, RequestCardinality DEF D!Texts
<1>3. QED
  BY <1>1, <1>2, FS_EmptySet

LEMMA TextsOn ==
  ASSUME NEW V, NEW ms \in Seq(V), NEW m \in V
  PROVE  /\ D!Texts(ms) \in Nat
         /\ D!Texts(Append(ms, m)) = IF Wrote(m) THEN D!Texts(ms) + 1 ELSE D!Texts(ms)
<1> DEFINE a == Append(ms, m)
           n == Len(ms)
           X == {i \in DOMAIN ms : ms[i].role = "user" /\ ms[i].body = "text"}
           Y == {i \in DOMAIN a : a[i].role = "user" /\ a[i].body = "text"}
<1>1. /\ n \in Nat /\ DOMAIN ms = 1 .. n /\ DOMAIN a = 1 .. n + 1 /\ a[n + 1] = m
      /\ \A i \in 1 .. n : a[i] = ms[i]
  BY AppendProperties, LenProperties
<1> HIDE DEF a, n
<1>2. IsFiniteSet(X) /\ Cardinality(X) \in Nat
  <2>1. IsFiniteSet(1 .. n) /\ X \in SUBSET (1 .. n)
    BY <1>1, FS_Interval
  <2>2. IsFiniteSet(X)
    BY <2>1, FS_Subset
  <2>3. QED
    BY <2>2, FS_CardinalityType
<1>3. n + 1 \notin X
  BY <1>1
<1>4. Y = IF Wrote(m) THEN X \cup {n + 1} ELSE X
  <2>1. \A i : i \in 1 .. n + 1 <=> i \in 1 .. n \/ i = n + 1
    BY <1>1
  <2>2. n + 1 \in Y <=> Wrote(m)
    BY <1>1, <2>1 DEF Wrote
  <2>3. \A i \in 1 .. n : i \in Y <=> i \in X
    BY <1>1, <2>1
  <2>4. Y \subseteq 1 .. n + 1 /\ X \subseteq 1 .. n
    BY <1>1
  <2> HIDE DEF Y, X
  <2>5. ASSUME NEW i PROVE i \in Y <=> i \in X \/ (i = n + 1 /\ Wrote(m))
    BY <1>3, <2>1, <2>2, <2>3, <2>4
  <2>6. QED
    BY <2>5
<1> HIDE DEF X, Y
<1>5. Cardinality(Y) = IF Wrote(m) THEN Cardinality(X) + 1 ELSE Cardinality(X)
  <2>1. Cardinality(X \cup {n + 1}) = Cardinality(X) + 1
    BY <1>2, <1>3, FS_AddElement
  <2>2. QED
    BY <1>4, <2>1
<1>6. D!Texts(ms) = Cardinality(X) /\ D!Texts(a) = Cardinality(Y)
  BY RequestCardinality DEF D!Texts, X, Y
<1>7. QED
  BY <1>2, <1>5, <1>6 DEF a

Sane == {m \in InContext : m.role = "assistant" => Distinct(m.ids)}
Sendable == {m \in Sane : m.role = "assistant" => m.stop \notin {"error", "aborted"}}

MadeUp(r) == [i \in DOMAIN r |-> D!NoResult(r[i])]

LEMMA MadeUpIs ==
  ASSUME NEW r \in Seq(Nat)
  PROVE  /\ MadeUp(<<>>) = <<>>
         /\ MadeUp(r) \in Seq(Sendable)
         /\ \A x \in Nat : /\ D!NoResult(x) \in Sendable /\ D!NoResult(x).role = "toolResult"
                           /\ D!NoResult(x).id = x
                           /\ MadeUp(Append(r, x)) = Append(MadeUp(r), D!NoResult(x))
<1>1. \A x \in Nat : /\ D!NoResult(x) \in Sendable /\ D!NoResult(x).role = "toolResult"
                     /\ D!NoResult(x).id = x
  BY DEF D!NoResult, Sendable, Sane, InContext, Returned
<1>2. MadeUp(<<>>) = <<>>
  BY DEF MadeUp
<1>3. ASSUME NEW i \in 1 .. Len(r) PROVE r[i] \in Nat
  BY ElementOfSeq
<1>4. DOMAIN r = 1 .. Len(r) /\ Len(r) \in Nat
  OBVIOUS
<1>5. MadeUp(r) \in Seq(Sendable)
  BY <1>1, <1>3, <1>4 DEF MadeUp
<1>6. ASSUME NEW x \in Nat PROVE MadeUp(Append(r, x)) = Append(MadeUp(r), D!NoResult(x))
  BY DEF MadeUp
<1>7. QED
  BY <1>1, <1>2, <1>5, <1>6

\* Results for the first of the open calls, or all of them.
LEMMA MadeUpCloses ==
  ASSUME NEW l \in Seq(Sendable), NEW r \in Seq(Nat), WholeAt(l, r)
  PROVE  /\ WholeAt(l \o MadeUp(r), <<>>)
         /\ D!Texts(l \o MadeUp(r)) = D!Texts(l)
<1> DEFINE Good(q) == /\ \A t \in Seq(Nat) : WholeAt(l, q \o t) => WholeAt(l \o MadeUp(q), t)
                      /\ D!Texts(l \o MadeUp(q)) = D!Texts(l)
           Z == {q \in Seq(Nat) : Good(q)}
<1>1. <<>> \in Z
  <2>1. <<>> \in Seq(Nat) /\ l \o <<>> = l /\ \A t \in Seq(Nat) : <<>> \o t = t
    OBVIOUS
  <2>2. MadeUp(<<>>) = <<>>
    BY MadeUpIs
  <2>3. QED
    BY <2>1, <2>2
<1>2. ASSUME NEW q \in Seq(Nat), NEW x \in Nat, q \in Z PROVE Append(q, x) \in Z
  <2> DEFINE lq == l \o MadeUp(q)
             w == D!NoResult(x)
  <2>1. /\ MadeUp(q) \in Seq(Sendable) /\ w \in Sendable /\ w.role = "toolResult" /\ w.id = x
        /\ MadeUp(Append(q, x)) = Append(MadeUp(q), w)
    BY MadeUpIs
  <2> HIDE DEF w
  <2>2. lq \in Seq(Sendable) /\ l \o MadeUp(Append(q, x)) = Append(lq, w)
    BY <2>1
  <2> HIDE DEF lq
  <2>3. w \in InContext /\ Answers(w) /\ Named(w) = x /\ ~ Wrote(w)
    <3>1. w \in InContext
      BY <2>1 DEF Sendable, Sane
    <3>2. QED
      BY <2>1, <3>1, MessageFacts DEF Wrote
  <2>4. ASSUME NEW t \in Seq(Nat), WholeAt(l, Append(q, x) \o t)
        PROVE  WholeAt(Append(lq, w), t)
    <3> DEFINE xt == <<x>> \o t
    <3>1. Append(q, x) \o t = q \o xt /\ xt \in Seq(Nat) /\ xt # <<>> /\ Head(xt) = x /\ Tail(xt) = t
      OBVIOUS
    <3> HIDE DEF xt
    <3>2. WholeAt(lq, xt)
      BY <1>2, <2>4, <3>1 DEF lq
    <3>3. Onward(xt, w, t)
      BY <2>3, <3>1 DEF Onward
    <3>4. QED
      BY <2>1, <2>2, <2>3, <3>2, <3>3, WholeOn
  <2>5. D!Texts(Append(lq, w)) = D!Texts(l)
    <3>1. D!Texts(lq) = D!Texts(l)
      BY <1>2 DEF lq
    <3>2. QED
      BY <2>1, <2>2, <2>3, <3>1, TextsOn
  <2>6. Append(q, x) \in Seq(Nat)
    OBVIOUS
  <2>7. Good(Append(q, x))
    <3> HIDE DEF w
    <3>1. QED
      BY <2>2, <2>4, <2>5
  <2>8. QED
    BY <2>6, <2>7
<1> HIDE DEF Z
<1>3. r \in Z
  BY <1>1, <1>2, ListInduct
<1>4. r \o <<>> = r /\ <<>> \in Seq(Nat)
  OBVIOUS
<1>5. QED
  BY <1>3, <1>4 DEF Z

\* Where the pass is: what is sent so far, and the calls of the last answer with
\* the results that came for it.
Passes == [out : Seq(Sendable), pending : Seq(Nat), existing : SUBSET Nat]

StillOpen(acc) == Only(acc.pending, Elements(acc.pending) \ acc.existing)

LEMMA AnsweredIs ==
  ASSUME NEW acc \in Passes
  PROVE  /\ StillOpen(acc) \in Seq(Nat)
         /\ D!Answered(acc) = [out |-> acc.out \o MadeUp(StillOpen(acc)),
                               pending |-> <<>>, existing |-> {}]
         /\ D!Answered(acc) \in Passes
<1>1. acc.out \in Seq(Sendable) /\ acc.pending \in Seq(Nat)
  BY DEF Passes
<1>2. StillOpen(acc) \in Seq(Nat)
  BY <1>1, OnlyType DEF StillOpen
<1>3. \A s : D!ToSet(s) = Elements(s)
  BY DEF D!ToSet, Elements
<1>4. D!Answered(acc) = [out |-> acc.out \o MadeUp(StillOpen(acc)),
                         pending |-> <<>>, existing |-> {}]
  <2>1. D!Only(acc.pending, D!ToSet(acc.pending) \ acc.existing) = StillOpen(acc)
    BY <1>3, RequestOnly DEF StillOpen
  <2>2. QED
    BY <2>1 DEF D!Answered, MadeUp
<1>5. acc.out \o MadeUp(StillOpen(acc)) \in Seq(Sendable) /\ <<>> \in Seq(Nat)
  <2>1. MadeUp(StillOpen(acc)) \in Seq(Sendable)
    BY <1>2, MadeUpIs
  <2>2. QED
    BY <1>1, <2>1
<1>6. QED
  BY <1>2, <1>4, <1>5 DEF Passes

\* What the second pass does with a message.
LEMMA PassIs ==
  ASSUME NEW acc \in Passes, NEW m \in Sane
  PROVE  /\ m.role = "user" =>
              D!secondPass(acc, m) = [out |-> Append(D!Answered(acc).out, m),
                                      pending |-> <<>>, existing |-> {}]
         /\ m.role = "assistant" /\ m.stop \in {"error", "aborted"} =>
              D!secondPass(acc, m) = D!Answered(acc)
         /\ m.role = "assistant" /\ m.stop \notin {"error", "aborted"} =>
              D!secondPass(acc, m) = [out |-> Append(D!Answered(acc).out, m),
                                      pending |-> m.ids, existing |-> {}]
         /\ m.role = "toolResult" =>
              D!secondPass(acc, m) = [out |-> Append(acc.out, m), pending |-> acc.pending,
                                      existing |-> acc.existing \cup {m.id}]
<1>1. m.role = "user" => D!secondPass(acc, m) = [D!Answered(acc) EXCEPT !.out = Append(@, m)]
  BY DEF D!secondPass
<1>2. m.role = "toolResult" =>
        D!secondPass(acc, m) = [acc EXCEPT !.out = Append(@, m), !.existing = @ \cup {m.id}]
  BY DEF D!secondPass
<1>3. m.role = "assistant" /\ m.stop \in {"error", "aborted"} =>
        D!secondPass(acc, m) = D!Answered(acc)
  BY DEF D!secondPass
<1>4. m.role = "assistant" /\ m.stop \notin {"error", "aborted"} =>
        D!secondPass(acc, m) = [out |-> Append(D!Answered(acc).out, m),
                                pending |-> m.ids, existing |-> {}]
  BY DEF D!secondPass
<1>5. acc = [out |-> acc.out, pending |-> acc.pending, existing |-> acc.existing]
  BY DEF Passes
<1>6. D!Answered(acc) = [out |-> D!Answered(acc).out, pending |-> <<>>, existing |-> {}]
  BY AnsweredIs
<1>7. [D!Answered(acc) EXCEPT !.out = Append(@, m)]
        = [out |-> Append(D!Answered(acc).out, m), pending |-> <<>>, existing |-> {}]
  <2> DEFINE w == D!Answered(acc)
             x == Append(w.out, m)
  <2>1. w \in Passes /\ w.pending = <<>> /\ w.existing = {}
    BY <1>6, AnsweredIs
  <2> HIDE DEF w, x
  <2>2. [w EXCEPT !.out = x] \in [out : {x}, pending : {<<>>}, existing : {{}}]
    BY <2>1 DEF Passes
  <2>3. \A r \in [out : {x}, pending : {<<>>}, existing : {{}}] :
          r = [out |-> x, pending |-> <<>>, existing |-> {}]
    OBVIOUS
  <2>4. [w EXCEPT !.out = x] = [out |-> x, pending |-> <<>>, existing |-> {}]
    BY <2>2, <2>3
  <2>5. QED
    BY <2>4, Zenon DEF w, x
<1>8. [acc EXCEPT !.out = Append(@, m), !.existing = @ \cup {m.id}]
        = [out |-> Append(acc.out, m), pending |-> acc.pending,
           existing |-> acc.existing \cup {m.id}]
  <2> DEFINE x == Append(acc.out, m)
             y == acc.existing \cup {m.id}
  <2> HIDE DEF x, y
  <2>1. [acc EXCEPT !.out = x, !.existing = y]
          \in [out : {x}, pending : {acc.pending}, existing : {y}]
    BY DEF Passes
  <2>2. \A r \in [out : {x}, pending : {acc.pending}, existing : {y}] :
          r = [out |-> x, pending |-> acc.pending, existing |-> y]
    OBVIOUS
  <2>3. [acc EXCEPT !.out = x, !.existing = y]
          = [out |-> x, pending |-> acc.pending, existing |-> y]
    BY <2>1, <2>2
  <2>4. QED
    BY <2>3, Zenon DEF x, y
<1>9. QED
  BY <1>1, <1>2, <1>3, <1>4, <1>7, <1>8

LEMMA PassType ==
  ASSUME NEW acc \in Passes, NEW m \in Sane
  PROVE  D!secondPass(acc, m) \in Passes
<1>1. /\ m \in InContext
      /\ acc.out \in Seq(Sendable) /\ acc.pending \in Seq(Nat) /\ acc.existing \subseteq Nat
      /\ D!Answered(acc).out \in Seq(Sendable) /\ D!Answered(acc) \in Passes
      /\ <<>> \in Seq(Nat)
  BY AnsweredIs DEF Passes, Sane
<1>2. CASE m.role = "user"
  <2>1. m \in Sendable
    BY <1>2 DEF Sendable
  <2>2. Append(D!Answered(acc).out, m) \in Seq(Sendable)
    BY <1>1, <2>1
  <2>3. D!secondPass(acc, m) = [out |-> Append(D!Answered(acc).out, m),
                                pending |-> <<>>, existing |-> {}]
    BY <1>2, PassIs
  <2>4. QED
    BY <1>1, <2>2, <2>3 DEF Passes
<1>3. CASE m.role = "assistant"
  <2>1. CASE m.stop \in {"error", "aborted"}
    BY <1>1, <1>3, <2>1, PassIs
  <2>2. CASE m.stop \notin {"error", "aborted"}
    <3>1. m \in Sendable /\ m.ids \in Seq(Nat)
      BY <1>1, <1>3, <2>2, MessageFacts DEF Sendable
    <3>2. Append(D!Answered(acc).out, m) \in Seq(Sendable)
      BY <1>1, <3>1
    <3>3. D!secondPass(acc, m) = [out |-> Append(D!Answered(acc).out, m),
                                  pending |-> m.ids, existing |-> {}]
      BY <1>3, <2>2, PassIs
    <3>4. QED
      BY <3>1, <3>2, <3>3 DEF Passes
  <2>3. QED
    BY <2>1, <2>2
<1>4. CASE m.role = "toolResult"
  <2>1. m \in Sendable /\ m.id \in Nat
    BY <1>1, <1>4, MessageFacts DEF Sendable
  <2>2. Append(acc.out, m) \in Seq(Sendable) /\ acc.existing \cup {m.id} \subseteq Nat
    BY <1>1, <2>1
  <2>3. D!secondPass(acc, m) = [out |-> Append(acc.out, m), pending |-> acc.pending,
                                existing |-> acc.existing \cup {m.id}]
    BY <1>4, PassIs
  <2>4. QED
    BY <1>1, <2>2, <2>3 DEF Passes
<1>5. QED
  BY <1>1, <1>2, <1>3, <1>4, MessageFacts

\* One message keeps: what is sent has all results but those of the calls that
\* are open.
LEMMA PassKeeps ==
  ASSUME NEW acc \in Passes, NEW m \in Sane, NEW r \in Seq(Nat), NEW r2 \in Seq(Nat),
         Onward(r, m, r2), WholeAt(acc.out, r), Distinct(acc.pending), StillOpen(acc) = r
  PROVE  LET next == D!secondPass(acc, m)
         IN  /\ WholeAt(next.out, r2) /\ Distinct(next.pending) /\ StillOpen(next) = r2
             /\ D!Texts(next.out) = IF Wrote(m) THEN D!Texts(acc.out) + 1 ELSE D!Texts(acc.out)
<1> DEFINE next == D!secondPass(acc, m)
           full == acc.out \o MadeUp(r)
<1>1. /\ m \in InContext
      /\ acc.out \in Seq(Sendable) /\ acc.pending \in Seq(Nat)
      /\ <<>> \in Seq(Nat) /\ Distinct(<<>>)
  BY DEF Passes, Sane, Distinct
<1>2. /\ D!Answered(acc).out = full /\ D!Answered(acc).pending = <<>>
      /\ D!Answered(acc).existing = {}
  <2>1. D!Answered(acc) = [out |-> acc.out \o MadeUp(StillOpen(acc)),
                           pending |-> <<>>, existing |-> {}]
    BY AnsweredIs
  <2>2. QED
    BY <2>1
<1>3. full \in Seq(Sendable)
  <2>1. MadeUp(r) \in Seq(Sendable)
    BY MadeUpIs
  <2>2. QED
    BY <1>1, <2>1
<1>4. WholeAt(full, <<>>) /\ D!Texts(full) = D!Texts(acc.out)
  BY <1>1, MadeUpCloses
<1>5. \A a : a.pending = <<>> => StillOpen(a) = <<>>
  BY OnlyEmpty DEF StillOpen
<1> HIDE DEF next, full
<1>6. CASE m.role = "user"
  <2>1. next.out = Append(full, m) /\ next.pending = <<>>
    BY <1>2, <1>6, PassIs DEF next
  <2>2. ~ Answers(m) /\ r2 = <<>> /\ Onward(<<>>, m, <<>>)
    <3>1. ~ Answers(m) /\ Calls(m) = <<>>
      BY <1>1, <1>6, MessageFacts
    <3>2. QED
      BY <3>1 DEF Onward
  <2>3. m \in Sendable
    BY <1>6 DEF Sendable
  <2>4. WholeAt(Append(full, m), <<>>)
    BY <1>1, <1>3, <1>4, <2>2, <2>3, WholeOn
  <2>5. D!Texts(Append(full, m)) = IF Wrote(m) THEN D!Texts(acc.out) + 1 ELSE D!Texts(acc.out)
    BY <1>3, <1>4, <2>3, TextsOn
  <2>6. QED
    BY <1>1, <1>5, <2>1, <2>2, <2>4, <2>5 DEF next
<1>7. CASE m.role = "assistant" /\ m.stop \in {"error", "aborted"}
  <2>1. next.out = full /\ next.pending = <<>>
    BY <1>2, <1>7, PassIs DEF next
  <2>2. r2 = <<>>
    <3>1. ~ Answers(m) /\ CutShort(m)
      BY <1>1, <1>7, MessageFacts
    <3>2. QED
      BY <3>1 DEF Onward, Calls
  <2>3. ~ Wrote(m)
    BY <1>7 DEF Wrote
  <2>4. QED
    BY <1>1, <1>4, <1>5, <2>1, <2>2, <2>3 DEF next
<1>8. CASE m.role = "assistant" /\ m.stop \notin {"error", "aborted"}
  <2>1. next.out = Append(full, m) /\ next.pending = m.ids /\ next.existing = {}
    BY <1>2, <1>8, PassIs DEF next
  <2>2. ~ Answers(m) /\ r2 = m.ids /\ Onward(<<>>, m, m.ids) /\ m.ids \in Seq(Nat)
    <3>1. ~ Answers(m) /\ ~ CutShort(m) /\ m.ids \in Seq(Nat)
      BY <1>1, <1>8, MessageFacts
    <3>2. QED
      BY <1>8, <3>1 DEF Onward, Calls
  <2>3. m \in Sendable /\ Distinct(m.ids) /\ ~ Wrote(m)
    BY <1>8 DEF Sendable, Sane, Wrote
  <2>4. WholeAt(Append(full, m), m.ids)
    BY <1>3, <1>4, <2>2, <2>3, WholeOn
  <2>5. D!Texts(Append(full, m)) = D!Texts(acc.out)
    BY <1>3, <1>4, <2>3, TextsOn
  <2>6. StillOpen(next) = m.ids
    <3>1. StillOpen(next) = Only(m.ids, Elements(m.ids))
      <4>1. Elements(m.ids) \ {} = Elements(m.ids)
        OBVIOUS
      <4>2. QED
        BY <2>1, <4>1 DEF StillOpen
    <3>2. m.ids \in Seq(Elements(m.ids))
      <4>1. \A i \in 1 .. Len(m.ids) : m.ids[i] \in Elements(m.ids)
        BY <2>2 DEF Elements
      <4>2. QED
        BY <2>2, <4>1
    <3>3. QED
      BY <3>1, <3>2, OnlyAll
  <2>7. QED
    BY <2>1, <2>2, <2>3, <2>4, <2>5, <2>6 DEF next
<1>9. CASE m.role = "toolResult"
  <2>1. /\ next.out = Append(acc.out, m) /\ next.pending = acc.pending
        /\ next.existing = acc.existing \cup {m.id}
    BY <1>9, PassIs DEF next
  <2>2. Answers(m) /\ r # <<>> /\ Head(r) = m.id /\ r2 = Tail(r)
    <3>1. Answers(m) /\ Named(m) = m.id
      BY <1>1, <1>9, MessageFacts
    <3>2. QED
      BY <3>1 DEF Onward
  <2>3. m \in Sendable /\ ~ Wrote(m)
    BY <1>9 DEF Sendable, Wrote
  <2>4. WholeAt(Append(acc.out, m), r2)
    BY <1>1, <2>2, <2>3, WholeOn
  <2>5. D!Texts(Append(acc.out, m)) = D!Texts(acc.out)
    BY <1>1, <2>3, TextsOn
  <2>6. StillOpen(next) = r2
    <3> DEFINE T == Elements(acc.pending) \ acc.existing
    <3>1. r = Only(acc.pending, T)
      BY DEF StillOpen
    <3>2. Elements(acc.pending) \ (acc.existing \cup {m.id}) = T \ {m.id}
      OBVIOUS
    <3> HIDE DEF T
    <3>3. Only(acc.pending, T \ {Head(Only(acc.pending, T))}) = Tail(Only(acc.pending, T))
      BY <1>1, <2>2, <3>1, OnlyTail
    <3>4. Only(acc.pending, T \ {m.id}) = r2
      BY <2>2, <3>1, <3>3
    <3>5. QED
      BY <2>1, <3>2, <3>4 DEF StillOpen
  <2>7. QED
    BY <2>1, <2>3, <2>4, <2>5, <2>6 DEF next
<1>10. QED
  BY <1>1, <1>6, <1>7, <1>8, <1>9, MessageFacts DEF next

PassesOf(f, ms) ==
  f = [k \in 0 .. Len(ms) |-> IF k = 0 THEN D!Nothing ELSE D!secondPass(f[k - 1], ms[k])]

LEMMA PassedAre ==
  ASSUME NEW ms \in Seq(Sane)
  PROVE  /\ D!Passed(ms)[0] = D!Nothing
         /\ \A k \in 0 .. Len(ms) : D!Passed(ms)[k] \in Passes
         /\ \A k \in 1 .. Len(ms) :
              D!Passed(ms)[k] = D!secondPass(D!Passed(ms)[k - 1], ms[k])
<1> DEFINE N == Len(ms)
           g == [k \in 1 .. N |-> [x \in Passes |-> D!secondPass(x, ms[k])]]
<1>1. N \in Nat /\ \A k \in 1 .. N : ms[k] \in Sane
  OBVIOUS
<1>2. D!Nothing \in Passes
  <2>1. <<>> \in Seq(Sendable) /\ <<>> \in Seq(Nat)
    OBVIOUS
  <2>2. QED
    BY <2>1 DEF D!Nothing, Passes
<1> HIDE DEF N
<1>3. g \in [1 .. N -> [Passes -> Passes]]
  BY <1>1, PassType
<1>4. \A k \in 1 .. N, x \in Passes : g[k][x] = D!secondPass(x, ms[k])
  OBVIOUS
<1> HIDE DEF g
<1>5. PICK f \in [0 .. N -> Passes] : GoesUp(f, N, D!Nothing, g)
  BY <1>1, <1>2, <1>3, RunUp
<1>6. PassesOf(f, ms)
  <2>1. ASSUME NEW k \in 0 .. N
        PROVE  f[k] = IF k = 0 THEN D!Nothing ELSE D!secondPass(f[k - 1], ms[k])
    <3>1. CASE k = 0
      BY <1>5, <3>1 DEF GoesUp
    <3>2. CASE k # 0
      <4>1. k \in 1 .. N /\ k - 1 \in 0 .. N
        BY <1>1, <3>2
      <4>2. f[k] = g[k][f[k - 1]] /\ f[k - 1] \in Passes
        BY <1>5, <4>1 DEF GoesUp
      <4>3. QED
        BY <1>4, <3>2, <4>1, <4>2
    <3>3. QED
      BY <3>1, <3>2
  <2>2. f = [k \in 0 .. N |-> IF k = 0 THEN D!Nothing ELSE D!secondPass(f[k - 1], ms[k])]
    BY <2>1
  <2>3. QED
    BY <2>2 DEF PassesOf, N
<1>7. PICK h : PassesOf(h, ms) /\ D!Passed(ms) = h
  <2>1. D!Passed(ms) = CHOOSE h : PassesOf(h, ms)
    BY DEF D!Passed, PassesOf
  <2>2. QED
    BY <1>6, <2>1
<1>8. h = [k \in 0 .. N |-> IF k = 0 THEN D!Nothing ELSE D!secondPass(h[k - 1], ms[k])]
  BY <1>7 DEF PassesOf, N
<1>9. h[0] = D!Nothing /\ \A k \in 1 .. N : h[k] = D!secondPass(h[k - 1], ms[k])
  <2>1. 0 \in 0 .. N /\ \A k \in 1 .. N : k \in 0 .. N /\ k # 0
    BY <1>1
  <2>2. QED
    BY <1>8, <2>1
<1>10. \A k \in 0 .. N : h[k] \in Passes
  <2>1. h[0] \in Passes
    BY <1>2, <1>9
  <2>2. ASSUME NEW k \in 1 .. N, h[k - 1] \in Passes PROVE h[k] \in Passes
    <3>1. h[k] = D!secondPass(h[k - 1], ms[k]) /\ ms[k] \in Sane
      BY <1>1, <1>9
    <3>2. QED
      BY <2>2, <3>1, PassType
  <2>3. QED
    BY <1>1, <2>1, <2>2, UpStays
<1>11. QED
  BY <1>7, <1>9, <1>10 DEF N

\* A list up to k + 1.
LEMMA PrefixOn ==
  ASSUME NEW V, NEW ms \in Seq(V), NEW k \in Nat, k + 1 <= Len(ms)
  PROVE  /\ SubSeq(ms, 1, 0) = <<>>
         /\ SubSeq(ms, 1, k) \in Seq(V)
         /\ SubSeq(ms, 1, k + 1) = Append(SubSeq(ms, 1, k), ms[k + 1])
         /\ ms[k + 1] \in V
OBVIOUS

\* What is sent after the second pass: every call has its result, in order and
\* before anything else.
LEMMA SecondPassIs ==
  ASSUME NEW ms \in Seq(Sane), OpenAt(ms, <<>>)
  PROVE  LET out == D!Passed(ms)[Len(ms)].out
         IN  /\ out \in Seq(Sendable)
             /\ WholeAt(out, <<>>)
             /\ D!Texts(out) = D!Texts(ms)
<1> DEFINE p == D!Passed(ms)
           n == Len(ms)
<1>1. PICK o : Trace(o, ms) /\ o[n] = <<>>
  BY DEF OpenAt
<1>2. /\ n \in Nat /\ o \in [0 .. n -> Seq(Nat)] /\ o[0] = <<>>
      /\ \A k \in 1 .. n : Onward(o[k - 1], ms[k], o[k]) /\ ms[k] \in Sane
  BY <1>1 DEF Trace
<1>3. /\ p[0] = D!Nothing
      /\ \A k \in 0 .. n : p[k] \in Passes
      /\ \A k \in 1 .. n : p[k] = D!secondPass(p[k - 1], ms[k])
  BY PassedAre
<1> DEFINE Good(k) == /\ WholeAt(p[k].out, o[k]) /\ Distinct(p[k].pending)
                      /\ StillOpen(p[k]) = o[k]
                      /\ D!Texts(p[k].out) = D!Texts(SubSeq(ms, 1, k))
           Z == {k \in Nat : k <= n => Good(k)}
<1> HIDE DEF p
<1>4. 0 \in Z
  <2>1. p[0].out = <<>> /\ p[0].pending = <<>>
    BY <1>3 DEF D!Nothing
  <2>2. StillOpen(p[0]) = <<>> /\ Distinct(<<>>)
    BY <2>1, OnlyEmpty DEF StillOpen, Distinct
  <2>3. SubSeq(ms, 1, 0) = <<>>
    OBVIOUS
  <2>4. Good(0)
    BY <1>2, <2>1, <2>2, <2>3, OpenEmpty
  <2>5. QED
    BY <2>4
<1>5. ASSUME NEW k \in Nat, k \in Z PROVE k + 1 \in Z
  <2>1. SUFFICES ASSUME k + 1 <= n PROVE Good(k + 1)
    OBVIOUS
  <2>2. k + 1 \in 1 .. n /\ (k + 1) - 1 = k /\ k \in 0 .. n /\ k + 1 \in 0 .. n
    BY <1>2, <2>1
  <2>3. Good(k)
    BY <1>5, <2>2
  <2> DEFINE m == ms[k + 1]
  <2>4. /\ p[k] \in Passes /\ m \in Sane /\ o[k] \in Seq(Nat) /\ o[k + 1] \in Seq(Nat)
        /\ Onward(o[k], m, o[k + 1]) /\ p[k + 1] = D!secondPass(p[k], m)
    BY <1>2, <1>3, <2>2
  <2> HIDE DEF m
  <2>5. /\ WholeAt(p[k + 1].out, o[k + 1]) /\ Distinct(p[k + 1].pending)
        /\ StillOpen(p[k + 1]) = o[k + 1]
        /\ D!Texts(p[k + 1].out)
             = IF Wrote(m) THEN D!Texts(p[k].out) + 1 ELSE D!Texts(p[k].out)
    <3>1. WholeAt(p[k].out, o[k]) /\ Distinct(p[k].pending) /\ StillOpen(p[k]) = o[k]
      BY <2>3
    <3> HIDE DEF Good, Z, n
    <3> DEFINE q == p[k]
               r == p[k + 1]
    <3>2. /\ q \in Passes /\ r = D!secondPass(q, m)
          /\ WholeAt(q.out, o[k]) /\ Distinct(q.pending) /\ StillOpen(q) = o[k]
      BY <2>4, <3>1
    <3> HIDE DEF q, r
    <3>3. /\ WholeAt(r.out, o[k + 1]) /\ Distinct(r.pending) /\ StillOpen(r) = o[k + 1]
          /\ D!Texts(r.out) = IF Wrote(m) THEN D!Texts(q.out) + 1 ELSE D!Texts(q.out)
      BY <2>4, <3>2, PassKeeps
    <3>4. QED
      BY <3>3 DEF q, r
  <2>6. D!Texts(SubSeq(ms, 1, k + 1))
          = IF Wrote(m) THEN D!Texts(SubSeq(ms, 1, k)) + 1 ELSE D!Texts(SubSeq(ms, 1, k))
    <3>1. /\ SubSeq(ms, 1, k) \in Seq(Sane) /\ m \in Sane
          /\ SubSeq(ms, 1, k + 1) = Append(SubSeq(ms, 1, k), m)
      BY <2>1, <2>4, PrefixOn DEF m
    <3>2. QED
      BY <3>1, TextsOn
  <2>7. QED
    BY <2>3, <2>5, <2>6
<1> HIDE DEF Z
<1>6. n \in Z
  BY <1>2, <1>4, <1>5, NatInduct
<1>7. Good(n)
  BY <1>2, <1>6 DEF Z
<1>8. SubSeq(ms, 1, n) = ms
  OBVIOUS
<1>9. p[n].out \in Seq(Sendable)
  BY <1>2, <1>3 DEF Passes
<1>10. QED
  BY <1>1, <1>7, <1>8, <1>9 DEF p

-----------------------------------------------------------------------------
(***************************************************************************)
(* The conversion keeps the calls paired: what it puts between, it puts    *)
(* where no call is open.                                                  *)
(***************************************************************************)
Wires ==
  [role : {"user"}, body : {"text", "image", "attached"}, ids : {<<>>}]
    \cup {w \in [role : {"assistant"}, ids : Seq(Nat),
                 body : {"text", "thinking", "both", "empty", "bridge"}] :
            /\ Distinct(w.ids)
            /\ w.ids # <<>> \/ D!hasContent(w.body) \/ w = D!Bridge}
    \cup {D!WireTool(n) : n \in Nat}

LEMMA WireFacts ==
  ASSUME NEW w \in Wires
  PROVE  /\ w.role \in {"user", "assistant", "tool"}
         /\ Answers(w) <=> w.role = "tool"
         /\ w.role = "user" => Calls(w) = <<>>
         /\ w.role = "assistant" => /\ Calls(w) = w.ids /\ w.ids \in Seq(Nat) /\ Distinct(w.ids)
                                    /\ w.ids # <<>> \/ D!hasContent(w.body) \/ w = D!Bridge
         /\ w.role = "tool" => Named(w) = w.ids[1] /\ w.ids[1] \in Nat
<1>1. CASE w \in [role : {"user"}, body : {"text", "image", "attached"}, ids : {<<>>}]
  <2>1. w.role = "user"
    BY <1>1
  <2>2. QED
    BY <2>1 DEF Answers, Calls
<1>2. CASE w \in {v \in [role : {"assistant"}, ids : Seq(Nat),
                         body : {"text", "thinking", "both", "empty", "bridge"}] :
                    /\ Distinct(v.ids)
                    /\ v.ids # <<>> \/ D!hasContent(v.body) \/ v = D!Bridge}
  <2>1. /\ w.role = "assistant" /\ w.ids \in Seq(Nat) /\ Distinct(w.ids)
        /\ w.ids # <<>> \/ D!hasContent(w.body) \/ w = D!Bridge
        /\ "stop" \notin DOMAIN w
    BY <1>2
  <2>2. QED
    BY <2>1 DEF Answers, Calls, CutShort
<1>3. CASE w \in {D!WireTool(n) : n \in Nat}
  <2>1. PICK n \in Nat : w = D!WireTool(n)
    BY <1>3
  <2>2. w.role = "tool" /\ w.ids = <<n>>
    BY <2>1 DEF D!WireTool
  <2>3. QED
    BY <2>2 DEF Answers, Named
<1>4. QED
  BY <1>1, <1>2, <1>3 DEF Wires

LEMMA WireParts ==
  /\ D!Bridge \in Wires /\ D!Bridge.role = "assistant" /\ D!Bridge.ids = <<>>
  /\ \A b \in {"text", "image", "attached"} :
       D!WireUser(b) \in Wires /\ D!WireUser(b).role = "user" /\ D!WireUser(b).body = b
  /\ \A n \in Nat : /\ D!WireTool(n) \in Wires /\ D!WireTool(n).role = "tool"
                    /\ D!WireTool(n).ids[1] = n
  /\ \A b \in {"text", "thinking", "both", "empty"}, ids \in Seq(Nat) :
       Distinct(ids) /\ (ids # <<>> \/ D!hasContent(b)) =>
         /\ D!WireAssistant(b, ids) \in Wires
         /\ D!WireAssistant(b, ids).role = "assistant"
         /\ D!WireAssistant(b, ids).ids = ids
<1>1. <<>> \in Seq(Nat) /\ Distinct(<<>>)
  BY DEF Distinct
<1>2. D!Bridge \in Wires /\ D!Bridge.role = "assistant" /\ D!Bridge.ids = <<>>
  <2>1. /\ D!Bridge \in [role : {"assistant"}, ids : Seq(Nat),
                         body : {"text", "thinking", "both", "empty", "bridge"}]
        /\ D!Bridge.role = "assistant" /\ D!Bridge.ids = <<>>
    BY <1>1 DEF D!Bridge, D!WireAssistant
  <2>2. QED
    BY <1>1, <2>1 DEF Wires
<1>3. ASSUME NEW b \in {"text", "image", "attached"}
      PROVE  D!WireUser(b) \in Wires /\ D!WireUser(b).role = "user" /\ D!WireUser(b).body = b
  BY DEF D!WireUser, Wires
<1>4. ASSUME NEW n \in Nat
      PROVE  /\ D!WireTool(n) \in Wires /\ D!WireTool(n).role = "tool"
             /\ D!WireTool(n).ids[1] = n
  BY DEF D!WireTool, Wires
<1>5. ASSUME NEW b \in {"text", "thinking", "both", "empty"}, NEW ids \in Seq(Nat),
             Distinct(ids), ids # <<>> \/ D!hasContent(b)
      PROVE  /\ D!WireAssistant(b, ids) \in Wires
             /\ D!WireAssistant(b, ids).role = "assistant"
             /\ D!WireAssistant(b, ids).ids = ids
  <2> DEFINE w == D!WireAssistant(b, ids)
  <2>1. /\ w \in [role : {"assistant"}, ids : Seq(Nat),
                  body : {"text", "thinking", "both", "empty", "bridge"}]
        /\ w.role = "assistant" /\ w.ids = ids /\ w.body = b
    BY DEF D!WireAssistant
  <2> HIDE DEF w
  <2>2. w \in Wires
    BY <1>5, <2>1 DEF Wires
  <2>3. QED
    BY <2>1, <2>2 DEF w
<1>6. QED
  BY <1>2, <1>3, <1>4, <1>5

Conversions ==
  [wire : Seq(Wires), last : {"none", "user", "assistant", "toolResult"}, images : BOOLEAN]

EndsInTool(l) == l # <<>> /\ l[Len(l)].role = "tool"
Bridged(l) ==
  model.bridges => \A i \in 2 .. Len(l) : l[i].role = "user" => l[i - 1].role # "tool"

\* r calls are open after what is sent so far.
Fits(acc, r) ==
  /\ WholeAt(acc.wire, r)
  /\ Bridged(acc.wire)
  /\ EndsInTool(acc.wire) => acc.last = "toolResult"

LEMMA WireOn ==
  ASSUME NEW l \in Seq(Wires), NEW w \in Wires, Bridged(l),
         model.bridges /\ w.role = "user" => ~ EndsInTool(l)
  PROVE  /\ Append(l, w) \in Seq(Wires)
         /\ Bridged(Append(l, w))
         /\ EndsInTool(Append(l, w)) <=> w.role = "tool"
         /\ D!Texts(Append(l, w)) = IF Wrote(w) THEN D!Texts(l) + 1 ELSE D!Texts(l)
<1> DEFINE a == Append(l, w)
           n == Len(l)
<1>1. /\ a \in Seq(Wires) /\ n \in Nat /\ Len(a) = n + 1 /\ a[n + 1] = w
      /\ \A i \in 1 .. n : a[i] = l[i]
  OBVIOUS
<1> HIDE DEF a
<1>2. Bridged(a)
  <2>1. SUFFICES ASSUME model.bridges, NEW i \in 2 .. n + 1, a[i].role = "user"
                 PROVE  a[i - 1].role # "tool"
    BY <1>1 DEF Bridged
  <2>2. CASE i = n + 1
    <3>1. w.role = "user" /\ n \in 1 .. n /\ a[i - 1] = l[n] /\ n # 0
      BY <1>1, <2>1, <2>2
    <3>2. l # <<>>
      BY <3>1
    <3>3. QED
      BY <2>1, <3>1, <3>2 DEF EndsInTool
  <2>3. CASE i # n + 1
    <3>1. i \in 2 .. n /\ i - 1 \in 1 .. n /\ i \in 1 .. n
      BY <1>1, <2>3
    <3>2. a[i] = l[i] /\ a[i - 1] = l[i - 1]
      BY <1>1, <3>1
    <3>3. QED
      BY <2>1, <3>1, <3>2 DEF Bridged
  <2>4. QED
    BY <2>2, <2>3
<1>3. EndsInTool(a) <=> w.role = "tool"
  <2>1. a # <<>> /\ a[Len(a)] = w
    BY <1>1
  <2>2. QED
    BY <2>1 DEF EndsInTool
<1>4. D!Texts(a) = IF Wrote(w) THEN D!Texts(l) + 1 ELSE D!Texts(l)
  BY TextsOn DEF a
<1>5. QED
  BY <1>1, <1>2, <1>3, <1>4 DEF a

\* What is neither a call nor a result may come when no call is open.
LEMMA WireBetween ==
  ASSUME NEW l \in Seq(Wires), NEW w \in Wires, WholeAt(l, <<>>), w.role # "tool"
  PROVE  WholeAt(Append(l, w), Calls(w))
<1>1. ~ Answers(w) /\ Calls(w) \in Seq(Nat)
  <2>1. <<>> \in Seq(Nat)
    OBVIOUS
  <2>2. QED
    BY <2>1, WireFacts
<1>2. Onward(<<>>, w, Calls(w))
  BY <1>1 DEF Onward
<1>3. QED
  BY <1>1, <1>2, WholeOn

LEMMA AfterResultsKeeps ==
  ASSUME NEW acc \in Conversions, Fits(acc, <<>>)
  PROVE  LET a == D!afterResults(acc)
         IN  /\ a \in Conversions /\ Fits(a, <<>>)
             /\ D!Texts(a.wire) = D!Texts(acc.wire)
<1> DEFINE a == D!afterResults(acc)
           u == D!WireUser("attached")
           l == acc.wire
           b == IF model.bridges THEN Append(l, D!Bridge) ELSE l
<1>1. CASE ~ acc.images
  <2>1. a = acc
    BY <1>1 DEF D!afterResults
  <2> HIDE DEF a
  <2>2. QED
    BY <2>1 DEF a
<1>2. CASE acc.images
  <2>1. l \in Seq(Wires) /\ WholeAt(l, <<>>) /\ Bridged(l)
    BY DEF Conversions, Fits
  <2>2. u \in Wires /\ u.role = "user" /\ u.body = "attached" /\ ~ Wrote(u) /\ Calls(u) = <<>>
    <3>1. u \in Wires /\ u.role = "user" /\ u.body = "attached"
      BY WireParts
    <3> HIDE DEF u
    <3>2. QED
      BY <3>1, WireFacts DEF Wrote
  <2>3. /\ D!Bridge \in Wires /\ D!Bridge.role = "assistant" /\ Calls(D!Bridge) = <<>>
        /\ ~ Wrote(D!Bridge)
    BY WireParts, WireFacts DEF Wrote
  <2> HIDE DEF u
  <2>4. /\ b \in Seq(Wires) /\ WholeAt(b, <<>>) /\ Bridged(b)
        /\ model.bridges => ~ EndsInTool(b)
        /\ D!Texts(b) = D!Texts(l)
    <3>1. CASE ~ model.bridges
      BY <2>1, <3>1
    <3>2. CASE model.bridges
      <4>1. b = Append(l, D!Bridge)
        BY <3>2
      <4> HIDE DEF l, b
      <4>2. WholeAt(Append(l, D!Bridge), <<>>)
        BY <2>1, <2>3, WireBetween
      <4>3. /\ Append(l, D!Bridge) \in Seq(Wires) /\ Bridged(Append(l, D!Bridge))
            /\ ~ EndsInTool(Append(l, D!Bridge))
            /\ D!Texts(Append(l, D!Bridge)) = D!Texts(l)
        BY <2>1, <2>3, WireOn
      <4>4. QED
        BY <4>1, <4>2, <4>3
    <3>3. QED
      BY <3>1, <3>2
  <2>5. a = [wire |-> Append(b, u), last |-> "user", images |-> FALSE]
    <3>1. l \o (IF model.bridges THEN <<D!Bridge>> ELSE <<>>) \o <<u>> = Append(b, u)
      <4>1. CASE model.bridges
        BY <2>1, <2>2, <2>3, <4>1
      <4>2. CASE ~ model.bridges
        BY <2>1, <2>2, <4>2
      <4>3. QED
        BY <4>1, <4>2
    <3>2. a = [wire |-> l \o (IF model.bridges THEN <<D!Bridge>> ELSE <<>>) \o <<u>>,
               last |-> "user", images |-> FALSE]
      BY <1>2 DEF D!afterResults, u
    <3> HIDE DEF a, b
    <3>3. QED
      BY <3>1, <3>2
  <2> HIDE DEF a, b, l
  <2>6. /\ Append(b, u) \in Seq(Wires) /\ Bridged(Append(b, u)) /\ ~ EndsInTool(Append(b, u))
        /\ D!Texts(Append(b, u)) = D!Texts(l)
    BY <2>2, <2>4, WireOn
  <2>7. WholeAt(Append(b, u), <<>>)
    BY <2>2, <2>4, WireBetween
  <2>8. QED
    BY <2>5, <2>6, <2>7 DEF Conversions, Fits, a, l
<1>3. QED
  BY <1>1, <1>2

LEMMA BridgedKeeps ==
  ASSUME NEW acc \in Conversions, Fits(acc, <<>>)
  PROVE  LET a == D!bridged(acc)
         IN  /\ a \in Conversions /\ Fits(a, <<>>)
             /\ model.bridges => ~ EndsInTool(a.wire)
             /\ D!Texts(a.wire) = D!Texts(acc.wire)
<1> DEFINE a == D!bridged(acc)
<1>1. CASE ~ (model.bridges /\ acc.last = "toolResult")
  <2>1. a = acc
    BY <1>1 DEF D!bridged
  <2>2. model.bridges => ~ EndsInTool(acc.wire)
    BY <1>1 DEF Fits
  <2> HIDE DEF a
  <2>3. QED
    BY <2>1, <2>2 DEF a
<1>2. CASE model.bridges /\ acc.last = "toolResult"
  <2> DEFINE w == Append(acc.wire, D!Bridge)
  <2>1. acc.wire \in Seq(Wires) /\ WholeAt(acc.wire, <<>>) /\ Bridged(acc.wire)
    BY DEF Conversions, Fits
  <2>2. /\ D!Bridge \in Wires /\ D!Bridge.role = "assistant" /\ Calls(D!Bridge) = <<>>
        /\ ~ Wrote(D!Bridge)
    BY WireParts, WireFacts DEF Wrote
  <2>3. /\ w \in Seq(Wires) /\ Bridged(w) /\ ~ EndsInTool(w)
        /\ D!Texts(w) = D!Texts(acc.wire)
    BY <2>1, <2>2, WireOn
  <2>4. WholeAt(w, <<>>)
    BY <2>1, <2>2, WireBetween
  <2>5. a = [acc EXCEPT !.wire = w]
    BY <1>2 DEF D!bridged
  <2> HIDE DEF w
  <2>6. [acc EXCEPT !.wire = w] \in Conversions /\ [acc EXCEPT !.wire = w].wire = w
    BY <2>3 DEF Conversions
  <2> HIDE DEF a
  <2>7. QED
    BY <2>3, <2>4, <2>5, <2>6 DEF Fits, a
<1>3. QED
  BY <1>1, <1>2

LEMMA AddIs ==
  ASSUME NEW acc \in Conversions, NEW w, Append(acc.wire, w) \in Seq(Wires),
         NEW l \in {"user", "assistant", "toolResult"}
  PROVE  /\ D!Add(acc, w, l) \in Conversions
         /\ D!Add(acc, w, l).wire = Append(acc.wire, w)
         /\ D!Add(acc, w, l).last = l
<1> DEFINE x == Append(acc.wire, w)
<1>1. D!Add(acc, w, l) = [acc EXCEPT !.wire = x, !.last = l]
  BY DEF D!Add
<1>2. x \in Seq(Wires)
  OBVIOUS
<1> HIDE DEF x
<1>3. /\ [acc EXCEPT !.wire = x, !.last = l] \in Conversions
      /\ [acc EXCEPT !.wire = x, !.last = l].wire = x
      /\ [acc EXCEPT !.wire = x, !.last = l].last = l
  BY <1>2 DEF Conversions
<1>4. QED
  BY <1>1, <1>3 DEF x

\* One message more.
LEMMA ConvertKeeps ==
  ASSUME NEW acc \in Conversions, NEW m \in Sendable, NEW r \in Seq(Nat), NEW r2 \in Seq(Nat),
         Onward(r, m, r2), ~ Answers(m) => r = <<>>, Fits(acc, r)
  PROVE  LET next == D!convert(acc, m)
         IN  /\ next \in Conversions /\ Fits(next, r2)
             /\ D!Texts(next.wire)
                  = IF Wrote(m) THEN D!Texts(acc.wire) + 1 ELSE D!Texts(acc.wire)
<1> DEFINE next == D!convert(acc, m)
<1>1. m \in InContext /\ m \in Sane
  BY DEF Sendable, Sane
<1>2. CASE m.role = "user"
  <2> DEFINE a == D!bridged(D!afterResults(acc))
             w == D!WireUser(m.body)
  <2>1. m \in Users /\ ~ Answers(m) /\ Calls(m) = <<>>
    BY <1>1, <1>2, MessageFacts
  <2>2. r = <<>> /\ r2 = <<>>
    BY <2>1 DEF Onward
  <2>3. /\ a \in Conversions /\ Fits(a, <<>>)
        /\ model.bridges => ~ EndsInTool(a.wire)
        /\ D!Texts(a.wire) = D!Texts(acc.wire)
    <3>1. /\ D!afterResults(acc) \in Conversions /\ Fits(D!afterResults(acc), <<>>)
          /\ D!Texts(D!afterResults(acc).wire) = D!Texts(acc.wire)
      BY <2>2, AfterResultsKeeps
    <3>2. QED
      BY <3>1, BridgedKeeps
  <2>4. m.body \in {"text", "image"}
    BY <2>1 DEF Users
  <2>5. next = IF m.body = "image" /\ ~ model.images THEN a ELSE D!Add(a, w, "user")
    BY <1>2 DEF D!convert
  <2>6. w \in Wires /\ w.role = "user" /\ w.body = m.body /\ Calls(w) = <<>>
    <3>1. w \in Wires /\ w.role = "user" /\ w.body = m.body
      BY <2>4, WireParts
    <3> HIDE DEF w
    <3>2. QED
      BY <3>1, WireFacts
  <2> HIDE DEF a, w, next
  <2>7. CASE m.body = "image" /\ ~ model.images
    <3>1. next = a /\ ~ Wrote(m)
      BY <2>5, <2>7 DEF Wrote
    <3>2. QED
      BY <2>2, <2>3, <3>1 DEF next
  <2>8. CASE ~ (m.body = "image" /\ ~ model.images)
    <3>1. next = D!Add(a, w, "user")
      BY <2>5, <2>8
    <3>2. a.wire \in Seq(Wires) /\ WholeAt(a.wire, <<>>) /\ Bridged(a.wire)
      BY <2>3 DEF Conversions, Fits
    <3>3. /\ Append(a.wire, w) \in Seq(Wires) /\ Bridged(Append(a.wire, w))
          /\ ~ EndsInTool(Append(a.wire, w))
          /\ D!Texts(Append(a.wire, w)) = IF Wrote(w) THEN D!Texts(a.wire) + 1 ELSE D!Texts(a.wire)
      BY <2>3, <2>6, <3>2, WireOn
    <3>4. WholeAt(Append(a.wire, w), <<>>)
      BY <2>6, <3>2, WireBetween
    <3>5. Wrote(w) <=> Wrote(m)
      BY <1>2, <2>6 DEF Wrote
    <3>6. next \in Conversions /\ next.wire = Append(a.wire, w)
      BY <2>3, <3>1, <3>3, AddIs
    <3>7. QED
      BY <2>2, <2>3, <3>3, <3>4, <3>5, <3>6 DEF Fits, next
  <2>9. QED
    BY <2>7, <2>8
<1>3. CASE m.role = "assistant"
  <2> DEFINE a == D!afterResults(acc)
             w == D!WireAssistant(m.body, m.ids)
  <2>1. /\ m \in Said /\ ~ Answers(m) /\ m.ids \in Seq(Nat) /\ Distinct(m.ids)
        /\ Calls(m) = m.ids /\ ~ Wrote(m)
    <3>1. m.stop \notin {"error", "aborted"} /\ Distinct(m.ids)
      BY <1>3 DEF Sendable, Sane
    <3>2. /\ m \in Said /\ ~ Answers(m) /\ m.ids \in Seq(Nat) /\ ~ CutShort(m)
      BY <1>1, <1>3, <3>1, MessageFacts
    <3>3. QED
      BY <1>3, <3>1, <3>2 DEF Calls, Wrote
  <2>2. r = <<>> /\ r2 = m.ids
    BY <2>1 DEF Onward
  <2>3. /\ a \in Conversions /\ Fits(a, <<>>) /\ D!Texts(a.wire) = D!Texts(acc.wire)
    BY <2>2, AfterResultsKeeps
  <2>4. next = IF D!hasContent(m.body) \/ m.ids # <<>> THEN D!Add(a, w, "assistant") ELSE a
    BY <1>3 DEF D!convert
  <2>5. m.body \in {"text", "thinking", "both", "empty"}
    BY <2>1 DEF Said
  <2>6. ASSUME D!hasContent(m.body) \/ m.ids # <<>>
        PROVE  w \in Wires /\ w.role = "assistant" /\ Calls(w) = m.ids /\ ~ Wrote(w)
    <3>1. w \in Wires /\ w.role = "assistant" /\ w.ids = m.ids
      BY <2>1, <2>5, <2>6, WireParts
    <3> HIDE DEF w
    <3>2. QED
      BY <3>1, WireFacts DEF Wrote
  <2> HIDE DEF a, w, next
  <2>7. CASE D!hasContent(m.body) \/ m.ids # <<>>
    <3>1. next = D!Add(a, w, "assistant")
      BY <2>4, <2>7
    <3>2. a.wire \in Seq(Wires) /\ WholeAt(a.wire, <<>>) /\ Bridged(a.wire)
      BY <2>3 DEF Conversions, Fits
    <3>3. /\ Append(a.wire, w) \in Seq(Wires) /\ Bridged(Append(a.wire, w))
          /\ ~ EndsInTool(Append(a.wire, w))
          /\ D!Texts(Append(a.wire, w)) = D!Texts(a.wire)
      BY <2>6, <2>7, <3>2, WireOn
    <3>4. WholeAt(Append(a.wire, w), m.ids)
      <4>1. WholeAt(Append(a.wire, w), Calls(w))
        BY <2>6, <2>7, <3>2, WireBetween
      <4>2. QED
        BY <2>6, <2>7, <4>1
    <3>5. next \in Conversions /\ next.wire = Append(a.wire, w)
      BY <2>3, <3>1, <3>3, AddIs
    <3>6. QED
      BY <2>1, <2>2, <2>3, <3>3, <3>4, <3>5 DEF Fits, next
  <2>8. CASE ~ (D!hasContent(m.body) \/ m.ids # <<>>)
    BY <2>1, <2>2, <2>3, <2>4, <2>8 DEF next
  <2>9. QED
    BY <2>7, <2>8
<1>4. CASE m.role = "toolResult"
  <2> DEFINE w == D!WireTool(m.id)
             a == D!Add(acc, w, "toolResult")
  <2>1. Answers(m) /\ Named(m) = m.id /\ m.id \in Nat /\ ~ Wrote(m)
    BY <1>1, <1>4, MessageFacts DEF Wrote
  <2>2. r # <<>> /\ Head(r) = m.id /\ r2 = Tail(r)
    BY <2>1 DEF Onward
  <2>3. /\ w \in Wires /\ w.role = "tool" /\ Answers(w) /\ Named(w) = m.id /\ ~ Wrote(w)
    <3>1. w \in Wires /\ w.role = "tool" /\ w.ids[1] = m.id
      BY <2>1, WireParts
    <3> HIDE DEF w
    <3>2. QED
      BY <3>1, WireFacts DEF Wrote
  <2>4. next = [a EXCEPT !.images = acc.images \/ (m.image /\ model.images)]
    <3>1. next = [a EXCEPT !.images = a.images \/ (m.image /\ model.images)]
      BY <1>4 DEF D!convert
    <3>2. a.images = acc.images
      BY DEF D!Add, Conversions
    <3> HIDE DEF a, next
    <3>3. QED
      BY <3>1, <3>2
  <2> HIDE DEF w
  <2>5. acc.wire \in Seq(Wires) /\ WholeAt(acc.wire, r) /\ Bridged(acc.wire)
    BY DEF Conversions, Fits
  <2>6. /\ Append(acc.wire, w) \in Seq(Wires) /\ Bridged(Append(acc.wire, w))
        /\ D!Texts(Append(acc.wire, w)) = D!Texts(acc.wire)
    BY <2>3, <2>5, WireOn
  <2>7. WholeAt(Append(acc.wire, w), r2)
    <3>1. Onward(r, w, r2)
      BY <2>2, <2>3 DEF Onward
    <3>2. QED
      BY <2>3, <2>5, <3>1, WholeOn
  <2>8. a \in Conversions /\ a.wire = Append(acc.wire, w) /\ a.last = "toolResult"
    BY <2>6, AddIs
  <2> HIDE DEF a, next
  <2>9. next \in Conversions /\ next.wire = a.wire /\ next.last = a.last
    <3> DEFINE i == acc.images \/ (m.image /\ model.images)
    <3>1. i \in BOOLEAN
      OBVIOUS
    <3> HIDE DEF i
    <3>2. next = [a EXCEPT !.images = i]
      BY <2>4 DEF i
    <3>3. QED
      BY <2>8, <3>1, <3>2 DEF Conversions
  <2>10. QED
    BY <2>1, <2>6, <2>7, <2>8, <2>9 DEF Fits, next
<1>5. QED
  BY <1>1, <1>2, <1>3, <1>4, MessageFacts

ConversionsOf(f, ms) ==
  f = [k \in 0 .. Len(ms) |-> IF k = 0 THEN D!NoWire ELSE D!convert(f[k - 1], ms[k])]

LEMMA ConvertType ==
  ASSUME NEW acc \in Conversions, NEW m \in Sendable
  PROVE  D!convert(acc, m) \in Conversions
<1>1. m \in InContext /\ m \in Sane
  BY DEF Sendable, Sane
<1>2. ASSUME NEW a \in Conversions PROVE D!afterResults(a) \in Conversions
  <2> DEFINE u == D!WireUser("attached")
             l == a.wire \o (IF model.bridges THEN <<D!Bridge>> ELSE <<>>) \o <<u>>
  <2>1. a.wire \in Seq(Wires) /\ u \in Wires /\ D!Bridge \in Wires
    BY WireParts DEF Conversions
  <2>2. D!afterResults(a)
          = IF ~ a.images THEN a ELSE [wire |-> l, last |-> "user", images |-> FALSE]
    BY DEF D!afterResults
  <2> HIDE DEF u
  <2>3. l \in Seq(Wires)
    BY <2>1
  <2> HIDE DEF l
  <2>4. [wire |-> l, last |-> "user", images |-> FALSE] \in Conversions
    BY <2>3 DEF Conversions
  <2>5. QED
    BY <2>2, <2>4
<1>3. ASSUME NEW a \in Conversions PROVE D!bridged(a) \in Conversions
  <2> DEFINE l == Append(a.wire, D!Bridge)
  <2>1. l \in Seq(Wires)
    BY WireParts DEF Conversions
  <2>2. D!bridged(a) = IF model.bridges /\ a.last = "toolResult" THEN [a EXCEPT !.wire = l] ELSE a
    BY DEF D!bridged
  <2> HIDE DEF l
  <2>3. [a EXCEPT !.wire = l] \in Conversions
    BY <2>1 DEF Conversions
  <2>4. QED
    BY <2>2, <2>3
<1>4. ASSUME NEW a \in Conversions, NEW w \in Wires, NEW l \in {"user", "assistant", "toolResult"}
      PROVE  D!Add(a, w, l) \in Conversions
  <2>1. Append(a.wire, w) \in Seq(Wires)
    BY DEF Conversions
  <2>2. QED
    BY <2>1, AddIs
<1>5. CASE m.role = "user"
  <2> DEFINE a == D!bridged(D!afterResults(acc))
             w == D!WireUser(m.body)
  <2>1. a \in Conversions
    BY <1>2, <1>3
  <2>2. m.body \in {"text", "image"}
    BY <1>1, <1>5, MessageFacts DEF Users
  <2>3. w \in Wires
    BY <2>2, WireParts
  <2>4. D!convert(acc, m) = IF m.body = "image" /\ ~ model.images THEN a ELSE D!Add(a, w, "user")
    BY <1>5 DEF D!convert
  <2> HIDE DEF a, w
  <2>5. QED
    BY <1>4, <2>1, <2>3, <2>4
<1>6. CASE m.role = "assistant"
  <2> DEFINE a == D!afterResults(acc)
             w == D!WireAssistant(m.body, m.ids)
  <2>1. a \in Conversions
    BY <1>2
  <2>2. m.ids \in Seq(Nat) /\ Distinct(m.ids) /\ m.body \in {"text", "thinking", "both", "empty"}
    BY <1>1, <1>6, MessageFacts DEF Said, Sane
  <2>3. D!hasContent(m.body) \/ m.ids # <<>> => w \in Wires
    BY <2>2, WireParts
  <2>4. D!convert(acc, m) = IF D!hasContent(m.body) \/ m.ids # <<>>
                              THEN D!Add(a, w, "assistant") ELSE a
    BY <1>6 DEF D!convert
  <2> HIDE DEF a, w
  <2>5. QED
    BY <1>4, <2>1, <2>3, <2>4
<1>7. CASE m.role = "toolResult"
  <2> DEFINE a == D!Add(acc, D!WireTool(m.id), "toolResult")
             i == a.images \/ (m.image /\ model.images)
  <2>1. D!WireTool(m.id) \in Wires
    BY <1>1, <1>7, MessageFacts, WireParts
  <2>2. a \in Conversions
    BY <1>4, <2>1
  <2>3. i \in BOOLEAN
    OBVIOUS
  <2>4. D!convert(acc, m) = [a EXCEPT !.images = i]
    BY <1>7 DEF D!convert
  <2> HIDE DEF a, i
  <2>5. QED
    BY <2>2, <2>3, <2>4 DEF Conversions
<1>8. QED
  BY <1>1, <1>5, <1>6, <1>7, MessageFacts

LEMMA ConvertedAre ==
  ASSUME NEW ms \in Seq(Sendable)
  PROVE  /\ D!Converted(ms)[0] = D!NoWire
         /\ \A k \in 1 .. Len(ms) :
              D!Converted(ms)[k] = D!convert(D!Converted(ms)[k - 1], ms[k])
<1> DEFINE N == Len(ms)
           g == [k \in 1 .. N |-> [x \in Conversions |-> D!convert(x, ms[k])]]
<1>1. N \in Nat /\ \A k \in 1 .. N : ms[k] \in Sendable
  OBVIOUS
<1>2. D!NoWire \in Conversions
  <2>1. <<>> \in Seq(Wires)
    OBVIOUS
  <2>2. QED
    BY <2>1 DEF D!NoWire, Conversions
<1> HIDE DEF N
<1>3. g \in [1 .. N -> [Conversions -> Conversions]]
  BY <1>1, ConvertType
<1>4. \A k \in 1 .. N, x \in Conversions : g[k][x] = D!convert(x, ms[k])
  OBVIOUS
<1> HIDE DEF g
<1>5. PICK f \in [0 .. N -> Conversions] : GoesUp(f, N, D!NoWire, g)
  BY <1>1, <1>2, <1>3, RunUp
<1>6. ConversionsOf(f, ms)
  <2>1. ASSUME NEW k \in 0 .. N
        PROVE  f[k] = IF k = 0 THEN D!NoWire ELSE D!convert(f[k - 1], ms[k])
    <3>1. CASE k = 0
      BY <1>5, <3>1 DEF GoesUp
    <3>2. CASE k # 0
      <4>1. k \in 1 .. N /\ k - 1 \in 0 .. N
        BY <1>1, <3>2
      <4>2. f[k] = g[k][f[k - 1]] /\ f[k - 1] \in Conversions
        BY <1>5, <4>1 DEF GoesUp
      <4>3. QED
        BY <1>4, <3>2, <4>1, <4>2
    <3>3. QED
      BY <3>1, <3>2
  <2>2. f = [k \in 0 .. N |-> IF k = 0 THEN D!NoWire ELSE D!convert(f[k - 1], ms[k])]
    BY <2>1
  <2>3. QED
    BY <2>2 DEF ConversionsOf, N
<1>7. PICK h : ConversionsOf(h, ms) /\ D!Converted(ms) = h
  <2>1. D!Converted(ms) = CHOOSE h : ConversionsOf(h, ms)
    BY DEF D!Converted, ConversionsOf
  <2>2. QED
    BY <1>6, <2>1
<1>8. h = [k \in 0 .. N |-> IF k = 0 THEN D!NoWire ELSE D!convert(h[k - 1], ms[k])]
  BY <1>7 DEF ConversionsOf, N
<1>9. h[0] = D!NoWire /\ \A k \in 1 .. N : h[k] = D!convert(h[k - 1], ms[k])
  <2>1. 0 \in 0 .. N /\ \A k \in 1 .. N : k \in 0 .. N /\ k # 0
    BY <1>1
  <2>2. QED
    BY <1>8, <2>1
<1>10. QED
  BY <1>7, <1>9 DEF N

\* A conversation in which every call has its result is sent as one.
LEMMA ConversionIs ==
  ASSUME NEW ms \in Seq(Sendable), WholeAt(ms, <<>>)
  PROVE  LET acc == D!Converted(ms)[Len(ms)]
         IN  /\ acc \in Conversions /\ Fits(acc, <<>>)
             /\ D!Texts(acc.wire) = D!Texts(ms)
<1> DEFINE p == D!Converted(ms)
           n == Len(ms)
<1>1. PICK o : Trace(o, ms) /\ InTurn(o, ms) /\ o[n] = <<>>
  BY DEF WholeAt
<1>2. /\ n \in Nat /\ o \in [0 .. n -> Seq(Nat)] /\ o[0] = <<>>
      /\ \A k \in 1 .. n : /\ Onward(o[k - 1], ms[k], o[k]) /\ ms[k] \in Sendable
                           /\ ~ Answers(ms[k]) => o[k - 1] = <<>>
  BY <1>1 DEF Trace, InTurn
<1>3. p[0] = D!NoWire /\ \A k \in 1 .. n : p[k] = D!convert(p[k - 1], ms[k])
  BY ConvertedAre
<1> DEFINE Good(k) == /\ p[k] \in Conversions /\ Fits(p[k], o[k])
                      /\ D!Texts(p[k].wire) = D!Texts(SubSeq(ms, 1, k))
           Z == {k \in Nat : k <= n => Good(k)}
<1> HIDE DEF p
<1>4. 0 \in Z
  <2>1. p[0].wire = <<>>
    BY <1>3 DEF D!NoWire
  <2>2. p[0] \in Conversions
    <3>1. <<>> \in Seq(Wires)
      OBVIOUS
    <3>2. QED
      BY <1>3, <3>1 DEF D!NoWire, Conversions
  <2>3. SubSeq(ms, 1, 0) = <<>> /\ Len(<<>>) = 0
    OBVIOUS
  <2>4. Fits(p[0], <<>>)
    BY <2>1, <2>3, OpenEmpty DEF Fits, Bridged, EndsInTool
  <2>5. Good(0)
    BY <1>2, <2>1, <2>2, <2>3, <2>4
  <2>6. QED
    BY <2>5
<1>5. ASSUME NEW k \in Nat, k \in Z PROVE k + 1 \in Z
  <2>1. SUFFICES ASSUME k + 1 <= n PROVE Good(k + 1)
    OBVIOUS
  <2>2. k + 1 \in 1 .. n /\ (k + 1) - 1 = k /\ k \in 0 .. n /\ k + 1 \in 0 .. n
    BY <1>2, <2>1
  <2>3. Good(k)
    BY <1>5, <2>2
  <2> DEFINE m == ms[k + 1]
  <2>4. /\ m \in Sendable /\ o[k] \in Seq(Nat) /\ o[k + 1] \in Seq(Nat)
        /\ Onward(o[k], m, o[k + 1]) /\ p[k + 1] = D!convert(p[k], m)
        /\ ~ Answers(m) => o[k] = <<>>
    <3>1. p[k + 1] = D!convert(p[(k + 1) - 1], ms[k + 1])
      BY <1>3, <2>2
    <3>2. /\ ms[k + 1] \in Sendable /\ Onward(o[(k + 1) - 1], ms[k + 1], o[k + 1])
          /\ ~ Answers(ms[k + 1]) => o[(k + 1) - 1] = <<>>
      BY <1>2, <2>2
    <3>3. o[k] \in Seq(Nat) /\ o[k + 1] \in Seq(Nat)
      BY <1>2, <2>2
    <3>4. QED
      BY <2>2, <3>1, <3>2, <3>3
  <2> HIDE DEF m
  <2>5. /\ p[k + 1] \in Conversions /\ Fits(p[k + 1], o[k + 1])
        /\ D!Texts(p[k + 1].wire)
             = IF Wrote(m) THEN D!Texts(p[k].wire) + 1 ELSE D!Texts(p[k].wire)
    BY <2>3, <2>4, ConvertKeeps
  <2>6. D!Texts(SubSeq(ms, 1, k + 1))
          = IF Wrote(m) THEN D!Texts(SubSeq(ms, 1, k)) + 1 ELSE D!Texts(SubSeq(ms, 1, k))
    <3>1. /\ SubSeq(ms, 1, k) \in Seq(Sendable) /\ m \in Sendable
          /\ SubSeq(ms, 1, k + 1) = Append(SubSeq(ms, 1, k), m)
      BY <2>1, <2>4, PrefixOn DEF m
    <3>2. QED
      BY <3>1, TextsOn
  <2>7. QED
    BY <2>3, <2>5, <2>6
<1> HIDE DEF Z
<1>6. n \in Z
  BY <1>2, <1>4, <1>5, NatInduct
<1>7. Good(n)
  BY <1>2, <1>6 DEF Z
<1>8. SubSeq(ms, 1, n) = ms
  OBVIOUS
<1>9. QED
  BY <1>1, <1>7, <1>8 DEF p

-----------------------------------------------------------------------------
(***************************************************************************)
(* What is sent: each call with its result directly after it.              *)
(***************************************************************************)
LEMMA RestOf ==
  ASSUME NEW V, NEW s \in Seq(V), NEW c \in Nat, c + 1 <= Len(s)
  PROVE  /\ SubSeq(s, c + 1, Len(s)) # <<>>
         /\ Head(SubSeq(s, c + 1, Len(s))) = s[c + 1]
         /\ Tail(SubSeq(s, c + 1, Len(s))) = SubSeq(s, (c + 1) + 1, Len(s))
<1>1. Len(SubSeq(s, c + 1, Len(s))) = Len(s) - c /\ SubSeq(s, c + 1, Len(s)) \in Seq(V)
  OBVIOUS
<1>2. SubSeq(s, c + 1, Len(s)) # <<>>
  <2>1. Len(s) \in Nat /\ Len(s) - c # 0
    OBVIOUS
  <2> DEFINE r == SubSeq(s, c + 1, Len(s))
  <2>2. r \in Seq(V) /\ Len(r) # 0
    BY <1>1, <2>1
  <2> HIDE DEF r
  <2>3. r # <<>>
    BY <2>2
  <2>4. QED
    BY <2>3 DEF r
<1>3. Head(SubSeq(s, c + 1, Len(s))) = s[c + 1]
  BY <1>2
<1>4. Tail(SubSeq(s, c + 1, Len(s))) = SubSeq(s, (c + 1) + 1, Len(s))
  BY <1>1, <1>2
<1>5. QED
  BY <1>2, <1>3, <1>4

\* The answers to a message are as many as its calls, in their order.
LEMMA AnswersFollow ==
  ASSUME NEW w \in Seq(Wires), NEW q, Trace(q, w), InTurn(q, w), q[Len(w)] = <<>>,
         NEW i \in 1 .. Len(w), w[i].role = "assistant"
  PROVE  LET l == Len(w[i].ids)
         IN  /\ D!AnswersTo(w, i) = i + 1 .. i + l
             /\ \A c \in 1 .. l : w[i + c].ids[1] = w[i].ids[c]
<1> DEFINE n == Len(w)
           ids == w[i].ids
           l == Len(ids)
<1>1. /\ n \in Nat /\ q \in [0 .. n -> Seq(Nat)]
      /\ \A k \in 1 .. n : /\ w[k] \in Wires
                           /\ Onward(q[k - 1], w[k], q[k])
                           /\ ~ Answers(w[k]) => q[k - 1] = <<>>
  BY DEF Trace, InTurn
<1>2. /\ \A k \in 1 .. n : /\ Answers(w[k]) <=> w[k].role = "tool"
                           /\ w[k].role = "tool" => Named(w[k]) = w[k].ids[1]
  BY <1>1, WireFacts
<1>3. ids \in Seq(Nat) /\ l \in Nat /\ q[i] = ids
  <2>1. Calls(w[i]) = w[i].ids /\ w[i].ids \in Seq(Nat) /\ ~ Answers(w[i])
    BY <1>1, WireFacts
  <2>2. q[i] = Calls(w[i])
    BY <1>1, <2>1 DEF Onward
  <2>3. QED
    BY <2>1, <2>2
<1> HIDE DEF ids, l
<1>4. i \in Nat /\ i <= n /\ i >= 1 /\ q[n] = <<>>
  OBVIOUS
<1> HIDE DEF n
<1> DEFINE Good(c) == /\ i + c <= n /\ q[i + c] = SubSeq(ids, c + 1, l)
                      /\ \A d \in 1 .. c : w[i + d].role = "tool" /\ w[i + d].ids[1] = ids[d]
           Z == {c \in Nat : c <= l => Good(c)}
<1>5. 0 \in Z
  <2>1. SubSeq(ids, 1, l) = ids
    BY <1>3 DEF l
  <2>2. i + 0 = i /\ 0 + 1 = 1 /\ 1 .. 0 = {}
    BY <1>4
  <2>3. Good(0)
    BY <1>3, <1>4, <2>1, <2>2
  <2>4. QED
    BY <2>3
<1>6. ASSUME NEW c \in Nat, c \in Z PROVE c + 1 \in Z
  <2>1. SUFFICES ASSUME c + 1 <= l PROVE Good(c + 1)
    OBVIOUS
  <2>2. c <= l
    BY <1>3, <2>1
  <2>3. Good(c)
    BY <1>6, <2>2
  <2> DEFINE r == SubSeq(ids, c + 1, l)
  <2>4. /\ r # <<>> /\ Head(r) = ids[c + 1] /\ Tail(r) = SubSeq(ids, (c + 1) + 1, l)
    BY <1>3, <2>1, RestOf DEF l
  <2> HIDE DEF r
  <2>5. q[i + c] = r /\ i + c <= n
    BY <2>3 DEF r
  <2>6. i + c # n
    BY <1>4, <2>4, <2>5
  <2> DEFINE k == (i + c) + 1
  <2>7. k \in 1 .. n /\ k - 1 = i + c /\ k = i + (c + 1)
    BY <1>1, <1>4, <2>5, <2>6
  <2> HIDE DEF k
  <2>8. Answers(w[k])
    BY <1>1, <2>4, <2>5, <2>7
  <2>9. w[k].role = "tool" /\ Named(w[k]) = w[k].ids[1]
    BY <1>2, <2>7, <2>8
  <2>10. Head(r) = Named(w[k]) /\ q[k] = Tail(r)
    <3>1. Onward(r, w[k], q[k])
      BY <1>1, <2>5, <2>7
    <3>2. QED
      BY <2>8, <3>1 DEF Onward
  <2>11. i + (c + 1) <= n /\ q[i + (c + 1)] = SubSeq(ids, (c + 1) + 1, l)
    <3>1. k <= n
      BY <1>1, <2>7
    <3>2. q[k] = SubSeq(ids, (c + 1) + 1, l)
      BY <2>4, <2>10
    <3>3. QED
      BY <2>7, <3>1, <3>2
  <2>12. ASSUME NEW d \in 1 .. c + 1
         PROVE  w[i + d].role = "tool" /\ w[i + d].ids[1] = ids[d]
    <3>1. CASE d = c + 1
      BY <2>4, <2>7, <2>9, <2>10, <3>1
    <3>2. CASE d # c + 1
      <4>1. d \in 1 .. c
        BY <3>2
      <4>2. QED
        BY <2>3, <4>1
    <3>3. QED
      BY <3>1, <3>2
  <2>13. QED
    BY <2>11, <2>12
<1> HIDE DEF Z
<1>7. l \in Z
  BY <1>3, <1>5, <1>6, NatInduct
<1>8. Good(l)
  BY <1>3, <1>7 DEF Z
<1>9. q[i + l] = <<>>
  <2>1. SubSeq(ids, l + 1, l) = <<>>
    BY <1>3
  <2>2. QED
    BY <1>8, <2>1
<1>10. i + l < n => w[(i + l) + 1].role # "tool"
  <2>1. SUFFICES ASSUME i + l < n PROVE w[(i + l) + 1].role # "tool"
    OBVIOUS
  <2> DEFINE k == (i + l) + 1
  <2>2. k \in 1 .. n /\ k - 1 = i + l
    BY <1>1, <1>3, <1>4, <2>1
  <2> HIDE DEF k
  <2>3. Onward(<<>>, w[k], q[k])
    BY <1>1, <1>9, <2>2
  <2>4. ~ Answers(w[k])
    BY <2>3 DEF Onward
  <2>5. QED
    BY <1>2, <2>2, <2>4 DEF k
<1>11. \A j \in i + 1 .. i + l : j \in i + 1 .. n /\ w[j].role = "tool"
  <2>1. ASSUME NEW j \in i + 1 .. i + l PROVE j \in i + 1 .. n /\ w[j].role = "tool"
    <3>1. j - i \in 1 .. l /\ i + (j - i) = j /\ j \in i + 1 .. n
      BY <1>1, <1>3, <1>4, <1>8
    <3>2. QED
      BY <1>8, <3>1
  <2>2. QED
    BY <2>1
<1>12. D!AnswersTo(w, i) = i + 1 .. i + l
  <2>1. ASSUME NEW j \in i + 1 .. i + l PROVE j \in D!AnswersTo(w, i)
    <3>1. \A k \in i + 1 .. j : k \in i + 1 .. i + l
      BY <1>3, <1>4
    <3>2. QED
      BY <1>11, <3>1 DEF D!AnswersTo, n
  <2>2. ASSUME NEW j \in D!AnswersTo(w, i) PROVE j \in i + 1 .. i + l
    <3>1. j \in i + 1 .. n /\ \A k \in i + 1 .. j : w[k].role = "tool"
      BY DEF D!AnswersTo, n
    <3>2. SUFFICES ASSUME j > i + l PROVE FALSE
      BY <1>1, <1>3, <1>4, <3>1
    <3>3. (i + l) + 1 \in i + 1 .. j /\ i + l < n
      BY <1>1, <1>3, <1>4, <3>1, <3>2
    <3>4. QED
      BY <1>10, <3>1, <3>3
  <2>3. QED
    BY <2>1, <2>2
<1>13. QED
  BY <1>8, <1>12 DEF ids, l

\* While a call is open, only results come after its message.
LEMMA OpenSince ==
  ASSUME NEW w \in Seq(Wires), NEW q, Trace(q, w)
  PROVE  \A j \in 0 .. Len(w) : q[j] # <<>> =>
           \E i \in 1 .. j : /\ w[i].role = "assistant"
                             /\ \A k \in i + 1 .. j : w[k].role = "tool"
<1> DEFINE n == Len(w)
           Since(j) == \E i \in 1 .. j : /\ w[i].role = "assistant"
                                         /\ \A k \in i + 1 .. j : w[k].role = "tool"
           Z == {j \in Nat : j <= n => (q[j] # <<>> => Since(j))}
<1>1. /\ n \in Nat /\ q[0] = <<>>
      /\ \A k \in 1 .. n : w[k] \in Wires /\ Onward(q[k - 1], w[k], q[k])
  BY DEF Trace
<1> HIDE DEF n
<1>2. 0 \in Z
  BY <1>1
<1>3. ASSUME NEW j \in Nat, j \in Z PROVE j + 1 \in Z
  <2> DEFINE m == w[j + 1]
  <2>1. SUFFICES ASSUME j + 1 <= n, q[j + 1] # <<>> PROVE Since(j + 1)
    OBVIOUS
  <2>2. j + 1 \in 1 .. n /\ (j + 1) - 1 = j /\ j <= n
    BY <1>1, <2>1
  <2>3. m \in Wires /\ Onward(q[j], m, q[j + 1])
    <3>1. w[j + 1] \in Wires /\ Onward(q[(j + 1) - 1], w[j + 1], q[j + 1])
      BY <1>1, <2>2
    <3>2. QED
      BY <2>2, <3>1
  <2> HIDE DEF m
  <2>4. CASE Answers(m)
    <3>1. q[j] # <<>> /\ m.role = "tool"
      BY <2>3, <2>4, WireFacts DEF Onward
    <3>2. PICK i \in 1 .. j : w[i].role = "assistant" /\ \A k \in i + 1 .. j : w[k].role = "tool"
      BY <1>3, <2>2, <3>1
    <3>3. \A k \in i + 1 .. j + 1 : k \in i + 1 .. j \/ k = j + 1
      OBVIOUS
    <3>4. i \in 1 .. j + 1
      OBVIOUS
    <3>5. \A k \in i + 1 .. j + 1 : w[k].role = "tool"
      BY <3>1, <3>2, <3>3 DEF m
    <3>6. QED
      BY <3>2, <3>4, <3>5
  <2>5. CASE ~ Answers(m)
    <3>1. Calls(m) # <<>>
      BY <2>1, <2>3, <2>5 DEF Onward
    <3>2. m.role = "assistant"
      BY <3>1 DEF Calls
    <3>3. j + 1 \in 1 .. j + 1 /\ (j + 1) + 1 .. j + 1 = {}
      OBVIOUS
    <3>4. QED
      BY <3>2, <3>3 DEF m
  <2>6. QED
    BY <2>4, <2>5
<1> HIDE DEF Z
<1>4. \A j \in Nat : j \in Z
  BY <1>2, <1>3, NatInduct
<1>5. ASSUME NEW j \in 0 .. n, q[j] # <<>> PROVE Since(j)
  <2>1. j \in Nat /\ j <= n
    BY <1>1
  <2>2. j \in Z
    BY <1>4, <2>1
  <2>3. QED
    BY <1>5, <2>1, <2>2 DEF Z
<1>6. QED
  BY <1>5 DEF n

LEMMA PairsAre ==
  ASSUME NEW w \in Seq(Wires), WholeAt(w, <<>>)
  PROVE  D!CallsPaired(w)
<1>1. PICK q : Trace(q, w) /\ InTurn(q, w) /\ q[Len(w)] = <<>>
  BY DEF WholeAt
<1>2. /\ DOMAIN w = 1 .. Len(w) /\ Len(w) \in Nat
      /\ \A k \in 1 .. Len(w) : w[k] \in Wires /\ Onward(q[k - 1], w[k], q[k])
  BY <1>1 DEF Trace
<1>3. ASSUME NEW i \in 1 .. Len(w), w[i].role = "assistant", NEW c \in DOMAIN w[i].ids
      PROVE  \E j \in D!AnswersTo(w, i) :
               /\ w[j].ids[1] = w[i].ids[c]
               /\ \A k \in D!AnswersTo(w, i) \ {j} : w[k].ids[1] # w[i].ids[c]
  <2> DEFINE ids == w[i].ids
             l == Len(ids)
  <2>1. /\ D!AnswersTo(w, i) = i + 1 .. i + l
        /\ \A d \in 1 .. l : w[i + d].ids[1] = ids[d]
    BY <1>1, <1>3, AnswersFollow
  <2>2. w[i] \in Wires
    BY <1>2
  <2>3. ids \in Seq(Nat) /\ Distinct(ids)
    BY <1>3, <2>2, WireFacts
  <2>4. c \in 1 .. l /\ l \in Nat /\ i \in Nat
    BY <2>3
  <2>5. i + c \in D!AnswersTo(w, i) /\ w[i + c].ids[1] = ids[c]
    <3> HIDE DEF l, ids
    <3>1. i + c \in i + 1 .. i + l
      BY <2>4
    <3>2. QED
      BY <2>1, <2>4, <3>1
  <2>6. ASSUME NEW k \in D!AnswersTo(w, i) \ {i + c} PROVE w[k].ids[1] # ids[c]
    <3> DEFINE d == k - i
    <3> HIDE DEF ids
    <3>1. d \in 1 .. l /\ d # c /\ k = i + d
      BY <2>1, <2>4
    <3> HIDE DEF d, l
    <3>2. w[k].ids[1] = ids[d]
      BY <2>1, <3>1
    <3>3. QED
      BY <2>3, <2>4, <3>1, <3>2 DEF Distinct, l
  <2>7. QED
    BY <2>5, <2>6
<1>4. ASSUME NEW j \in 1 .. Len(w), w[j].role = "tool"
      PROVE  \E i \in 1 .. j - 1 : /\ w[i].role = "assistant" /\ j \in D!AnswersTo(w, i)
                                   /\ D!Contains(w[i].ids, w[j].ids[1])
  <2>1. q[j - 1] # <<>>
    <3>1. w[j] \in Wires /\ Onward(q[j - 1], w[j], q[j])
      BY <1>2
    <3>2. QED
      BY <1>4, <3>1, WireFacts DEF Onward
  <2>2. j - 1 \in 0 .. Len(w)
    BY <1>2
  <2>3. PICK i \in 1 .. j - 1 : /\ w[i].role = "assistant"
                                /\ \A k \in i + 1 .. j - 1 : w[k].role = "tool"
    BY <1>1, <2>1, <2>2, OpenSince
  <2>4. j \in D!AnswersTo(w, i)
    <3>1. \A k \in i + 1 .. j : k \in i + 1 .. j - 1 \/ k = j
      BY <1>2
    <3>2. j \in i + 1 .. Len(w)
      BY <1>2
    <3>3. QED
      BY <1>4, <2>3, <3>1, <3>2 DEF D!AnswersTo
  <2> DEFINE l == Len(w[i].ids)
             c == j - i
  <2>5. i \in 1 .. Len(w)
    BY <1>2
  <2>6. /\ D!AnswersTo(w, i) = i + 1 .. i + l
        /\ \A d \in 1 .. l : w[i + d].ids[1] = w[i].ids[d]
    BY <1>1, <2>3, <2>5, AnswersFollow
  <2>7. l \in Nat
    <3>1. w[i] \in Wires
      BY <1>2, <2>5
    <3>2. w[i].ids \in Seq(Nat)
      BY <2>3, <3>1, WireFacts
    <3>3. QED
      BY <3>2
  <2> HIDE DEF l
  <2>8. c \in 1 .. l /\ i + c = j
    BY <2>4, <2>6, <2>7
  <2> HIDE DEF c
  <2>9. w[j].ids[1] = w[i].ids[c]
    BY <2>6, <2>8
  <2>10. D!Contains(w[i].ids, w[j].ids[1])
    BY <2>8, <2>9 DEF D!Contains, l
  <2>11. QED
    BY <2>3, <2>4, <2>10
<1>5. QED
  BY <1>2, <1>3, <1>4 DEF D!CallsPaired

LEMMA SaneList ==
  ASSUME NEW s \in Seq(InContext), NEW n \in Nat, Len(s) = n,
         \A i \in 1 .. n : s[i].role = "assistant" => Distinct(s[i].ids)
  PROVE  s \in Seq(Sane)
<1>1. ASSUME NEW i \in 1 .. Len(s) PROVE s[i] \in Sane
  <2>1. s[i] \in InContext
    OBVIOUS
  <2>2. s[i].role = "assistant" => Distinct(s[i].ids)
    OBVIOUS
  <2>3. QED
    BY <2>1, <2>2 DEF Sane
<1>2. QED
  BY <1>1

\* What is sent to the model is a conversation the service takes: each call is
\* answered once and directly after its message, nothing answers a call that is not
\* sent, and all that the user wrote is in it, whatever runs were cut short, failed
\* or were steered before.
THEOREM RequestsAreValid == D!Spec => []RequestValid
<1>1. RequestInv => RequestValid
  <2>1. SUFFICES ASSUME RequestInv, D!Asks
                 PROVE  LET w == D!convertMessages(context)
                        IN  /\ D!CallsPaired(w) /\ D!WireAccepted(w)
                            /\ D!Texts(w) = D!Texts(context)
    BY DEF RequestValid, D!RequestValid
  <2>2. OpenAt(context, <<>>) /\ context \in Seq(InContext)
    BY <2>1, AskedWhole DEF RequestInv, ContextTypes
  <2> DEFINE as == D!Adapted(context)
             ts == D!Passed(as)[Len(as)].out
             acc == D!Converted(ts)[Len(ts)]
             w == D!afterResults(acc).wire
  <2>3. /\ as \in Seq(InContext) /\ Len(as) = Len(context) /\ OpenAt(as, <<>>)
        /\ \A i \in 1 .. Len(context) : as[i].role = "assistant" => Distinct(as[i].ids)
        /\ D!Texts(as) = D!Texts(context)
    BY <2>1, <2>2, AdaptedIs DEF RequestInv
  <2>4. D!convertMessages(context) = w
    BY <2>3 DEF D!convertMessages, D!transformMessages
  <2> HIDE DEF as
  <2>5. as \in Seq(Sane)
    <3>1. Len(context) \in Nat
      BY <2>2
    <3> HIDE DEF ts, acc, w
    <3>2. QED
      BY <2>3, <3>1, SaneList
  <2>6. ts \in Seq(Sendable) /\ WholeAt(ts, <<>>) /\ D!Texts(ts) = D!Texts(as)
    BY <2>3, <2>5, SecondPassIs
  <2> HIDE DEF ts
  <2>7. acc \in Conversions /\ Fits(acc, <<>>) /\ D!Texts(acc.wire) = D!Texts(ts)
    BY <2>6, ConversionIs
  <2> HIDE DEF acc
  <2>8. /\ D!afterResults(acc) \in Conversions /\ Fits(D!afterResults(acc), <<>>)
        /\ D!Texts(w) = D!Texts(acc.wire)
    BY <2>7, AfterResultsKeeps
  <2>9. w \in Seq(Wires) /\ WholeAt(w, <<>>) /\ Bridged(w)
    BY <2>8 DEF Conversions, Fits
  <2>10. D!Texts(w) = D!Texts(context)
    BY <2>3, <2>6, <2>7, <2>8
  <2> HIDE DEF w
  <2>11. D!CallsPaired(w)
    BY <2>9, PairsAre
  <2>12. D!WireAccepted(w)
    <3>1. \A i \in DOMAIN w : w[i] \in Wires
      BY <2>9
    <3>2. \A i \in DOMAIN w : w[i].role = "assistant" =>
            w[i].ids # <<>> \/ D!hasContent(w[i].body) \/ w[i] = D!Bridge
      BY <3>1, WireFacts
    <3>3. QED
      BY <2>9, <3>2 DEF D!WireAccepted, Bridged
  <2>13. QED
    BY <2>4, <2>10, <2>11, <2>12
<1>2. QED
  BY <1>1, RequestInit, RequestStep, PTL DEF D!Spec
=============================================================================
