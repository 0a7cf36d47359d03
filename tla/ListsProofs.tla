----------------------------- MODULE ListsProofs -----------------------------
(***************************************************************************)
(* Facts about Only.  Its definition is a function of itself; that there   *)
(* is one, and only one, is shown by least counterexample, and so is       *)
(* induction on a list or a number, as a statement about sets of lists or  *)
(* numbers.                                                                *)
(***************************************************************************)
EXTENDS Lists, SequenceTheorems, WellFoundedInduction, TLAPS

\* A nonempty set of natural numbers has a least element.
LEMMA LeastOf ==
  ASSUME NEW T, T \subseteq Nat, T # {}
  PROVE  \E m \in T : \A n \in T : m <= n
<1> DEFINE R == {xy \in Nat \X Nat : xy[1] < xy[2]}
<1>1. PICK x \in T : \A y \in T : ~ (<<y, x>> \in R)
  <2>1. IsWellFoundedOn(R, Nat)
    BY NatLessThanWellFounded DEF OpToRel
  <2> HIDE DEF R
  <2>2. QED
    BY <2>1, WFMin
<1>2. ASSUME NEW y \in T PROVE x <= y
  <2>1. x \in Nat /\ y \in Nat
    OBVIOUS
  <2>2. ~ (y < x)
    BY <1>1, <2>1
  <2>3. QED
    BY <2>1, <2>2
<1>3. QED
  BY <1>2

\* A set of numbers with 0 and the successor of each member has them all.
LEMMA NatInduct ==
  ASSUME NEW S, 0 \in S, \A n \in Nat : n \in S => n + 1 \in S
  PROVE  \A n \in Nat : n \in S
<1>1. SUFFICES ASSUME NEW T, T = {n \in Nat : n \notin S}, T # {}
               PROVE  FALSE
  OBVIOUS
<1>2. PICK k \in T : \A n \in T : k <= n
  <2>1. T \subseteq Nat
    BY <1>1
  <2>2. QED
    BY <1>1, <2>1, LeastOf
<1>3. k \in Nat /\ k \notin S /\ k # 0
  BY <1>1
<1>4. k - 1 \in Nat /\ k - 1 \notin T
  BY <1>2, <1>3
<1>5. k - 1 \in S
  BY <1>1, <1>4
<1>6. (k - 1) + 1 \in S
  BY <1>4, <1>5
<1>7. QED
  BY <1>3, <1>6

\* A set of lists with the empty one and every list that continues a member
\* has them all.
LEMMA ListInduct ==
  ASSUME NEW M, NEW S, <<>> \in S,
         \A s \in Seq(M), x \in M : s \in S => Append(s, x) \in S
  PROVE  \A s \in Seq(M) : s \in S
<1> DEFINE N == {n \in Nat : \A s \in Seq(M) : Len(s) = n => s \in S}
<1>1. 0 \in N
  BY EmptySeq
<1>2. ASSUME NEW n \in Nat, n \in N PROVE n + 1 \in N
  <2>1. SUFFICES ASSUME NEW s \in Seq(M), Len(s) = n + 1 PROVE s \in S
    OBVIOUS
  <2> DEFINE f == SubSeq(s, 1, Len(s) - 1)
             x == s[Len(s)]
  <2>2. s # <<>>
    BY <2>1
  <2>3. f \in Seq(M) /\ x \in M /\ Append(f, x) = s /\ Len(f) = n
    BY <2>1, <2>2
  <2>4. f \in S
    BY <1>2, <2>3
  <2> HIDE DEF f, x
  <2>5. QED
    BY <2>3, <2>4
<1>3. \A n \in Nat : n \in N
  <2> HIDE DEF N
  <2>1. QED
    BY <1>1, <1>2, NatInduct
<1>4. QED
  BY <1>3

-----------------------------------------------------------------------------
\* f picks from the first k elements of s.
Picks(f, s, T, k) ==
  f = [n \in 0 .. k |->
         IF n = 0 THEN <<>>
         ELSE IF s[n] \in T THEN Append(f[n - 1], s[n]) ELSE f[n - 1]]

LEMMA PicksExist ==
  ASSUME NEW s, NEW T
  PROVE  \A k \in Nat : \E f : Picks(f, s, T, k)
<1> DEFINE N == {k \in Nat : \E f : Picks(f, s, T, k)}
<1>1. 0 \in N
  <2>1. Picks([n \in 0 .. 0 |-> <<>>], s, T, 0)
    BY DEF Picks
  <2>2. QED
    BY <2>1
<1>2. ASSUME NEW k \in Nat, k \in N PROVE k + 1 \in N
  <2>1. PICK f : Picks(f, s, T, k)
    BY <1>2
  <2> DEFINE x == IF s[k + 1] \in T THEN Append(f[k], s[k + 1]) ELSE f[k]
             g == [n \in 0 .. k + 1 |-> IF n = k + 1 THEN x ELSE f[n]]
  <2>2. ASSUME NEW n \in 0 .. k + 1
        PROVE  g[n] = IF n = 0 THEN <<>>
                      ELSE IF s[n] \in T THEN Append(g[n - 1], s[n]) ELSE g[n - 1]
    <3>1. CASE n = k + 1
      BY <3>1
    <3>2. CASE n # k + 1
      <4>1. n \in 0 .. k /\ (n # 0 => n - 1 \in 0 .. k + 1 /\ n - 1 # k + 1)
        BY <3>2
      <4>2. f[n] = IF n = 0 THEN <<>>
                   ELSE IF s[n] \in T THEN Append(f[n - 1], s[n]) ELSE f[n - 1]
        BY <2>1, <4>1 DEF Picks
      <4>3. QED
        BY <3>2, <4>1, <4>2
    <3>3. QED
      BY <3>1, <3>2
  <2>3. Picks(g, s, T, k + 1)
    BY <2>2, Zenon DEF Picks
  <2>4. QED
    BY <2>3
<1>3. QED
  <2> HIDE DEF N
  <2>1. \A k \in Nat : k \in N
    BY <1>1, <1>2, NatInduct
  <2>2. QED
    BY <2>1 DEF N

LEMMA PicksAgree ==
  ASSUME NEW T, NEW s, NEW t, NEW k \in Nat,
         \A n \in 1 .. k : s[n] = t[n],
         NEW f, Picks(f, s, T, k), NEW g, Picks(g, t, T, k + 1)
  PROVE  f[k] = g[k]
<1> DEFINE N == {n \in Nat : n <= k => f[n] = g[n]}
<1>1. 0 \in N
  BY DEF Picks
<1>2. ASSUME NEW n \in Nat, n \in N PROVE n + 1 \in N
  <2>1. SUFFICES ASSUME n + 1 <= k PROVE f[n + 1] = g[n + 1]
    OBVIOUS
  <2>2. /\ n + 1 \in 0 .. k /\ n + 1 \in 0 .. k + 1 /\ n + 1 # 0
        /\ (n + 1) - 1 = n /\ n + 1 \in 1 .. k
    BY <2>1
  <2>3. f[n] = g[n] /\ s[n + 1] = t[n + 1]
    BY <1>2, <2>1, <2>2
  <2>4. f[n + 1] = IF s[n + 1] \in T THEN Append(f[n], s[n + 1]) ELSE f[n]
    BY <2>2 DEF Picks
  <2>5. g[n + 1] = IF t[n + 1] \in T THEN Append(g[n], t[n + 1]) ELSE g[n]
    BY <2>2 DEF Picks
  <2>6. QED
    BY <2>3, <2>4, <2>5
<1>3. QED
  <2> HIDE DEF N
  <2>1. k \in N
    BY <1>1, <1>2, NatInduct
  <2>2. QED
    BY <2>1 DEF N

LEMMA OnlyIs ==
  ASSUME NEW M, NEW s \in Seq(M), NEW T
  PROVE  \E f : Picks(f, s, T, Len(s)) /\ Only(s, T) = f[Len(s)]
<1>1. \E f : Picks(f, s, T, Len(s))
  BY PicksExist, LenProperties
<1>2. Only(s, T) = (CHOOSE f : Picks(f, s, T, Len(s)))[Len(s)]
  BY DEF Only, Picks
<1>3. QED
  BY <1>1, <1>2

\* What Only does, element by element.
LEMMA OnlyEmpty ==
  ASSUME NEW T
  PROVE  Only(<<>>, T) = <<>>
<1>1. <<>> \in Seq({}) /\ Len(<<>>) = 0
  BY EmptySeq
<1>2. PICK f : Picks(f, <<>>, T, 0) /\ Only(<<>>, T) = f[0]
  BY <1>1, OnlyIs
<1>3. QED
  BY <1>2 DEF Picks

LEMMA OnlyAppend ==
  ASSUME NEW M, NEW s \in Seq(M), NEW x \in M, NEW T
  PROVE  Only(Append(s, x), T) = IF x \in T THEN Append(Only(s, T), x) ELSE Only(s, T)
<1> DEFINE r == Append(s, x)
           l == Len(s)
<1>1. /\ l \in Nat /\ r \in Seq(M) /\ Len(r) = l + 1 /\ r[l + 1] = x
      /\ \A n \in 1 .. l : s[n] = r[n]
  BY AppendProperties, LenProperties
<1>2. PICK f : Picks(f, s, T, l) /\ Only(s, T) = f[l]
  BY OnlyIs
<1> HIDE DEF r, l
<1>3. PICK g : Picks(g, r, T, l + 1) /\ Only(r, T) = g[l + 1]
  BY <1>1, OnlyIs
<1>4. f[l] = g[l]
  BY <1>1, <1>2, <1>3, PicksAgree
<1>5. g[l + 1] = IF r[l + 1] \in T THEN Append(g[l], r[l + 1]) ELSE g[l]
  <2>1. l + 1 \in 0 .. l + 1 /\ l + 1 # 0 /\ (l + 1) - 1 = l
    BY <1>1
  <2>2. g = [n \in 0 .. l + 1 |->
               IF n = 0 THEN <<>>
               ELSE IF r[n] \in T THEN Append(g[n - 1], r[n]) ELSE g[n - 1]]
    BY <1>3 DEF Picks
  <2>3. QED
    BY <2>1, <2>2
<1>6. QED
  BY <1>1, <1>2, <1>3, <1>4, <1>5 DEF r

\* What Only gives is made of elements of the list that are in the set, and
\* none of those is left out.
LEMMA OnlyType ==
  ASSUME NEW M, NEW s \in Seq(M), NEW T
  PROVE  /\ Only(s, T) \in Seq(M)
         /\ Only(s, T) \in Seq(T)
         /\ \A i \in DOMAIN Only(s, T) : \E j \in DOMAIN s : s[j] = Only(s, T)[i]
         /\ \A j \in DOMAIN s : s[j] \in T => \E i \in DOMAIN Only(s, T) : s[j] = Only(s, T)[i]
<1> DEFINE P(l) == /\ Only(l, T) \in Seq(M) /\ Only(l, T) \in Seq(T)
                   /\ \A i \in 1 .. Len(Only(l, T)) :
                        \E j \in 1 .. Len(l) : l[j] = Only(l, T)[i]
                   /\ \A j \in 1 .. Len(l) : l[j] \in T =>
                        \E i \in 1 .. Len(Only(l, T)) : l[j] = Only(l, T)[i]
           S == {l \in Seq(M) : P(l)}
<1>1. <<>> \in S
  <2>1. <<>> \in Seq(M) /\ <<>> \in Seq(T) /\ 1 .. Len(<<>>) = {}
    BY EmptySeq
  <2>2. QED
    BY <2>1, OnlyEmpty
<1>2. ASSUME NEW l \in Seq(M), NEW x \in M, l \in S PROVE Append(l, x) \in S
  <2> DEFINE a == Append(l, x)
             o == Only(l, T)
             q == Only(a, T)
  <2>1. q = IF x \in T THEN Append(o, x) ELSE o
    BY OnlyAppend
  <2>2. /\ a \in Seq(M) /\ Len(l) \in Nat /\ Len(a) = Len(l) + 1 /\ a[Len(l) + 1] = x
        /\ \A j \in 1 .. Len(l) : a[j] = l[j]
    OBVIOUS
  <2>3. /\ o \in Seq(M) /\ o \in Seq(T) /\ Len(o) \in Nat
        /\ \A i \in 1 .. Len(o) : \E j \in 1 .. Len(l) : l[j] = o[i]
        /\ \A j \in 1 .. Len(l) : l[j] \in T => \E i \in 1 .. Len(o) : l[j] = o[i]
    BY <1>2
  <2> HIDE DEF a, o, q
  <2>4. CASE x \in T
    <3>1. /\ q \in Seq(M) /\ q \in Seq(T) /\ Len(q) = Len(o) + 1 /\ q[Len(o) + 1] = x
          /\ \A i \in 1 .. Len(o) : q[i] = o[i]
      BY <2>1, <2>3, <2>4
    <3>2. ASSUME NEW i \in 1 .. Len(q) PROVE \E j \in 1 .. Len(a) : a[j] = q[i]
      <4>1. CASE i = Len(q)
        BY <2>2, <2>3, <3>1, <4>1
      <4>2. CASE i # Len(q)
        <5>1. i \in 1 .. Len(o)
          BY <2>3, <3>1, <4>2
        <5>2. PICK j \in 1 .. Len(l) : l[j] = o[i]
          BY <2>3, <5>1
        <5>3. QED
          BY <2>2, <3>1, <5>1, <5>2
      <4>3. QED
        BY <4>1, <4>2
    <3>3. ASSUME NEW j \in 1 .. Len(a), a[j] \in T
          PROVE  \E i \in 1 .. Len(q) : a[j] = q[i]
      <4>1. CASE j = Len(a)
        BY <2>2, <2>3, <3>1, <4>1
      <4>2. CASE j # Len(a)
        <5>1. j \in 1 .. Len(l)
          BY <2>2, <4>2
        <5>2. PICK i \in 1 .. Len(o) : l[j] = o[i]
          BY <2>2, <2>3, <3>3, <5>1
        <5>3. QED
          BY <2>2, <2>3, <3>1, <5>1, <5>2
      <4>3. QED
        BY <4>1, <4>2
    <3>4. QED
      BY <2>2, <3>1, <3>2, <3>3 DEF a, q
  <2>5. CASE x \notin T
    <3>1. ASSUME NEW j \in 1 .. Len(a), a[j] \in T
          PROVE  \E i \in 1 .. Len(o) : a[j] = o[i]
      <4>1. j # Len(a)
        BY <2>2, <2>5, <3>1
      <4>2. QED
        BY <2>2, <2>3, <3>1, <4>1
    <3>2. ASSUME NEW i \in 1 .. Len(o) PROVE \E j \in 1 .. Len(a) : a[j] = o[i]
      <4>1. PICK j \in 1 .. Len(l) : l[j] = o[i]
        BY <2>3
      <4>2. QED
        BY <2>2, <4>1
    <3>3. q = o
      BY <2>1, <2>5
    <3>4. a \in Seq(M) /\ P(a)
      BY <2>2, <2>3, <3>1, <3>2, <3>3 DEF q
    <3>5. QED
      BY <3>4 DEF a
  <2>6. QED
    BY <2>4, <2>5
<1>3. s \in S
  <2> HIDE DEF S
  <2>1. QED
    BY <1>1, <1>2, ListInduct
<1>4. QED
  BY <1>3, LenProperties

\* Only of a list of members is the list, and of one without a member, empty.
LEMMA OnlyAll ==
  ASSUME NEW T, NEW s \in Seq(T)
  PROVE  Only(s, T) = s
<1> DEFINE S == {l \in Seq(T) : Only(l, T) = l}
<1>1. <<>> \in S
  BY OnlyEmpty
<1>2. ASSUME NEW l \in Seq(T), NEW x \in T, l \in S PROVE Append(l, x) \in S
  BY <1>2, OnlyAppend
<1>3. s \in S
  <2> HIDE DEF S
  <2>1. QED
    BY <1>1, <1>2, ListInduct
<1>4. QED
  BY <1>3

LEMMA OnlyNone ==
  ASSUME NEW M, NEW T, NEW s \in Seq(M), M \cap T = {}
  PROVE  Only(s, T) = <<>>
<1> DEFINE S == {l \in Seq(M) : Only(l, T) = <<>>}
<1>1. <<>> \in S
  BY OnlyEmpty
<1>2. ASSUME NEW l \in Seq(M), NEW x \in M, l \in S PROVE Append(l, x) \in S
  BY <1>2, OnlyAppend
<1>3. s \in S
  <2> HIDE DEF S
  <2>1. QED
    BY <1>1, <1>2, ListInduct
<1>4. QED
  BY <1>3

LEMMA OnlyConcat ==
  ASSUME NEW M, NEW T, NEW s \in Seq(M), NEW t \in Seq(M)
  PROVE  Only(s \o t, T) = Only(s, T) \o Only(t, T)
<1> DEFINE S == {l \in Seq(M) : Only(s \o l, T) = Only(s, T) \o Only(l, T)}
<1>1. <<>> \in S
  BY OnlyEmpty, OnlyType, ConcatEmptySeq
<1>2. ASSUME NEW l \in Seq(M), NEW x \in M, l \in S PROVE Append(l, x) \in S
  <2>1. s \o Append(l, x) = Append(s \o l, x) /\ s \o l \in Seq(M)
    OBVIOUS
  <2>2. Only(s, T) \in Seq(M) /\ Only(l, T) \in Seq(M)
    BY OnlyType
  <2>3. Only(s, T) \o Append(Only(l, T), x) = Append(Only(s, T) \o Only(l, T), x)
    BY <2>2
  <2>4. Only(Append(l, x), T) = IF x \in T THEN Append(Only(l, T), x) ELSE Only(l, T)
    BY OnlyAppend
  <2>5. Only(s \o Append(l, x), T) = IF x \in T THEN Append(Only(s \o l, T), x)
                                                ELSE Only(s \o l, T)
    BY <2>1, OnlyAppend
  <2>6. Only(s \o l, T) = Only(s, T) \o Only(l, T)
    BY <1>2
  <2>7. Append(l, x) \in Seq(M)
    OBVIOUS
  <2>8. Only(s \o Append(l, x), T) = Only(s, T) \o Only(Append(l, x), T)
    <3>1. CASE x \in T
      BY <2>3, <2>4, <2>5, <2>6, <3>1
    <3>2. CASE x \notin T
      BY <2>4, <2>5, <2>6, <3>2
    <3>3. QED
      BY <3>1, <3>2
  <2>9. QED
    BY <2>7, <2>8
<1>3. t \in S
  <2> HIDE DEF S
  <2>1. QED
    BY <1>1, <1>2, ListInduct
<1>4. QED
  BY <1>3

-----------------------------------------------------------------------------
(***************************************************************************)
(* The elements of a list.                                                 *)
(***************************************************************************)
Elements(s) == {s[i] : i \in DOMAIN s}

LEMMA ElementsAppend ==
  ASSUME NEW M, NEW s \in Seq(M), NEW x \in M
  PROVE  Elements(Append(s, x)) = Elements(s) \cup {x}
<1> DEFINE r == Append(s, x)
<1>1. /\ Len(s) \in Nat /\ DOMAIN s = 1 .. Len(s) /\ DOMAIN r = 1 .. Len(s) + 1
      /\ r[Len(s) + 1] = x /\ \A i \in 1 .. Len(s) : r[i] = s[i]
  OBVIOUS
<1> HIDE DEF r
<1>2. 1 .. Len(s) + 1 = (1 .. Len(s)) \cup {Len(s) + 1}
  BY <1>1
<1>3. Elements(r) = Elements(s) \cup {x}
  BY <1>1, <1>2 DEF Elements
<1>4. QED
  BY <1>3 DEF r

LEMMA ElementsConcat ==
  ASSUME NEW M, NEW s \in Seq(M), NEW t \in Seq(M)
  PROVE  Elements(s \o t) = Elements(s) \cup Elements(t)
<1> DEFINE S == {l \in Seq(M) : Elements(s \o l) = Elements(s) \cup Elements(l)}
<1>1. <<>> \in S
  <2>1. Elements(<<>>) = {} /\ s \o <<>> = s /\ <<>> \in Seq(M)
    BY EmptySeq, ConcatEmptySeq DEF Elements
  <2>2. QED
    BY <2>1
<1>2. ASSUME NEW l \in Seq(M), NEW x \in M, l \in S PROVE Append(l, x) \in S
  <2>1. s \o Append(l, x) = Append(s \o l, x) /\ s \o l \in Seq(M) /\ Append(l, x) \in Seq(M)
    OBVIOUS
  <2>2. Elements(s \o l) = Elements(s) \cup Elements(l)
    BY <1>2
  <2>3. \A r \in Seq(M) : Elements(Append(r, x)) = Elements(r) \cup {x}
    BY ElementsAppend
  <2>4. QED
    BY <2>1, <2>2, <2>3
<1>3. t \in S
  <2> HIDE DEF S
  <2>1. QED
    BY <1>1, <1>2, ListInduct
<1>4. QED
  BY <1>3

LEMMA ElementsType ==
  ASSUME NEW M, NEW s \in Seq(M)
  PROVE  Elements(s) \subseteq M
BY DEF Elements

LEMMA ElementsEmpty == Elements(<<>>) = {}
BY DEF Elements

LEMMA ElementsTail ==
  ASSUME NEW M, NEW s \in Seq(M), s # <<>>
  PROVE  Elements(s) = {Head(s)} \cup Elements(Tail(s))
<1>1. /\ Head(s) \in M /\ Tail(s) \in Seq(M) /\ <<Head(s)>> \in Seq(M)
      /\ s = <<Head(s)>> \o Tail(s)
  OBVIOUS
<1>2. Elements(<<Head(s)>>) = {Head(s)}
  BY DEF Elements
<1>3. Elements(<<Head(s)>> \o Tail(s)) = Elements(<<Head(s)>>) \cup Elements(Tail(s))
  BY <1>1, ElementsConcat
<1>4. QED
  BY <1>1, <1>2, <1>3

\* The two parts of a list.
LEMMA ConcatSplit ==
  ASSUME NEW M, NEW a \in Seq(M), NEW b \in Seq(M), NEW s, s = a \o b
  PROVE  /\ Len(a) \in 0 .. Len(s)
         /\ SubSeq(s, 1, Len(a)) = a
         /\ SubSeq(s, Len(a) + 1, Len(s)) = b
<1>1. /\ Len(a) \in Nat /\ Len(b) \in Nat /\ s \in Seq(M) /\ Len(s) = Len(a) + Len(b)
      /\ \A i \in 1 .. Len(a) : s[i] = a[i]
      /\ \A i \in 1 .. Len(b) : s[Len(a) + i] = b[i]
  OBVIOUS
<1>2. SubSeq(s, 1, Len(a)) = a
  BY <1>1
<1>3. SubSeq(s, Len(a) + 1, Len(s)) = b
  <2> DEFINE r == SubSeq(s, Len(a) + 1, Len(s))
  <2>1. r \in Seq(M) /\ Len(r) = Len(b)
    BY <1>1
  <2>2. \A i \in 1 .. Len(b) : r[i] = b[i]
    BY <1>1
  <2>3. QED
    BY <2>1, <2>2
<1>4. QED
  BY <1>1, <1>2, <1>3

-----------------------------------------------------------------------------
(***************************************************************************)
(* Functions of themselves on 0 .. N and, from behind, on 1 .. N + 1: f    *)
(* begins with a and goes on by the steps of g.  There is one.             *)
(***************************************************************************)
GoesUp(f, N, a, g) == f[0] = a /\ \A n \in 1 .. N : f[n] = g[n][f[n - 1]]
GoesDown(f, N, a, g) == f[N + 1] = a /\ \A n \in 1 .. N : f[n] = g[n][f[n + 1]]

LEMMA RunUp ==
  ASSUME NEW V, NEW N \in Nat, NEW a \in V, NEW g \in [1 .. N -> [V -> V]]
  PROVE  \E f \in [0 .. N -> V] : GoesUp(f, N, a, g)
<1> DEFINE Runs(f, k) == /\ f \in [0 .. k -> V] /\ f[0] = a
                         /\ \A n \in 1 .. k : f[n] = g[n][f[n - 1]]
           S == {k \in Nat : k <= N => \E f : Runs(f, k)}
<1>1. 0 \in S
  <2>1. Runs([n \in 0 .. 0 |-> a], 0)
    OBVIOUS
  <2>2. QED
    BY <2>1
<1>2. ASSUME NEW k \in Nat, k \in S PROVE k + 1 \in S
  <2>1. SUFFICES ASSUME k + 1 <= N PROVE \E f : Runs(f, k + 1)
    OBVIOUS
  <2>2. PICK f : Runs(f, k)
    BY <1>2, <2>1
  <2> DEFINE e == [n \in 0 .. k + 1 |-> IF n = k + 1 THEN g[n][f[k]] ELSE f[n]]
  <2>3. k + 1 \in 1 .. N /\ f[k] \in V /\ g[k + 1][f[k]] \in V
    BY <2>1, <2>2
  <2>4. e \in [0 .. k + 1 -> V]
    BY <2>2, <2>3
  <2>5. e[0] = a
    BY <2>2
  <2>6. ASSUME NEW n \in 1 .. k + 1 PROVE e[n] = g[n][e[n - 1]]
    <3>1. CASE n = k + 1
      BY <3>1
    <3>2. CASE n # k + 1
      <4>1. n \in 1 .. k /\ n - 1 \in 0 .. k /\ n - 1 # k + 1
        BY <3>2
      <4>2. QED
        BY <2>2, <3>2, <4>1
    <3>3. QED
      BY <3>1, <3>2
  <2> HIDE DEF e
  <2>7. QED
    BY <2>4, <2>5, <2>6
<1> HIDE DEF S
<1>3. \A k \in Nat : k \in S
  BY <1>1, <1>2, NatInduct
<1>4. PICK f : Runs(f, N)
  BY <1>3 DEF S
<1>5. QED
  BY <1>4 DEF GoesUp

LEMMA RunDown ==
  ASSUME NEW V, NEW N \in Nat, NEW a \in V, NEW g \in [1 .. N -> [V -> V]]
  PROVE  \E f \in [1 .. N + 1 -> V] : GoesDown(f, N, a, g)
<1>1. PICK h \in [1 .. N -> [V -> V]] : \A n \in 1 .. N : h[n] = g[N + 1 - n]
  <2>1. [n \in 1 .. N |-> g[N + 1 - n]] \in [1 .. N -> [V -> V]]
    OBVIOUS
  <2>2. QED
    BY <2>1
<1>2. PICK e \in [0 .. N -> V] : GoesUp(e, N, a, h)
  BY RunUp
<1> DEFINE f == [k \in 1 .. N + 1 |-> e[N + 1 - k]]
<1>3. f \in [1 .. N + 1 -> V] /\ f[N + 1] = a
  BY <1>2 DEF GoesUp
<1>4. ASSUME NEW k \in 1 .. N PROVE f[k] = g[k][f[k + 1]]
  <2> DEFINE n == N + 1 - k
  <2>1. /\ n \in 1 .. N /\ N + 1 - n = k /\ k + 1 \in 1 .. N + 1
        /\ N + 1 - (k + 1) = n - 1 /\ k \in 1 .. N + 1
    OBVIOUS
  <2>2. f[k] = e[n] /\ f[k + 1] = e[n - 1]
    BY <2>1
  <2>3. h[n] = g[k]
    BY <1>1, <2>1
  <2> HIDE DEF n, f
  <2>4. e[n] = h[n][e[n - 1]]
    BY <1>2, <2>1 DEF GoesUp
  <2>5. QED
    BY <2>2, <2>3, <2>4
<1> HIDE DEF f
<1>5. QED
  BY <1>3, <1>4 DEF GoesDown

\* What begins in V, and stays in V from place to place, is in V throughout.
LEMMA UpStays ==
  ASSUME NEW V, NEW N \in Nat, NEW f, f[0] \in V,
         \A k \in 1 .. N : f[k - 1] \in V => f[k] \in V
  PROVE  \A k \in 0 .. N : f[k] \in V
<1> DEFINE S == {k \in Nat : k <= N => f[k] \in V}
<1>1. 0 \in S
  OBVIOUS
<1>2. ASSUME NEW k \in Nat, k \in S PROVE k + 1 \in S
  <2>1. SUFFICES ASSUME k + 1 <= N PROVE f[k + 1] \in V
    OBVIOUS
  <2>2. k + 1 \in 1 .. N /\ (k + 1) - 1 = k /\ f[k] \in V
    BY <1>2, <2>1
  <2>3. QED
    BY <2>2
<1> HIDE DEF S
<1>3. \A k \in Nat : k \in S
  BY <1>1, <1>2, NatInduct
<1>4. QED
  BY <1>3 DEF S

LEMMA DownStays ==
  ASSUME NEW V, NEW N \in Nat, NEW f, f[N + 1] \in V,
         \A k \in 1 .. N : f[k + 1] \in V => f[k] \in V
  PROVE  \A k \in 1 .. N + 1 : f[k] \in V
<1> DEFINE e == [k \in 0 .. N |-> f[N + 1 - k]]
<1>1. \A k \in 0 .. N : e[k] = f[N + 1 - k]
  OBVIOUS
<1>2. \A k \in 1 .. N + 1 : N + 1 - k \in 0 .. N /\ N + 1 - (N + 1 - k) = k
  OBVIOUS
<1>3. \A k \in 1 .. N : /\ N + 1 - k \in 1 .. N /\ (N + 1 - k) + 1 = N + 1 - (k - 1)
                        /\ k \in 0 .. N /\ k - 1 \in 0 .. N
  OBVIOUS
<1> HIDE DEF e
<1>4. e[0] \in V
  BY <1>1
<1>5. ASSUME NEW k \in 1 .. N, e[k - 1] \in V PROVE e[k] \in V
  BY <1>1, <1>3, <1>5
<1>6. \A k \in 0 .. N : e[k] \in V
  BY <1>4, <1>5, UpStays
<1>7. ASSUME NEW k \in 1 .. N + 1 PROVE f[k] \in V
  <2>1. e[N + 1 - k] = f[k]
    BY <1>1, <1>2
  <2>2. QED
    BY <1>2, <1>6, <2>1
<1>8. QED
  BY <1>7

\* Only looks at what is in the list.
LEMMA OnlyAlike ==
  ASSUME NEW M, NEW s \in Seq(M), NEW T, NEW U,
         \A i \in 1 .. Len(s) : s[i] \in T <=> s[i] \in U
  PROVE  Only(s, T) = Only(s, U)
<1> DEFINE S == {l \in Seq(M) : (\A i \in 1 .. Len(l) : l[i] \in T <=> l[i] \in U)
                                   => Only(l, T) = Only(l, U)}
<1>1. <<>> \in S
  <2>1. <<>> \in Seq(M) /\ Only(<<>>, T) = Only(<<>>, U)
    BY OnlyEmpty
  <2>2. QED
    BY <2>1
<1>2. ASSUME NEW l \in Seq(M), NEW x \in M, l \in S PROVE Append(l, x) \in S
  <2> DEFINE a == Append(l, x)
  <2>1. /\ a \in Seq(M) /\ Len(l) \in Nat /\ Len(a) = Len(l) + 1 /\ a[Len(l) + 1] = x
        /\ \A i \in 1 .. Len(l) : a[i] = l[i]
    OBVIOUS
  <2>2. /\ Only(a, T) = IF x \in T THEN Append(Only(l, T), x) ELSE Only(l, T)
        /\ Only(a, U) = IF x \in U THEN Append(Only(l, U), x) ELSE Only(l, U)
    BY OnlyAppend
  <2> HIDE DEF a
  <2>3. SUFFICES ASSUME \A i \in 1 .. Len(a) : a[i] \in T <=> a[i] \in U
                 PROVE  Only(a, T) = Only(a, U)
    BY <2>1 DEF a
  <2>4. x \in T <=> x \in U
    BY <2>1, <2>3
  <2>5. \A i \in 1 .. Len(l) : l[i] \in T <=> l[i] \in U
    <3>1. ASSUME NEW i \in 1 .. Len(l) PROVE l[i] \in T <=> l[i] \in U
      <4>1. i \in 1 .. Len(a) /\ a[i] = l[i]
        BY <2>1
      <4>2. QED
        BY <2>3, <4>1
    <3>2. QED
      BY <3>1
  <2>6. Only(l, T) = Only(l, U)
    BY <1>2, <2>5
  <2>7. QED
    BY <2>2, <2>4, <2>6
<1> HIDE DEF S
<1>3. s \in S
  BY <1>1, <1>2, ListInduct
<1>4. QED
  BY <1>3 DEF S

\* A list without repetition.
Distinct(s) == \A i, j \in 1 .. Len(s) : s[i] = s[j] => i = j

LEMMA DistinctBefore ==
  ASSUME NEW M, NEW s \in Seq(M), NEW x \in M, Distinct(Append(s, x))
  PROVE  Distinct(s) /\ \A i \in 1 .. Len(s) : s[i] # x
<1> DEFINE a == Append(s, x)
<1>1. /\ Len(s) \in Nat /\ Len(a) = Len(s) + 1 /\ a[Len(s) + 1] = x
      /\ \A i \in 1 .. Len(s) : a[i] = s[i]
  OBVIOUS
<1>2. \A i, j \in 1 .. Len(a) : a[i] = a[j] => i = j
  BY DEF Distinct
<1> HIDE DEF a
<1>3. ASSUME NEW i \in 1 .. Len(s), NEW j \in 1 .. Len(s), s[i] = s[j] PROVE i = j
  <2>1. i \in 1 .. Len(a) /\ j \in 1 .. Len(a) /\ a[i] = a[j]
    BY <1>1, <1>3
  <2>2. QED
    BY <1>2, <2>1
<1>4. ASSUME NEW i \in 1 .. Len(s) PROVE s[i] # x
  <2>1. i \in 1 .. Len(a) /\ Len(s) + 1 \in 1 .. Len(a) /\ i # Len(s) + 1
    BY <1>1
  <2>2. QED
    BY <1>1, <1>2, <2>1
<1>5. QED
  BY <1>3, <1>4 DEF Distinct

\* Without its first member, Only gives the rest.
LEMMA OnlyTail ==
  ASSUME NEW M, NEW s \in Seq(M), Distinct(s), NEW T, Only(s, T) # <<>>
  PROVE  Only(s, T \ {Head(Only(s, T))}) = Tail(Only(s, T))
<1> DEFINE U(l) == T \ {Head(Only(l, T))}
           S == {l \in Seq(M) : Distinct(l) /\ Only(l, T) # <<>>
                                  => Only(l, U(l)) = Tail(Only(l, T))}
<1>1. <<>> \in S
  <2>1. <<>> \in Seq(M) /\ Only(<<>>, T) = <<>>
    BY OnlyEmpty
  <2>2. QED
    BY <2>1
<1>2. ASSUME NEW l \in Seq(M), NEW x \in M, l \in S PROVE Append(l, x) \in S
  <2> DEFINE a == Append(l, x)
             o == Only(l, T)
             q == Only(a, T)
  <2>1. a \in Seq(M)
    OBVIOUS
  <2>2. /\ q = IF x \in T THEN Append(o, x) ELSE o
        /\ \A V : Only(a, V) = IF x \in V THEN Append(Only(l, V), x) ELSE Only(l, V)
    BY OnlyAppend
  <2>3. /\ o \in Seq(M)
        /\ \A i \in 1 .. Len(o) : \E j \in 1 .. Len(l) : l[j] = o[i]
    <3>1. /\ o \in Seq(M)
          /\ \A i \in DOMAIN o : \E j \in DOMAIN l : l[j] = o[i]
      BY OnlyType
    <3>2. DOMAIN o = 1 .. Len(o) /\ DOMAIN l = 1 .. Len(l)
      BY <3>1
    <3> HIDE DEF o
    <3>3. QED
      BY <3>1, <3>2
  <2> HIDE DEF o, q
  <2>4. SUFFICES ASSUME Distinct(a), q # <<>> PROVE Only(a, T \ {Head(q)}) = Tail(q)
    BY <2>1 DEF q
  <2>5. Distinct(l) /\ \A i \in 1 .. Len(l) : l[i] # x
    BY <2>4, DistinctBefore
  <2> HIDE DEF a
  <2>6. CASE o = <<>>
    <3>1. q = <<x>> /\ x \in T
      BY <2>2, <2>4, <2>6
    <3>2. Head(q) = x /\ Tail(q) = <<>>
      BY <3>1
    <3>3. Only(a, T \ {x}) = Only(l, T \ {x})
      BY <2>2
    <3>4. \A i \in 1 .. Len(l) : l[i] \in T \ {x} <=> l[i] \in T
      BY <2>5
    <3>5. Only(l, T \ {x}) = o
      BY <3>4, OnlyAlike DEF o
    <3>6. QED
      BY <2>6, <3>2, <3>3, <3>5
  <2>7. CASE o # <<>>
    <3>1. Head(q) = Head(o) /\ Head(o) # x
      <4>1. Len(o) \in Nat /\ 1 \in 1 .. Len(o) /\ Head(o) = o[1]
        BY <2>3, <2>7
      <4>2. PICK j \in 1 .. Len(l) : l[j] = o[1]
        BY <2>3, <4>1
      <4>3. Head(o) # x
        BY <2>5, <4>1, <4>2
      <4>4. Head(Append(o, x)) = Head(o)
        BY <2>3, <4>1
      <4>5. QED
        BY <2>2, <4>3, <4>4
    <3>2. Only(l, T \ {Head(o)}) = Tail(o)
      BY <1>2, <2>5, <2>7 DEF o
    <3>3. x \in T \ {Head(o)} <=> x \in T
      BY <3>1
    <3>4. Tail(Append(o, x)) = Append(Tail(o), x)
      BY <2>3, <2>7
    <3>5. QED
      BY <2>2, <3>1, <3>2, <3>3, <3>4
  <2>8. QED
    BY <2>6, <2>7
<1> HIDE DEF S
<1>3. s \in S
  BY <1>1, <1>2, ListInduct
<1>4. QED
  BY <1>3 DEF S
=============================================================================
