--------------------------- MODULE SequenceLemmas ---------------------------
(***************************************************************************)
(* Facts about sequences that the proofs of the components share:          *)
(* induction over the natural numbers in a form without an operator        *)
(* parameter and what it gives for Select; what adding at the end and      *)
(* taking from the front leave in a queue without repetition; the slices   *)
(* of a sequence; joining; sorting by rank; and what happens step by step. *)
(***************************************************************************)
EXTENDS Selection, Integers, SequencesExt, SequenceTheorems, FiniteSetTheorems,
        WellFoundedInduction, TLAPS

(* A nonempty set of natural numbers has a least one.                      *)
LEMMA Least ==
  ASSUME NEW T \in SUBSET Nat, T # {}
  PROVE  \E n \in T : \A m \in T : n <= m
<1> DEFINE R == {ss \in Nat \X Nat : ss[1] < ss[2]}
<1>1. IsWellFoundedOn(R, Nat)
  BY NatLessThanWellFounded, Zenon DEF OpToRel
<1>2. \E x \in T : \A y \in T : ~(<<y, x>> \in R)
  <2> HIDE DEF R
  <2> QED
    BY <1>1, WFMin, Zenon
<1>3. PICK x \in T : \A y \in T : ~(<<y, x>> \in R)
  BY <1>2
<1>4. \A y \in T : y < x => <<y, x>> \in R
  OBVIOUS
<1> HIDE DEF R
<1>5. \A y \in T : x \in Nat /\ y \in Nat /\ ~(y < x)
  BY <1>3, <1>4
<1> QED
  BY <1>5

(* Induction: a set that has 0 and with n also n + 1 has every number.     *)
THEOREM Induction ==
  ASSUME NEW T, 0 \in T, \A n \in Nat : n \in T => n + 1 \in T
  PROVE  \A n \in Nat : n \in T
<1> DEFINE U == {i \in Nat : i \notin T}
<1>1. U \in SUBSET Nat
  OBVIOUS
<1>2. ASSUME U # {} PROVE FALSE
  <2>1. PICK n \in U : \A m \in U : n <= m
    <3> HIDE DEF U
    <3> QED
      BY <1>1, <1>2, Least
  <2> QED
    BY <2>1
<1> QED
  BY <1>2

-----------------------------------------------------------------------------
\* f tells for each n what is kept of the first n elements, up to m.
KeptUpTo(s, T, m, f) ==
  f = [n \in 0 .. m |->
         IF n = 0 THEN <<>>
         ELSE IF s[n] \in T THEN Append(f[n - 1], s[n]) ELSE f[n - 1]]

LEMMA KeptExists ==
  ASSUME NEW s, NEW T
  PROVE  \A m \in Nat : \E f : KeptUpTo(s, T, m, f)
<1> DEFINE P == {m \in Nat : \E f : KeptUpTo(s, T, m, f)}
<1>1. 0 \in P
  <2> DEFINE f == [n \in 0 .. 0 |-> <<>>]
  <2>1. KeptUpTo(s, T, 0, f)
    BY DEF KeptUpTo
  <2> QED
    BY <2>1
<1>2. ASSUME NEW m \in Nat, m \in P PROVE m + 1 \in P
  <2>1. PICK f : KeptUpTo(s, T, m, f)
    BY <1>2
  <2> DEFINE More(h, n) ==
        IF n = 0 THEN <<>>
        ELSE IF s[n] \in T THEN Append(h[n - 1], s[n]) ELSE h[n - 1]
      g == [n \in 0 .. (m + 1) |-> More(f, n)]
  <2>2. \A n \in 0 .. m : g[n] = f[n]
    <3> TAKE n \in 0 .. m
    <3>1. f[n] = More(f, n)
      BY <2>1 DEF KeptUpTo
    <3>2. n \in 0 .. (m + 1)
      OBVIOUS
    <3> QED
      BY <3>1, <3>2
  <2>3. \A n \in 0 .. (m + 1) : More(g, n) = More(f, n)
    <3> TAKE n \in 0 .. (m + 1)
    <3>1. n # 0 => n - 1 \in 0 .. m
      OBVIOUS
    <3> HIDE DEF g
    <3>2. n # 0 => g[n - 1] = f[n - 1]
      BY <2>2, <3>1
    <3> QED
      BY <3>2
  <2>4. g = [n \in 0 .. (m + 1) |-> More(g, n)]
    <3> DEFINE h == [n \in 0 .. (m + 1) |-> More(g, n)]
    <3>1. \A n \in 0 .. (m + 1) : g[n] = h[n]
      BY <2>3
    <3> QED
      BY <3>1
  <2>5. KeptUpTo(s, T, m + 1, g)
    BY <2>4 DEF KeptUpTo
  <2> HIDE DEF g
  <2> QED
    BY <2>5
<1> HIDE DEF P
<1>3. \A m \in Nat : m \in P
  BY <1>1, <1>2, Induction
<1> QED
  BY <1>3 DEF P

LEMMA KeptAgree ==
  ASSUME NEW s, NEW r, NEW T, NEW m \in Nat, NEW k \in Nat, m <= k,
         \A i \in 1 .. m : s[i] = r[i],
         NEW f, NEW g, KeptUpTo(s, T, m, f), KeptUpTo(r, T, k, g)
  PROVE  f[m] = g[m]
<1> DEFINE P == {n \in Nat : n <= m => f[n] = g[n]}
<1>1. 0 \in P
  BY DEF KeptUpTo
<1>2. ASSUME NEW n \in Nat, n \in P PROVE n + 1 \in P
  <2> SUFFICES ASSUME n + 1 <= m PROVE f[n + 1] = g[n + 1]
    OBVIOUS
  <2>1. /\ f[n] = g[n] /\ s[n + 1] = r[n + 1] /\ n + 1 # 0 /\ (n + 1) - 1 = n
        /\ n + 1 \in 0 .. m /\ n + 1 \in 0 .. k
    BY <1>2
  <2>2. f[n + 1] = IF s[n + 1] \in T THEN Append(f[n], s[n + 1]) ELSE f[n]
    BY <2>1 DEF KeptUpTo
  <2>3. g[n + 1] = IF r[n + 1] \in T THEN Append(g[n], r[n + 1]) ELSE g[n]
    BY <2>1 DEF KeptUpTo
  <2> QED
    BY <2>1, <2>2, <2>3
<1> HIDE DEF P
<1>3. m \in P
  BY <1>1, <1>2, Induction
<1> QED
  BY <1>3 DEF P

LEMMA KeptType ==
  ASSUME NEW S, NEW s \in Seq(S), NEW T, NEW f, KeptUpTo(s, T, Len(s), f)
  PROVE  f[Len(s)] \in Seq(S)
<1> DEFINE P == {n \in Nat : n <= Len(s) => f[n] \in Seq(S)}
<1>1. 0 \in P
  BY DEF KeptUpTo
<1>2. ASSUME NEW n \in Nat, n \in P PROVE n + 1 \in P
  <2> SUFFICES ASSUME n + 1 <= Len(s) PROVE f[n + 1] \in Seq(S)
    OBVIOUS
  <2>1. /\ f[n] \in Seq(S) /\ s[n + 1] \in S /\ n + 1 # 0 /\ (n + 1) - 1 = n
        /\ n + 1 \in 0 .. Len(s)
    BY <1>2
  <2>2. f[n + 1] = IF s[n + 1] \in T THEN Append(f[n], s[n + 1]) ELSE f[n]
    BY <2>1 DEF KeptUpTo
  <2> QED
    BY <2>1, <2>2
<1> HIDE DEF P
<1>3. Len(s) \in P
  BY <1>1, <1>2, Induction
<1> QED
  BY <1>3 DEF P

\* r has the elements of the first n of s that are in T, and is shorter if there are
\* others.
KeptOf(s, T, n, r) ==
  /\ \A x : (\E j \in 1 .. Len(r) : r[j] = x)
            <=> (x \in T /\ \E i \in 1 .. n : s[i] = x)
  /\ Len(r) <= n
  /\ \A i \in 1 .. n : s[i] \notin T => Len(r) < n

LEMMA KeptOneMore ==
  ASSUME NEW S, NEW s, NEW T, NEW n \in Nat, NEW r \in Seq(S), NEW x \in S,
         s[n + 1] = x, KeptOf(s, T, n, r)
  PROVE  KeptOf(s, T, n + 1, IF x \in T THEN Append(r, x) ELSE r)
<1>1. \A y : (\E i \in 1 .. (n + 1) : s[i] = y)
            <=> (\E i \in 1 .. n : s[i] = y) \/ x = y
  <2>1. \A i : i \in 1 .. (n + 1) <=> (i \in 1 .. n \/ i = n + 1)
    OBVIOUS
  <2> QED
    BY <2>1, Zenon
<1>2. Len(r) \in Nat /\ Len(r) <= n
  BY DEF KeptOf
<1>3. CASE x \in T
  <2> DEFINE q == Append(r, x)
  <2>1. /\ q \in Seq(S) /\ Len(q) = Len(r) + 1 /\ q[Len(r) + 1] = x
        /\ \A j \in 1 .. Len(r) : q[j] = r[j]
    OBVIOUS
  <2> HIDE DEF q
  <2>2. \A j : j \in 1 .. Len(q) <=> (j \in 1 .. Len(r) \/ j = Len(r) + 1)
    BY <1>2, <2>1
  <2>3. \A y : (\E j \in 1 .. Len(q) : q[j] = y)
              <=> (\E j \in 1 .. Len(r) : r[j] = y) \/ x = y
    BY <2>1, <2>2, Zenon
  <2>4. \A y : (\E j \in 1 .. Len(q) : q[j] = y)
              <=> (y \in T /\ \E i \in 1 .. (n + 1) : s[i] = y)
    BY <1>1, <1>3, <2>3, Zenon DEF KeptOf
  <2>5. /\ Len(q) <= n + 1
        /\ \A i \in 1 .. (n + 1) : s[i] \notin T => Len(q) < n + 1
    <3>1. \A i \in 1 .. (n + 1) : s[i] \notin T => i \in 1 .. n
      BY <1>3
    <3> QED
      BY <1>2, <2>1, <3>1 DEF KeptOf
  <2>6. KeptOf(s, T, n + 1, q)
    BY <2>4, <2>5 DEF KeptOf
  <2> QED
    BY <1>3, <2>6 DEF q
<1>4. CASE x \notin T
  <2>1. \A y : (\E j \in 1 .. Len(r) : r[j] = y)
              <=> (y \in T /\ \E i \in 1 .. (n + 1) : s[i] = y)
    BY <1>1, <1>4, Zenon DEF KeptOf
  <2>2. Len(r) < n + 1 /\ Len(r) <= n + 1
    BY <1>2
  <2>3. KeptOf(s, T, n + 1, r)
    BY <2>1, <2>2, Zenon DEF KeptOf
  <2> QED
    BY <1>4, <2>3
<1> QED
  BY <1>3, <1>4

LEMMA KeptElements ==
  ASSUME NEW S, NEW s \in Seq(S), NEW T, NEW f, KeptUpTo(s, T, Len(s), f)
  PROVE  KeptOf(s, T, Len(s), f[Len(s)])
<1> DEFINE P == {n \in Nat : n <= Len(s) => f[n] \in Seq(S) /\ KeptOf(s, T, n, f[n])}
<1>1. 0 \in P
  <2>1. f[0] = <<>>
    BY DEF KeptUpTo
  <2>2. KeptOf(s, T, 0, <<>>)
    BY DEF KeptOf
  <2>3. 0 \in Nat /\ <<>> \in Seq(S)
    OBVIOUS
  <2> QED
    BY <2>1, <2>2, <2>3, Zenon
<1>2. ASSUME NEW n \in Nat, n \in P PROVE n + 1 \in P
  <2> SUFFICES ASSUME n + 1 <= Len(s)
               PROVE  f[n + 1] \in Seq(S) /\ KeptOf(s, T, n + 1, f[n + 1])
    OBVIOUS
  <2>1. /\ f[n] \in Seq(S) /\ KeptOf(s, T, n, f[n])
        /\ s[n + 1] \in S /\ n + 1 # 0 /\ (n + 1) - 1 = n /\ n + 1 \in 0 .. Len(s)
    BY <1>2
  <2>2. f[n + 1] = IF s[n + 1] \in T THEN Append(f[n], s[n + 1]) ELSE f[n]
    BY <2>1 DEF KeptUpTo
  <2>3. f[n + 1] \in Seq(S)
    BY <2>1, <2>2
  <2>4. KeptOf(s, T, n + 1, f[n + 1])
    BY <2>1, <2>2, KeptOneMore
  <2> QED
    BY <2>3, <2>4
<1> HIDE DEF P
<1>3. Len(s) \in P
  BY <1>1, <1>2, Induction
<1> QED
  BY <1>3 DEF P

LEMMA SelectIsKept ==
  ASSUME NEW s, NEW T, Len(s) \in Nat
  PROVE  \E f : KeptUpTo(s, T, Len(s), f) /\ Select(s, T) = f[Len(s)]
<1> DEFINE f == CHOOSE f : KeptUpTo(s, T, Len(s), f)
<1>1. KeptUpTo(s, T, Len(s), f)
  BY KeptExists
<1>2. Select(s, T) = f[Len(s)]
  BY DEF Select, KeptUpTo
<1> QED
  BY <1>1, <1>2

(* Nothing is kept of nothing.                                             *)
THEOREM SelectEmpty == ASSUME NEW T PROVE Select(<<>>, T) = <<>>
<1>1. PICK f : KeptUpTo(<<>>, T, 0, f) /\ Select(<<>>, T) = f[0]
  BY SelectIsKept
<1> QED
  BY <1>1 DEF KeptUpTo

(* What is kept of a sequence of elements of S is another one.             *)
THEOREM SelectType ==
  ASSUME NEW S, NEW s \in Seq(S), NEW T PROVE Select(s, T) \in Seq(S)
  BY SelectIsKept, KeptType

(* The elements kept are those in T; one that is not makes it shorter.     *)
THEOREM SelectElements ==
  ASSUME NEW S, NEW s \in Seq(S), NEW T
  PROVE  KeptOf(s, T, Len(s), Select(s, T))
<1>1. PICK f : KeptUpTo(s, T, Len(s), f) /\ Select(s, T) = f[Len(s)]
  BY SelectIsKept
<1> QED
  BY <1>1, KeptElements

(* An element more is kept at the end or not at all.                       *)
THEOREM SelectAppend ==
  ASSUME NEW S, NEW s \in Seq(S), NEW x \in S, NEW T
  PROVE  Select(Append(s, x), T) =
           IF x \in T THEN Append(Select(s, T), x) ELSE Select(s, T)
<1> DEFINE r == Append(s, x)
           m == Len(s)
<1>1. /\ m \in Nat /\ Len(r) = m + 1 /\ Len(r) \in Nat /\ r[m + 1] = x
      /\ \A i \in 1 .. m : s[i] = r[i]
  OBVIOUS
<1>2. PICK f : KeptUpTo(s, T, m, f) /\ Select(s, T) = f[m]
  BY <1>1, SelectIsKept
<1>3. PICK g : KeptUpTo(r, T, m + 1, g) /\ Select(r, T) = g[m + 1]
  BY <1>1, SelectIsKept
<1> HIDE DEF r, m
<1>4. f[m] = g[m]
  BY <1>1, <1>2, <1>3, KeptAgree
<1>5. g[m + 1] = IF r[m + 1] \in T THEN Append(g[m], r[m + 1]) ELSE g[m]
  <2>1. m + 1 \in 0 .. (m + 1) /\ m + 1 # 0 /\ (m + 1) - 1 = m
    BY <1>1
  <2> QED
    BY <1>3, <2>1 DEF KeptUpTo
<1> QED
  BY <1>1, <1>2, <1>3, <1>4, <1>5 DEF r

-----------------------------------------------------------------------------
(* Queues without repetition                                               *)

Once(s) == \A i, j \in DOMAIN s : s[i] = s[j] => i = j

LEMMA NothingIn == ToSet(<<>>) = {} /\ Once(<<>>)
  BY DEF ToSet, Once

\* What is put at the end of a queue is in it, and all that was.
LEMMA Appended ==
  ASSUME NEW S, NEW s \in Seq(S), NEW x \in S
  PROVE  /\ Append(s, x) \in Seq(S)
         /\ ToSet(Append(s, x)) = ToSet(s) \cup {x}
         /\ Once(s) /\ x \notin ToSet(s) => Once(Append(s, x))
<1> DEFINE r == Append(s, x)
<1>1. /\ r \in Seq(S) /\ Len(s) \in Nat
      /\ DOMAIN s = 1 .. Len(s) /\ DOMAIN r = 1 .. (Len(s) + 1)
      /\ \A i \in 1 .. Len(s) : r[i] = s[i]
      /\ r[Len(s) + 1] = x
  OBVIOUS
<1> HIDE DEF r
<1>2. ToSet(r) = ToSet(s) \cup {x}
  BY <1>1 DEF ToSet
<1>3. ASSUME Once(s), x \notin ToSet(s) PROVE Once(r)
  BY <1>1, <1>3 DEF Once, ToSet
<1> QED
  BY <1>1, <1>2, <1>3 DEF r

\* What is taken from the front was in the queue, and only that leaves it.
LEMMA Dequeued ==
  ASSUME NEW S, NEW s \in Seq(S), s # <<>>
  PROVE  /\ Tail(s) \in Seq(S) /\ Head(s) \in S /\ Head(s) \in ToSet(s)
         /\ ToSet(Tail(s)) \subseteq ToSet(s)
         /\ ToSet(s) = {Head(s)} \cup ToSet(Tail(s))
         /\ Once(s) => Once(Tail(s)) /\ Head(s) \notin ToSet(Tail(s))
<1> DEFINE r == Tail(s)
<1>1. /\ r \in Seq(S) /\ Len(s) \in Nat /\ Len(s) > 0
      /\ DOMAIN s = 1 .. Len(s) /\ DOMAIN r = 1 .. (Len(s) - 1)
      /\ \A i \in 1 .. (Len(s) - 1) : r[i] = s[i + 1]
      /\ Head(s) = s[1] /\ s[1] \in S
  OBVIOUS
<1> HIDE DEF r
<1>2. Head(s) \in ToSet(s) /\ ToSet(r) \subseteq ToSet(s)
  BY <1>1 DEF ToSet
<1>3. ToSet(s) \subseteq {Head(s)} \cup ToSet(r)
  <2> SUFFICES ASSUME NEW i \in DOMAIN s, i # 1 PROVE s[i] \in ToSet(r)
    BY <1>1 DEF ToSet
  <2>1. i - 1 \in DOMAIN r /\ r[i - 1] = s[i]
    BY <1>1
  <2> QED
    BY <2>1 DEF ToSet
<1>4. ASSUME Once(s) PROVE Once(r) /\ Head(s) \notin ToSet(r)
  <2>1. \A i \in DOMAIN r : i + 1 \in DOMAIN s /\ i + 1 # 1 /\ r[i] = s[i + 1]
    BY <1>1
  <2>2. 1 \in DOMAIN s
    BY <1>1
  <2>3. Once(r)
    <3> SUFFICES ASSUME NEW i \in DOMAIN r, NEW j \in DOMAIN r, r[i] = r[j]
                 PROVE  i = j
      BY DEF Once
    <3>1. i + 1 = j + 1
      BY <1>4, <2>1 DEF Once
    <3> QED
      BY <1>1, <3>1
  <2>4. ASSUME NEW i \in DOMAIN r, r[i] = Head(s) PROVE FALSE
    BY <1>1, <1>4, <2>1, <2>2, <2>4 DEF Once
  <2> QED
    BY <2>3, <2>4 DEF ToSet
<1> QED
  BY <1>1, <1>2, <1>3, <1>4 DEF r

-----------------------------------------------------------------------------
(* q is what s has behind its first m elements, as far as q goes.          *)
Slice(q, s, m) ==
  /\ m + Len(q) <= Len(s)
  /\ \A i \in 1 .. Len(q) : q[i] = s[m + i]

LEMMA SliceOfNone ==
  ASSUME NEW s, NEW m \in Nat, m <= Len(s) PROVE Slice(<<>>, s, m)
  BY DEF Slice

\* What is appended later does not disturb a slice.
LEMMA SliceGrows ==
  ASSUME NEW S, NEW s \in Seq(S), NEW x \in S, NEW q \in Seq(S), NEW m \in Nat,
         Slice(q, s, m)
  PROVE  Slice(q, Append(s, x), m)
<1> DEFINE r == Append(s, x)
<1>1. /\ Len(s) \in Nat /\ Len(q) \in Nat /\ Len(r) = Len(s) + 1
      /\ \A i \in 1 .. Len(s) : r[i] = s[i]
  OBVIOUS
<1> HIDE DEF r
<1>2. \A i \in 1 .. Len(q) : m + i \in 1 .. Len(s)
  BY <1>1 DEF Slice
<1>3. Slice(q, r, m)
  BY <1>1, <1>2 DEF Slice
<1> QED
  BY <1>3 DEF r

\* A slice up to the end grows with its sequence.
LEMMA SliceAppended ==
  ASSUME NEW S, NEW s \in Seq(S), NEW x \in S, NEW q \in Seq(S), NEW m \in Nat,
         Slice(q, s, m), m + Len(q) = Len(s)
  PROVE  /\ Slice(Append(q, x), Append(s, x), m)
         /\ m + Len(Append(q, x)) = Len(Append(s, x))
<1> DEFINE r == Append(s, x)
           p == Append(q, x)
<1>1. /\ Len(s) \in Nat /\ Len(q) \in Nat
      /\ Len(r) = Len(s) + 1 /\ Len(p) = Len(q) + 1
      /\ \A i \in 1 .. Len(s) : r[i] = s[i]
      /\ \A i \in 1 .. Len(q) : p[i] = q[i]
      /\ r[Len(s) + 1] = x /\ p[Len(q) + 1] = x
  OBVIOUS
<1> HIDE DEF r, p
<1>2. ASSUME NEW i \in 1 .. Len(p) PROVE p[i] = r[m + i]
  <2>1. CASE i = Len(q) + 1
    BY <1>1, <2>1
  <2>2. CASE i \in 1 .. Len(q)
    <3>1. m + i \in 1 .. Len(s)
      BY <1>1, <2>2
    <3> QED
      BY <1>1, <2>2, <3>1 DEF Slice
  <2> QED
    BY <1>1, <2>1, <2>2
<1>3. m + Len(p) = Len(r)
  BY <1>1
<1>4. Slice(p, r, m)
  BY <1>1, <1>2, <1>3 DEF Slice
<1> QED
  BY <1>3, <1>4 DEF r, p

\* Two slices that follow each other are one.
LEMMA SlicesJoined ==
  ASSUME NEW S, NEW s \in Seq(S), NEW p \in Seq(S), NEW q \in Seq(S), NEW m \in Nat,
         Slice(p, s, m), Slice(q, s, m + Len(p))
  PROVE  Slice(p \o q, s, m) /\ Len(p \o q) = Len(p) + Len(q)
<1> DEFINE r == p \o q
<1>1. /\ Len(s) \in Nat /\ Len(p) \in Nat /\ Len(q) \in Nat
      /\ Len(r) = Len(p) + Len(q)
      /\ \A i \in 1 .. Len(p) : r[i] = p[i]
      /\ \A i \in 1 .. Len(q) : r[Len(p) + i] = q[i]
  OBVIOUS
<1> HIDE DEF r
<1>2. ASSUME NEW i \in 1 .. Len(r) PROVE r[i] = s[m + i]
  <2>1. CASE i <= Len(p)
    BY <1>1, <2>1 DEF Slice
  <2>2. CASE i > Len(p)
    <3>1. PICK j \in 1 .. Len(q) : i = Len(p) + j
      <4>1. i - Len(p) \in 1 .. Len(q) /\ i = Len(p) + (i - Len(p))
        BY <1>1, <2>2
      <4> QED
        BY <4>1
    <3>2. r[Len(p) + j] = q[j] /\ q[j] = s[(m + Len(p)) + j]
      BY <1>1 DEF Slice
    <3>3. (m + Len(p)) + j = m + i
      BY <1>1, <3>1
    <3> QED
      BY <3>1, <3>2, <3>3
  <2> QED
    BY <1>1, <2>1, <2>2
<1>3. m + Len(r) <= Len(s)
  BY <1>1 DEF Slice
<1>4. Slice(r, s, m)
  BY <1>2, <1>3 DEF Slice
<1> QED
  BY <1>1, <1>4 DEF r

\* A slice from the beginning is an initial segment.
LEMMA SliceFromStart ==
  ASSUME NEW S, NEW s \in Seq(S), NEW q \in Seq(S), Slice(q, s, 0)
  PROVE  q = SubSeq(s, 1, Len(q))
<1> DEFINE r == SubSeq(s, 1, Len(q))
<1>1. Len(q) \in Nat /\ Len(s) \in Nat /\ Len(q) <= Len(s)
  BY DEF Slice
<1>2. /\ r \in Seq(S) /\ Len(r) = Len(q)
      /\ \A i \in 1 .. Len(q) : r[i] = s[i]
  BY <1>1, SubSeqProperties
<1> HIDE DEF r
<1>3. \A i \in 1 .. Len(q) : q[i] = r[i]
  BY <1>1, <1>2 DEF Slice
<1>4. q = r
  BY <1>2, <1>3, SeqEqual
<1> QED
  BY <1>4 DEF r

-----------------------------------------------------------------------------
(* Joining                                                                 *)

\* Joining does not depend on which two of three sequences of numbers are
\* joined first.
LEMMA Regroup == \A a, b, d \in Seq(Nat) : (a \o b) \o d = a \o (b \o d)
  BY ConcatAssociative, SMTT(60)

\* What is put at the end of the second of two sequences is at the end of both.
LEMMA AppendedLast ==
  ASSUME NEW S, NEW a \in Seq(S), NEW b \in Seq(S), NEW x \in S
  PROVE  a \o Append(b, x) = Append(a \o b, x)
<1>1. <<x>> \in Seq(S)
  OBVIOUS
<1>2. a \o b \in Seq(S)
  BY ConcatProperties, Zenon
<1>3. Append(b, x) = b \o <<x>>
  BY AppendIsConcat, Zenon
<1>4. Append(a \o b, x) = (a \o b) \o <<x>>
  BY <1>2, AppendIsConcat, Zenon
<1>5. (a \o b) \o <<x>> = a \o (b \o <<x>>)
  BY <1>1, ConcatAssociative
<1> QED
  BY <1>3, <1>4, <1>5

-----------------------------------------------------------------------------
\* Where the elements of a tail and of joined sequences come from.
LEMMA TailAt ==
  ASSUME NEW S, NEW s \in Seq(S), s # <<>>
  PROVE  /\ Tail(s) \in Seq(S) /\ Head(s) \in S /\ Head(s) = s[1] /\ 1 \in DOMAIN s
         /\ DOMAIN s \subseteq Nat /\ DOMAIN Tail(s) \subseteq Nat
         /\ \A k \in DOMAIN Tail(s) :
              k + 1 \in DOMAIN s /\ k + 1 > 1 /\ Tail(s)[k] = s[k + 1]
         /\ \A k \in DOMAIN s :
              k = 1 \/ (k - 1 \in DOMAIN Tail(s) /\ Tail(s)[k - 1] = s[k])
<1> DEFINE r == Tail(s)
<1>1. /\ Len(s) \in Nat /\ Len(s) > 0 /\ r \in Seq(S) /\ Head(s) \in S
      /\ DOMAIN s = 1 .. Len(s) /\ DOMAIN r = 1 .. (Len(s) - 1)
      /\ \A k \in 1 .. (Len(s) - 1) : r[k] = s[k + 1]
      /\ Head(s) = s[1]
  OBVIOUS
<1> HIDE DEF r
<1>2. \A k \in DOMAIN r : k + 1 \in DOMAIN s /\ k + 1 > 1 /\ r[k] = s[k + 1]
  BY <1>1
<1>3. ASSUME NEW k \in DOMAIN s, k # 1 PROVE k - 1 \in DOMAIN r /\ r[k - 1] = s[k]
  <2>1. k - 1 \in DOMAIN r /\ (k - 1) + 1 = k
    BY <1>1, <1>3
  <2> QED
    BY <1>2, <2>1
<1>4. 1 \in DOMAIN s /\ DOMAIN s \subseteq Nat /\ DOMAIN r \subseteq Nat
  BY <1>1
<1> QED
  BY <1>1, <1>2, <1>3, <1>4 DEF r

\* Where each element of a joined sequence comes from.
LEMMA JoinedAt ==
  ASSUME NEW S, NEW s \in Seq(S), NEW t \in Seq(S)
  PROVE  /\ s \o t \in Seq(S) /\ Len(s) \in Nat /\ DOMAIN (s \o t) \subseteq Nat
         /\ \A k \in DOMAIN s : k \in DOMAIN (s \o t) /\ (s \o t)[k] = s[k]
         /\ \A k \in DOMAIN t :
              Len(s) + k \in DOMAIN (s \o t) /\ (s \o t)[Len(s) + k] = t[k]
         /\ \A k \in DOMAIN (s \o t) :
              \/ k \in DOMAIN s /\ k <= Len(s) /\ (s \o t)[k] = s[k]
              \/ k - Len(s) \in DOMAIN t /\ k > Len(s) /\ (s \o t)[k] = t[k - Len(s)]
<1> DEFINE r == s \o t
<1>1. /\ Len(s) \in Nat /\ Len(t) \in Nat /\ r \in Seq(S)
      /\ DOMAIN s = 1 .. Len(s) /\ DOMAIN t = 1 .. Len(t)
      /\ DOMAIN r = 1 .. (Len(s) + Len(t))
      /\ \A k \in 1 .. Len(s) : r[k] = s[k]
      /\ \A k \in 1 .. Len(t) : r[Len(s) + k] = t[k]
  OBVIOUS
<1> HIDE DEF r
<1>2. \A k \in DOMAIN s : k \in DOMAIN r /\ r[k] = s[k]
  BY <1>1
<1>3. \A k \in DOMAIN t : Len(s) + k \in DOMAIN r /\ r[Len(s) + k] = t[k]
  <2> TAKE k \in DOMAIN t
  <2>1. k \in 1 .. Len(t) /\ Len(s) + k \in 1 .. (Len(s) + Len(t))
    BY <1>1
  <2> QED
    BY <1>1, <2>1
<1>4. \A k \in DOMAIN r : \/ k \in DOMAIN s /\ k <= Len(s) /\ r[k] = s[k]
                          \/ k - Len(s) \in DOMAIN t /\ k > Len(s) /\ r[k] = t[k - Len(s)]
  <2> TAKE k \in DOMAIN r
  <2>1. CASE k <= Len(s)
    BY <1>1, <2>1
  <2>2. CASE k > Len(s)
    <3>1. k - Len(s) \in 1 .. Len(t) /\ Len(s) + (k - Len(s)) = k
      BY <1>1, <2>2
    <3>2. r[Len(s) + (k - Len(s))] = t[k - Len(s)]
      BY <1>1, <3>1
    <3> QED
      BY <1>1, <2>2, <3>1, <3>2
  <2> QED
    BY <1>1, <2>1, <2>2
<1> QED
  BY <1>1, <1>2, <1>3, <1>4 DEF r

\* Joining two sequences that have nothing in common.
LEMMA OnceJoined ==
  ASSUME NEW S, NEW s \in Seq(S), NEW t \in Seq(S), Once(s), Once(t),
         ToSet(s) \cap ToSet(t) = {}
  PROVE  /\ s \o t \in Seq(S) /\ Once(s \o t)
         /\ ToSet(s \o t) = ToSet(s) \cup ToSet(t)
<1> DEFINE r == s \o t
<1>1. /\ r \in Seq(S) /\ Len(s) \in Nat /\ DOMAIN r \subseteq Nat
      /\ \A k \in DOMAIN s : k \in DOMAIN r /\ r[k] = s[k]
      /\ \A k \in DOMAIN t : Len(s) + k \in DOMAIN r /\ r[Len(s) + k] = t[k]
      /\ \A k \in DOMAIN r : \/ k \in DOMAIN s /\ k <= Len(s) /\ r[k] = s[k]
                             \/ k - Len(s) \in DOMAIN t /\ k > Len(s) /\ r[k] = t[k - Len(s)]
  BY JoinedAt
<1> HIDE DEF r
<1>2. ToSet(r) = ToSet(s) \cup ToSet(t)
  <2>1. ToSet(r) \subseteq ToSet(s) \cup ToSet(t)
    BY <1>1 DEF ToSet
  <2>2. ToSet(s) \subseteq ToSet(r) /\ ToSet(t) \subseteq ToSet(r)
    BY <1>1 DEF ToSet
  <2> QED
    BY <2>1, <2>2
<1>3. Once(r)
  <2> SUFFICES ASSUME NEW k \in DOMAIN r, NEW l \in DOMAIN r, r[k] = r[l] PROVE k = l
    BY DEF Once
  <2>0. k \in Nat /\ l \in Nat
    BY <1>1
  <2>1. CASE k \in DOMAIN s /\ l \in DOMAIN s
    BY <1>1, <2>1 DEF Once
  <2>2. CASE k \in DOMAIN s /\ k <= Len(s) /\ r[k] = s[k] /\ l - Len(s) \in DOMAIN t
             /\ r[l] = t[l - Len(s)]
    BY <2>2 DEF ToSet
  <2>3. CASE l \in DOMAIN s /\ l <= Len(s) /\ r[l] = s[l] /\ k - Len(s) \in DOMAIN t
             /\ r[k] = t[k - Len(s)]
    BY <2>3 DEF ToSet
  <2>4. CASE k - Len(s) \in DOMAIN t /\ r[k] = t[k - Len(s)] /\ l - Len(s) \in DOMAIN t
             /\ r[l] = t[l - Len(s)]
    <3>1. k - Len(s) = l - Len(s)
      BY <2>4 DEF Once
    <3> QED
      BY <1>1, <2>0, <3>1
  <2> QED
    BY <1>1, <2>1, <2>2, <2>3, <2>4
<1> QED
  BY <1>1, <1>2, <1>3 DEF r

-----------------------------------------------------------------------------
(* Sorting by rank: at each place stands what has so many before it.       *)

(* Among different numbers f[i], for each k below their number one has     *)
(* exactly k smaller ones.                                                 *)
Ranked(D, f) ==
  \A k \in 0 .. Cardinality(D) - 1 :
    \E j \in D : Cardinality({i \in D : f[i] < f[j]}) = k

\* With the least element added, the ranks still are all there.
LEMMA RankedWithLeast ==
  ASSUME NEW D, IsFiniteSet(D), NEW f \in [D -> Nat],
         \A i, j \in D : f[i] = f[j] => i = j,
         NEW m \in D, \A i \in D : f[m] <= f[i],
         Ranked(D \ {m}, [i \in D \ {m} |-> f[i]])
  PROVE  Ranked(D, f)
<1> DEFINE E == D \ {m}
           g == [i \in E |-> f[i]]
           Below(j) == {i \in D : f[i] < f[j]}
<1>1. IsFiniteSet(E) /\ Cardinality(E) = Cardinality(D) - 1 /\ Cardinality(D) \in Nat
  BY FS_RemoveElement, FS_CardinalityType
<1>2. Cardinality(Below(m)) = 0
  <2>1. Below(m) = {}
    OBVIOUS
  <2> QED
    BY <2>1, FS_EmptySet
<1>3. ASSUME NEW j \in E
      PROVE  Cardinality(Below(j)) = Cardinality({i \in E : g[i] < g[j]}) + 1
  <2> DEFINE Fewer == {i \in E : g[i] < g[j]}
  <2>1. Below(j) = Fewer \cup {m} /\ m \notin Fewer
    <3>1. f[m] < f[j]
      BY <1>3
    <3> QED
      BY <3>1
  <2>2. IsFiniteSet(Fewer)
    BY <1>1, FS_Subset
  <2> HIDE DEF Fewer, Below
  <2>3. Cardinality(Below(j)) = Cardinality(Fewer) + 1
    BY <2>1, <2>2, FS_AddElement
  <2> QED
    BY <2>3 DEF Fewer
<1> SUFFICES ASSUME NEW k \in 0 .. Cardinality(D) - 1
             PROVE  \E j \in D : Cardinality(Below(j)) = k
  BY DEF Ranked
<1> HIDE DEF Below
<1>4. CASE k = 0
  BY <1>2, <1>4
<1>5. CASE k # 0
  <2>1. k - 1 \in 0 .. Cardinality(E) - 1
    BY <1>1, <1>5
  <2>2. PICK j \in E : Cardinality({i \in E : g[i] < g[j]}) = k - 1
    BY <2>1 DEF Ranked
  <2>3. Cardinality(Below(j)) = (k - 1) + 1
    BY <1>3, <2>2
  <2> QED
    BY <2>3
<1> QED
  BY <1>4, <1>5

\* Different numbers: for each rank there is an element of that rank.
LEMMA RanksExist ==
  ASSUME NEW D, IsFiniteSet(D), NEW f \in [D -> Nat],
         \A i, j \in D : f[i] = f[j] => i = j
  PROVE  Ranked(D, f)
<1> DEFINE Ready(C, g) == /\ IsFiniteSet(C) /\ g \in [C -> Nat]
                          /\ \A i, j \in C : g[i] = g[j] => i = j
           P == {n \in Nat : \A C, g : Ready(C, g) /\ Cardinality(C) = n => Ranked(C, g)}
<1>1. 0 \in P
  BY DEF Ranked
<1>2. ASSUME NEW n \in Nat, n \in P PROVE n + 1 \in P
  <2> SUFFICES ASSUME NEW C, NEW g, Ready(C, g), Cardinality(C) = n + 1
               PROVE  Ranked(C, g)
    OBVIOUS
  <2> DEFINE V == {g[i] : i \in C}
  <2>1. V \in SUBSET Nat
    OBVIOUS
  <2>2. V # {}
    <3>1. C # {}
      BY FS_EmptySet
    <3> QED
      BY <3>1
  <2>3. PICK v \in V : \A u \in V : v <= u
    <3> HIDE DEF V
    <3> QED
      BY <2>1, <2>2, Least
  <2>4. PICK m \in C : v = g[m]
    OBVIOUS
  <2>5. \A i \in C : g[m] <= g[i]
    BY <2>3, <2>4
  <2> DEFINE B == C \ {m}
             h == [i \in B |-> g[i]]
  <2>6. IsFiniteSet(B) /\ Cardinality(B) = n
    <3>1. IsFiniteSet(B) /\ Cardinality(B) = Cardinality(C) - 1
      BY FS_RemoveElement
    <3> QED
      BY <3>1
  <2>7. Ready(B, h)
    BY <2>6
  <2>8. Ranked(B, h)
    BY <1>2, <2>6, <2>7
  <2> QED
    BY <2>5, <2>8, RankedWithLeast
<1>3. \A n \in Nat : n \in P
  <2> HIDE DEF P
  <2> QED
    BY <1>1, <1>2, Induction
<1> QED
  BY <1>3, FS_CardinalityType

\* How many numbers are smaller than that of j.
LEMMA RankOrder ==
  ASSUME NEW D, IsFiniteSet(D), NEW f \in [D -> Nat], NEW j \in D
  PROVE  /\ Cardinality({i \in D : f[i] < f[j]}) \in 0 .. Cardinality(D) - 1
         /\ \A k \in D : f[k] < f[j] =>
              Cardinality({i \in D : f[i] < f[k]}) < Cardinality({i \in D : f[i] < f[j]})
         /\ \A k \in D : f[k] = f[j] =>
              Cardinality({i \in D : f[i] < f[k]}) = Cardinality({i \in D : f[i] < f[j]})
<1> DEFINE Below(k) == {i \in D : f[i] < f[k]}
<1>1. \A k \in D : IsFiniteSet(Below(k)) /\ Cardinality(Below(k)) \in Nat
  <2> TAKE k \in D
  <2>1. Below(k) \subseteq D
    OBVIOUS
  <2> HIDE DEF Below
  <2> QED
    BY <2>1, FS_Subset, FS_CardinalityType
<1>2. ASSUME NEW k \in D, NEW C \in SUBSET D, IsFiniteSet(C), Below(k) \subseteq C, k \in C
      PROVE  Cardinality(Below(k)) < Cardinality(C)
  <2>1. Below(k) \subseteq C \ {k}
    <3>1. f[k] \in Nat
      OBVIOUS
    <3> QED
      BY <1>2, <3>1
  <2>2. IsFiniteSet(C \ {k}) /\ Cardinality(C \ {k}) = Cardinality(C) - 1
        /\ Cardinality(C) \in Nat
    BY <1>2, FS_RemoveElement, FS_CardinalityType
  <2> HIDE DEF Below
  <2>3. Cardinality(Below(k)) <= Cardinality(C \ {k})
    BY <2>1, <2>2, FS_Subset
  <2> QED
    BY <1>1, <2>2, <2>3
<1>3. Cardinality(Below(j)) < Cardinality(D) /\ Cardinality(D) \in Nat
  <2>1. Below(j) \subseteq D
    OBVIOUS
  <2> HIDE DEF Below
  <2> QED
    BY <1>2, <2>1, FS_CardinalityType
<1>4. ASSUME NEW k \in D, f[k] < f[j] PROVE Cardinality(Below(k)) < Cardinality(Below(j))
  <2>1. Below(k) \subseteq Below(j) /\ k \in Below(j) /\ Below(j) \in SUBSET D
    <3>1. \A i \in D : f[i] \in Nat
      OBVIOUS
    <3> QED
      BY <1>4, <3>1
  <2> HIDE DEF Below
  <2> QED
    BY <1>1, <1>2, <2>1
<1>5. ASSUME NEW k \in D, f[k] = f[j] PROVE Below(k) = Below(j)
  BY <1>5
<1>6. Cardinality(Below(j)) \in 0 .. Cardinality(D) - 1
  <2> HIDE DEF Below
  <2> QED
    BY <1>1, <1>3
<1>7. \A k \in D : f[k] = f[j] => Cardinality(Below(k)) = Cardinality(Below(j))
  <2> HIDE DEF Below
  <2> QED
    BY <1>5
<1> QED
  BY <1>4, <1>6, <1>7

(* The elements in the order of their numbers: p[k] has k - 1 smaller ones. *)
RankingOf(p, D, f) ==
  p = [k \in 1 .. Cardinality(D) |->
         CHOOSE j \in D : Cardinality({i \in D : f[i] < f[j]}) = k - 1]

Apart(f, D) == \A i, j \in D : f[i] = f[j] => i = j

\* p goes through D in the order of f.
InOrderOf(p, D, f) ==
  /\ p \in [1 .. Cardinality(D) -> D] /\ Cardinality(D) \in Nat
  /\ \A k, l \in 1 .. Cardinality(D) : k < l => f[p[k]] < f[p[l]]
  /\ \A j \in D : \E k \in 1 .. Cardinality(D) : p[k] = j

(* Each element has one place, and the numbers ascend.                     *)
LEMMA ByRank ==
  ASSUME NEW D, IsFiniteSet(D), NEW f \in [D -> Nat], Apart(f, D),
         NEW p, RankingOf(p, D, f)
  PROVE  InOrderOf(p, D, f)
<1> DEFINE n == Cardinality(D)
           Below(j) == {i \in D : f[i] < f[j]}
<1>1. n \in Nat
  BY FS_CardinalityType
<1>2. ASSUME NEW k \in 1 .. n
      PROVE  p[k] \in D /\ Cardinality(Below(p[k])) = k - 1
  <2>1. PICK x \in D : Cardinality(Below(x)) = k - 1
    <3>1. k - 1 \in 0 .. n - 1
      BY <1>1
    <3>2. Ranked(D, f)
      BY RanksExist DEF Apart
    <3> QED
      BY <3>1, <3>2 DEF Ranked
  <2>2. p[k] = CHOOSE j \in D : Cardinality(Below(j)) = k - 1
    BY DEF RankingOf
  <2> HIDE DEF Below
  <2> QED
    BY <2>1, <2>2
<1>3. \A i, j \in D : /\ Cardinality(Below(j)) \in 0 .. n - 1
                      /\ f[i] < f[j] => Cardinality(Below(i)) < Cardinality(Below(j))
                      /\ f[i] = f[j] => Cardinality(Below(i)) = Cardinality(Below(j))
  <2> TAKE i, j \in D
  <2>1. /\ Cardinality({x \in D : f[x] < f[j]}) \in 0 .. Cardinality(D) - 1
        /\ \A k \in D : f[k] < f[j] =>
              Cardinality({x \in D : f[x] < f[k]}) < Cardinality({x \in D : f[x] < f[j]})
        /\ \A k \in D : f[k] = f[j] =>
              Cardinality({x \in D : f[x] < f[k]}) = Cardinality({x \in D : f[x] < f[j]})
    BY RankOrder
  <2> QED
    BY <2>1, Zenon
<1> HIDE DEF Below
<1>4. p \in [1 .. n -> D]
  <2> DEFINE pick(k) == CHOOSE j \in D : Cardinality({i \in D : f[i] < f[j]}) = k - 1
  <2>1. p = [k \in 1 .. n |-> pick(k)]
    BY DEF RankingOf
  <2> HIDE DEF pick
  <2>2. \A k \in 1 .. n : pick(k) \in D
    BY <1>2, <2>1
  <2> QED
    BY <2>1, <2>2
<1>5. ASSUME NEW k \in 1 .. n, NEW l \in 1 .. n, k < l PROVE f[p[k]] < f[p[l]]
  <2>1. p[k] \in D /\ p[l] \in D /\ f[p[k]] \in Nat /\ f[p[l]] \in Nat
    BY <1>4
  <2>2. Cardinality(Below(p[k])) = k - 1 /\ Cardinality(Below(p[l])) = l - 1
    BY <1>2
  <2>3. /\ f[p[l]] < f[p[k]] => l - 1 < k - 1
        /\ f[p[l]] = f[p[k]] => l - 1 = k - 1
    BY <1>3, <2>1, <2>2
  <2> QED
    BY <1>1, <1>5, <2>1, <2>3
<1>6. ASSUME NEW j \in D PROVE \E k \in 1 .. n : p[k] = j
  <2> DEFINE k == Cardinality(Below(j)) + 1
  <2>1. k \in 1 .. n /\ k - 1 = Cardinality(Below(j))
    BY <1>1, <1>3
  <2> HIDE DEF k
  <2>2. p[k] \in D /\ Cardinality(Below(p[k])) = Cardinality(Below(j))
    BY <1>2, <2>1
  <2>3. ~(f[p[k]] < f[j]) /\ ~(f[j] < f[p[k]]) /\ f[p[k]] \in Nat /\ f[j] \in Nat
    <3>1. /\ f[p[k]] < f[j] => Cardinality(Below(p[k])) < Cardinality(Below(j))
          /\ f[j] < f[p[k]] => Cardinality(Below(j)) < Cardinality(Below(p[k]))
          /\ Cardinality(Below(j)) \in Nat
      BY <1>1, <1>3, <2>2
    <3> QED
      BY <2>2, <3>1
  <2>4. p[k] = j
    <3>1. f[p[k]] = f[j]
      BY <2>3
    <3> QED
      BY <2>2, <3>1 DEF Apart
  <2> QED
    BY <2>1, <2>4
<1> QED
  BY <1>1, <1>4, <1>5, <1>6 DEF InOrderOf

(* Exchanging the places of a function keeps its values.                   *)
LEMMA Rearranged ==
  ASSUME NEW D, NEW S, NEW s, \A k \in D : s[k] \in S,
         NEW p, \A k \in D : p[k] \in D, \A j \in D : \E k \in D : p[k] = j,
         NEW r, r = [k \in D |-> s[p[k]]]
  PROVE  r \in [D -> S] /\ {r[k] : k \in D} = {s[k] : k \in D}
<1>1. \A k \in D : r[k] = s[p[k]]
  OBVIOUS
<1>2. \A k \in D : \E j \in D : r[k] = s[j]
  BY <1>1
<1>3. \A j \in D : \E k \in D : s[j] = r[k]
  BY <1>1
<1> QED
  BY <1>2, <1>3

SortedOf(r, f, D, S) ==
  /\ r \in [D -> S] /\ {r[k] : k \in D} = {f[k] : k \in D}
  /\ \A k, l \in D : k < l => r[k] < r[l]

(* Different numbers sorted by their rank: in ascending order, none lost   *)
(* and none new.                                                           *)
LEMMA RankedInOrder ==
  ASSUME NEW D, IsFiniteSet(D), D = 1 .. Cardinality(D), NEW S \in SUBSET Nat,
         NEW f \in [D -> S], Apart(f, D),
         NEW p, RankingOf(p, D, f)
  PROVE  SortedOf([k \in D |-> f[p[k]]], f, D, S)
<1> DEFINE r == [k \in D |-> f[p[k]]]
<1>1. f \in [D -> Nat] /\ \A k \in D : f[k] \in S
  OBVIOUS
<1>2. InOrderOf(p, D, f)
  BY <1>1, ByRank
<1>3. /\ \A k \in D : p[k] \in D
      /\ \A k, l \in D : k < l => f[p[k]] < f[p[l]]
      /\ \A j \in D : \E k \in D : p[k] = j
  BY <1>2 DEF InOrderOf
<1>4. r \in [D -> S] /\ {r[k] : k \in D} = {f[k] : k \in D}
  BY <1>1, <1>3, Rearranged
<1> QED
  BY <1>3, <1>4 DEF SortedOf

\* r is s in ascending order.
Sorts(r, s, S) ==
  /\ r \in Seq(S) /\ ToSet(r) = ToSet(s)
  /\ \A k, l \in DOMAIN r : k < l => r[k] < r[l]

\* The same for a sequence without repetition.
LEMMA SortedByRank ==
  ASSUME NEW S \in SUBSET Nat, NEW s \in Seq(S), Once(s),
         NEW p, RankingOf(p, 1 .. Len(s), s),
         NEW r, r = [k \in 1 .. Len(s) |-> s[p[k]]]
  PROVE  Sorts(r, s, S)
<1>1. /\ Len(s) \in Nat /\ DOMAIN s = 1 .. Len(s)
      /\ \A i \in 1 .. Len(s) : s[i] \in S
  OBVIOUS
<1> DEFINE D == 1 .. Len(s)
<1>2. IsFiniteSet(D) /\ Cardinality(D) = Len(s) /\ D = 1 .. Cardinality(D)
  <2>1. /\ IsFiniteSet(1 .. Len(s))
        /\ Cardinality(1 .. Len(s)) = IF 1 > Len(s) THEN 0 ELSE Len(s) - 1 + 1
    BY <1>1, FS_Interval
  <2>2. Len(s) = IF 1 > Len(s) THEN 0 ELSE Len(s) - 1 + 1
    BY <1>1
  <2> QED
    BY <2>1, <2>2
<1>3. s \in [D -> S]
  <2>1. s = [i \in D |-> s[i]]
    BY <1>1
  <2> HIDE DEF D
  <2> QED
    BY <1>1, <2>1
<1>4. Apart(s, D)
  BY <1>1 DEF Once, Apart
<1>5. RankingOf(p, D, s) /\ r = [k \in D |-> s[p[k]]]
  OBVIOUS
<1>6. /\ r \in [D -> S] /\ {r[k] : k \in D} = {s[k] : k \in D}
      /\ \A k, l \in D : k < l => r[k] < r[l]
  <2> HIDE DEF D
  <2>1. SortedOf([k \in D |-> s[p[k]]], s, D, S)
    BY <1>2, <1>3, <1>4, <1>5, RankedInOrder
  <2>2. SortedOf(r, s, D, S)
    BY <1>5, <2>1
  <2> QED
    BY <2>2 DEF SortedOf
<1>7. r \in Seq(S) /\ DOMAIN r = D
  BY <1>1, <1>6
<1>8. ToSet(r) = ToSet(s)
  <2>1. ToSet(r) = {r[k] : k \in D} /\ ToSet(s) = {s[k] : k \in D}
    BY <1>1, <1>7 DEF ToSet
  <2> QED
    BY <1>6, <2>1
<1> QED
  BY <1>6, <1>7, <1>8 DEF Sorts

-----------------------------------------------------------------------------
\* p goes through D from the largest number down.
Descending(p, D) ==
  p = [k \in 1 .. Cardinality(D) |->
         CHOOSE i \in D : Cardinality({j \in D : j > i}) = k - 1]

\* The k-th largest for each k: from the largest down, each element once.
LEMMA DescendingOrder ==
  ASSUME NEW N \in Nat, NEW D \in SUBSET (0 .. N), NEW p, Descending(p, D)
  PROVE  /\ p \in [1 .. Cardinality(D) -> D] /\ Cardinality(D) \in Nat
         /\ \A k, l \in 1 .. Cardinality(D) : k < l => p[l] < p[k]
         /\ \A j \in D : \E k \in 1 .. Cardinality(D) : p[k] = j
<1> DEFINE f == [i \in D |-> N - i]
<1>1. IsFiniteSet(D)
  <2>1. IsFiniteSet(0 .. N)
    BY FS_Interval
  <2> QED
    BY <2>1, FS_Subset
<1>2. f \in [D -> Nat] /\ Apart(f, D)
      /\ \A i, j \in D : f[j] < f[i] <=> i < j
  BY DEF Apart
<1>3. RankingOf(p, D, f)
  <2> DEFINE Larger(i) == Cardinality({j \in D : j > i})
             Smaller(i) == Cardinality({j \in D : f[j] < f[i]})
  <2>1. \A i \in D : Larger(i) = Smaller(i)
    <3> TAKE i \in D
    <3>1. {j \in D : j > i} = {j \in D : f[j] < f[i]}
      BY <1>2
    <3> QED
      BY <3>1
  <2>2. p = [k \in 1 .. Cardinality(D) |-> CHOOSE i \in D : Larger(i) = k - 1]
    BY DEF Descending
  <2> HIDE DEF Larger, Smaller
  <2>3. \A k : (CHOOSE i \in D : Larger(i) = k - 1) = CHOOSE i \in D : Smaller(i) = k - 1
    BY <2>1
  <2>4. p = [k \in 1 .. Cardinality(D) |-> CHOOSE i \in D : Smaller(i) = k - 1]
    BY <2>2, <2>3
  <2> QED
    BY <2>4 DEF RankingOf, Smaller
<1> HIDE DEF f
<1>4. InOrderOf(p, D, f)
  BY <1>1, <1>2, <1>3, ByRank
<1>5. \A k \in 1 .. Cardinality(D) : p[k] \in D
  BY <1>4 DEF InOrderOf
<1> QED
  BY <1>2, <1>4, <1>5 DEF InOrderOf

\* s holds the m largest numbers of D, the largest first.
Largest(s, D, m) ==
  /\ s \in Seq(D) /\ Len(s) = m /\ Once(s)
  /\ m = Cardinality(D) => ToSet(s) = D
  /\ m > 0 => s[m] \in D /\ ToSet(s) = {i \in D : s[m] <= i}

\* The first m of those are the m largest.
LEMMA LargestFirst ==
  ASSUME NEW N \in Nat, NEW D \in SUBSET (0 .. N), NEW p, Descending(p, D),
         NEW m \in Nat, m <= Cardinality(D), NEW s, s = [k \in 1 .. m |-> p[k]]
  PROVE  Largest(s, D, m)
<1> DEFINE n == Cardinality(D)
<1>1. /\ p \in [1 .. n -> D] /\ n \in Nat
      /\ \A k, l \in 1 .. n : k < l => p[l] < p[k]
      /\ \A j \in D : \E k \in 1 .. n : p[k] = j
  BY DescendingOrder
<1> HIDE DEF n
<1>2. \A k \in 1 .. m : /\ k \in 1 .. n /\ s[k] = p[k] /\ p[k] \in D /\ s[k] \in D
                      /\ s[k] \in Nat
  <2>1. \A k \in 1 .. m : k \in 1 .. n /\ s[k] = p[k] /\ p[k] \in D
    BY <1>1 DEF n
  <2>2. \A i \in D : i \in Nat
    OBVIOUS
  <2> QED
    BY <2>1, <2>2
<1>3. s \in Seq(D) /\ Len(s) = m /\ DOMAIN s = 1 .. m
  BY <1>2
<1>4. \A k, l \in 1 .. m : k < l => s[l] < s[k]
  BY <1>1, <1>2
<1>5. Once(s)
  <2> SUFFICES ASSUME NEW k \in 1 .. m, NEW l \in 1 .. m, s[k] = s[l] PROVE k = l
    BY <1>3 DEF Once
  <2>1. s[k] \in Nat
    BY <1>2
  <2> QED
    BY <1>4, <2>1
<1>6. ToSet(s) \subseteq D
  BY <1>2, <1>3 DEF ToSet
<1>7. ASSUME m = n PROVE ToSet(s) = D
  <2>1. \A j \in D : \E k \in 1 .. m : s[k] = j
    BY <1>1, <1>2, <1>7
  <2> QED
    BY <1>3, <1>6, <2>1 DEF ToSet
<1>8. ASSUME m > 0 PROVE s[m] \in D /\ ToSet(s) = {i \in D : s[m] <= i}
  <2>1. m \in 1 .. m
    BY <1>8
  <2>0. s[m] \in D /\ s[m] \in Nat
    BY <1>2, <2>1
  <2>2. \A k \in 1 .. m : s[m] <= s[k]
    <3> TAKE k \in 1 .. m
    <3>1. CASE k = m
      BY <2>0, <3>1
    <3>2. CASE k # m
      <4>1. k < m
        BY <3>2
      <4>2. s[k] \in Nat
        BY <1>2
      <4> QED
        BY <1>4, <2>0, <2>1, <4>1, <4>2
    <3> QED
      BY <3>1, <3>2
  <2>3. ASSUME NEW i \in D, s[m] <= i PROVE \E k \in 1 .. m : s[k] = i
    <3>1. PICK k \in 1 .. n : p[k] = i
      BY <1>1
    <3>2. ~(m < k)
      <4> SUFFICES ASSUME m < k PROVE FALSE
        OBVIOUS
      <4>1. p[k] < p[m]
        BY <1>1, <1>2, <2>1, <3>1
      <4> QED
        BY <1>2, <2>0, <2>1, <2>3, <3>1, <4>1
    <3>3. k \in 1 .. m
      BY <1>1, <3>2
    <3> QED
      BY <1>2, <3>1, <3>3
  <2> QED
    BY <1>3, <1>6, <2>0, <2>2, <2>3 DEF ToSet
<1> QED
  BY <1>3, <1>5, <1>7, <1>8 DEF Largest, n

-----------------------------------------------------------------------------
(* What happens n times, the i-th time as G tells: f has what there is     *)
(* after each time.                                                        *)
StepByStep(f, S, base, n, G) ==
  /\ f \in [0 .. n -> S] /\ f[0] = base
  /\ \A i \in 1 .. n : f[i] = G[<<f[i - 1], i>>]

\* There is such an f.
LEMMA StepsExist ==
  ASSUME NEW S, NEW base \in S, NEW n \in Nat, NEW G \in [S \X (1 .. n) -> S]
  PROVE  \E f : StepByStep(f, S, base, n, G)
<1> DEFINE P == {m \in Nat : m <= n => \E f : StepByStep(f, S, base, m, G)}
<1>1. 0 \in P
  <2> DEFINE f == [i \in 0 .. 0 |-> base]
  <2>1. StepByStep(f, S, base, 0, G)
    BY DEF StepByStep
  <2> QED
    BY <2>1
<1>2. ASSUME NEW m \in Nat, m \in P PROVE m + 1 \in P
  <2> SUFFICES ASSUME m + 1 <= n PROVE \E f : StepByStep(f, S, base, m + 1, G)
    OBVIOUS
  <2>1. PICK f : StepByStep(f, S, base, m, G)
    BY <1>2
  <2> DEFINE g == [i \in 0 .. (m + 1) |-> IF i = m + 1 THEN G[<<f[m], m + 1>>] ELSE f[i]]
  <2>2. /\ f \in [0 .. m -> S] /\ f[0] = base
        /\ \A i \in 1 .. m : f[i] = G[<<f[i - 1], i>>]
    BY <2>1 DEF StepByStep
  <2>3. f[m] \in S /\ m + 1 \in 1 .. n /\ G[<<f[m], m + 1>>] \in S
    BY <2>2
  <2>4. \A i \in 0 .. m : g[i] = f[i] /\ i \in 0 .. (m + 1)
    OBVIOUS
  <2>5. g[m + 1] = G[<<f[m], m + 1>>] /\ m \in 0 .. m /\ (m + 1) - 1 = m
    OBVIOUS
  <2>6. g \in [0 .. (m + 1) -> S] /\ g[0] = base
    BY <2>2, <2>3, <2>4
  <2> HIDE DEF g
  <2>7. \A i \in 1 .. (m + 1) : g[i] = G[<<g[i - 1], i>>]
    <3> TAKE i \in 1 .. (m + 1)
    <3>1. CASE i = m + 1
      BY <2>4, <2>5, <3>1
    <3>2. CASE i # m + 1
      <4>1. i \in 1 .. m /\ i \in 0 .. m /\ i - 1 \in 0 .. m
        BY <3>2
      <4> QED
        BY <2>2, <2>4, <4>1
    <3> QED
      BY <3>1, <3>2
  <2> QED
    BY <2>6, <2>7 DEF StepByStep
<1> HIDE DEF P
<1>3. n \in P
  BY <1>1, <1>2, Induction
<1> QED
  BY <1>3 DEF P
=============================================================================
