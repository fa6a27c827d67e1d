------------------------- MODULE ResultStoreLemmas -------------------------
(***************************************************************************)
(* Facts about sums and about the samples of captured streams.             *)
(***************************************************************************)
EXTENDS ResultStore, FiniteSetTheorems, SequenceTheorems, TLAPS

-----------------------------------------------------------------------------
(* Sums                                                                    *)

\* f is a function to natural numbers on a finite set.
Summable(f) == IsFiniteSet(DOMAIN f) /\ \A x \in DOMAIN f : f[x] \in Nat

\* Sums are natural numbers.
LEMMA TotalType ==
    ASSUME NEW f, Summable(f)
    PROVE  IsFiniteSet(Units(f)) /\ Total(f) \in Nat
<1> DEFINE D == DOMAIN f
           g == [x \in D |-> {x} \X (1 .. f[x])]
           T == {{x} \X (1 .. f[x]) : x \in D}
<1>1. g \in Surjection(D, T)
    BY Zenon DEF Surjection
<1>2. IsFiniteSet(T)
  <2> HIDE DEF g, T, D
  <2>1. IsFiniteSet(D)
      BY DEF Summable, D
  <2> QED
      BY <1>1, <2>1, FS_Surjection
<1>3. \A t \in T : IsFiniteSet(t)
  <2>1. ASSUME NEW x \in D PROVE IsFiniteSet({x} \X (1 .. f[x]))
    <3>1. IsFiniteSet({x})
        BY Zenon, FS_Singleton
    <3>2. IsFiniteSet(1 .. f[x])
        BY FS_Interval DEF Summable
    <3> QED
        BY Zenon, <3>1, <3>2, FS_Product
  <2> QED
      BY <2>1
<1>4. IsFiniteSet(UNION T)
  <2> HIDE DEF T
  <2> QED
      BY <1>2, <1>3, FS_UNION
<1>5. IsFiniteSet(Units(f))
    BY <1>4 DEF Units
<1> QED
    BY <1>5, FS_CardinalityType DEF Total

\* The sum over a set in two parts.
LEMMA TotalParts ==
    ASSUME NEW f, NEW g, NEW h, Summable(f), Summable(g),
           DOMAIN f \cap DOMAIN g = {}, DOMAIN h = DOMAIN f \cup DOMAIN g,
           \A x \in DOMAIN f : h[x] = f[x], \A x \in DOMAIN g : h[x] = g[x]
    PROVE  Total(h) = Total(f) + Total(g)
<1>1. Units(h) = Units(f) \cup Units(g)
    BY DEF Units
<1>2. Units(f) \cap Units(g) = {}
    BY DEF Units
<1>3. IsFiniteSet(Units(f)) /\ IsFiniteSet(Units(g)) /\ Total(f) \in Nat /\ Total(g) \in Nat
    BY TotalType
<1>4. Cardinality(Units(f) \cup Units(g)) = Cardinality(Units(f)) + Cardinality(Units(g)) - Cardinality(Units(f) \cap Units(g))
    BY <1>3, FS_Union
<1>5. Cardinality(Units(f) \cap Units(g)) = 0
    BY <1>2, FS_EmptySet
<1> QED
    BY <1>1, <1>3, <1>4, <1>5 DEF Total

\* A sum does not depend on the names of its terms.
LEMMA TotalRenamed ==
    ASSUME NEW f, NEW g, Summable(f), NEW b \in Bijection(DOMAIN f, DOMAIN g), \A x \in DOMAIN f : g[b[x]] = f[x]
    PROVE  Total(g) = Total(f)
<1> DEFINE move == [u \in Units(f) |-> <<b[u[1]], u[2]>>]
<1>0. /\ \A x \in DOMAIN f : b[x] \in DOMAIN g
      /\ \A x, y \in DOMAIN f : b[x] = b[y] => x = y
      /\ \A z \in DOMAIN g : \E x \in DOMAIN f : b[x] = z
    BY DEF Bijection, Injection, Surjection, IsInjective
<1>1. \A u \in Units(f) : u = <<u[1], u[2]>> /\ u[1] \in DOMAIN f /\ u[2] \in 1 .. f[u[1]]
    BY DEF Units
<1>2. \A x : \A n : <<x, n>> \in Units(f) <=> x \in DOMAIN f /\ n \in 1 .. f[x]
    BY DEF Units
<1>3. \A x : \A n : <<x, n>> \in Units(g) <=> x \in DOMAIN g /\ n \in 1 .. g[x]
    BY DEF Units
<1>4. \A v \in Units(g) : v = <<v[1], v[2]>>
    BY DEF Units
<1>5. move \in [Units(f) -> Units(g)]
    BY <1>0, <1>1, <1>3
<1>6. \A u, v \in Units(f) : move[u] = move[v] => u = v
    BY <1>0, <1>1
<1>7. \A v \in Units(g) : \E u \in Units(f) : move[u] = v
  <2> SUFFICES ASSUME NEW v \in Units(g) PROVE \E u \in Units(f) : move[u] = v
      OBVIOUS
  <2>1. v = <<v[1], v[2]>> /\ v[1] \in DOMAIN g /\ v[2] \in 1 .. g[v[1]]
      BY <1>3, <1>4
  <2>2. PICK x \in DOMAIN f : b[x] = v[1]
      BY <1>0, <2>1
  <2>3. <<x, v[2]>> \in Units(f)
      BY <1>2, <2>1, <2>2
  <2>4. move[<<x, v[2]>>] = v
      BY <2>1, <2>2, <2>3
  <2> QED
      BY <2>3, <2>4
<1>8. move \in Bijection(Units(f), Units(g))
    BY Zenon, <1>5, <1>6, <1>7 DEF Bijection, Injection, Surjection, IsInjective
<1>9. ExistsBijection(Units(f), Units(g))
    BY <1>8 DEF ExistsBijection
<1> QED
    BY <1>9, TotalType, FS_Bijection DEF Total

\* Sums of the same terms are the same.
LEMMA TotalSame ==
    ASSUME NEW f, NEW g, DOMAIN f = DOMAIN g, \A x \in DOMAIN f : f[x] = g[x]
    PROVE  Total(f) = Total(g)
<1>1. Units(f) = Units(g)
    BY DEF Units
<1> QED
    BY <1>1 DEF Total

\* A sum of zeros, and of nothing.
LEMMA TotalZero ==
    ASSUME NEW f, \A x \in DOMAIN f : f[x] = 0
    PROVE  Total(f) = 0
<1>1. Units(f) = {}
    BY DEF Units
<1> QED
    BY <1>1, FS_EmptySet DEF Total

\* A sum of one term.
LEMMA TotalOne ==
    ASSUME NEW f, NEW x, DOMAIN f = {x}, f[x] \in Nat
    PROVE  Total(f) = f[x]
<1>1. Units(f) = {x} \X (1 .. f[x])
  <2>1. {{y} \X (1 .. f[y]) : y \in {x}} = {{x} \X (1 .. f[x])}
      OBVIOUS
  <2>2. Units(f) = UNION {{x} \X (1 .. f[x])}
      BY <2>1 DEF Units
  <2>3. \A S : UNION {S} = S
      OBVIOUS
  <2> QED
      BY <2>2, <2>3
<1>2. IsFiniteSet(1 .. f[x]) /\ Cardinality(1 .. f[x]) = f[x]
    BY FS_Interval
<1>3. IsFiniteSet({x}) /\ Cardinality({x}) = 1
    BY Zenon, FS_Singleton
<1>4. Cardinality({x} \X (1 .. f[x])) = Cardinality({x}) * Cardinality(1 .. f[x])
    BY <1>2, <1>3, FS_Product
<1>5. 1 * f[x] = f[x]
    OBVIOUS
<1> QED
    BY <1>1, <1>2, <1>3, <1>4, <1>5 DEF Total

\* Another value for one term.
LEMMA TotalChanged ==
    ASSUME NEW f, NEW g, Summable(f), NEW x \in DOMAIN f, DOMAIN g = DOMAIN f, g[x] \in Nat,
           \A y \in DOMAIN f \ {x} : g[y] = f[y]
    PROVE  /\ Total(g) = Total(f) - f[x] + g[x] /\ Summable(g)
           /\ f[x] <= Total(f)
<1> DEFINE rest == [y \in DOMAIN f \ {x} |-> f[y]]
           one == [y \in {x} |-> f[y]]
           other == [y \in {x} |-> g[y]]
<1>1. Summable(rest) /\ Summable(one) /\ Summable(other) /\ Summable(g)
  <2>1. IsFiniteSet(DOMAIN f) /\ IsFiniteSet(DOMAIN f \ {x})
      BY Zenon, FS_Difference DEF Summable
  <2>2. IsFiniteSet({x})
      BY Zenon, FS_Singleton
  <2>3. \A y \in DOMAIN f : f[y] \in Nat /\ g[y] \in Nat
      BY DEF Summable
  <2> QED
      BY <2>1, <2>2, <2>3 DEF Summable
<1>2. Total(one) = f[x] /\ Total(other) = g[x]
  <2>1. DOMAIN one = {x} /\ one[x] = f[x] /\ DOMAIN other = {x} /\ other[x] = g[x] /\ f[x] \in Nat
      BY DEF Summable
  <2> HIDE DEF one, other
  <2> QED
      BY <2>1, TotalOne
<1>3. /\ DOMAIN rest = DOMAIN f \ {x} /\ DOMAIN one = {x} /\ DOMAIN other = {x}
      /\ DOMAIN g = DOMAIN rest \cup DOMAIN other /\ DOMAIN rest \cap DOMAIN other = {}
      /\ \A y \in DOMAIN rest : f[y] = rest[y] /\ g[y] = rest[y]
      /\ \A y \in DOMAIN one : f[y] = one[y]
      /\ \A y \in DOMAIN other : g[y] = other[y]
      /\ one[x] = f[x] /\ other[x] = g[x]
    OBVIOUS
<1> HIDE DEF rest, one, other
<1>4. Total(f) = Total(rest) + Total(one)
    BY Zenon, <1>1, <1>3, TotalParts
<1>5. Total(g) = Total(rest) + Total(other)
    BY Zenon, <1>1, <1>3, TotalParts
<1>6. Total(rest) \in Nat
    BY <1>1, TotalType
<1>7. f[x] \in Nat
    BY DEF Summable
<1> QED
    BY <1>1, <1>2, <1>4, <1>5, <1>6, <1>7

-----------------------------------------------------------------------------
(* The sample of a stream                                                  *)

Least(m, n) == IF m <= n THEN m ELSE n
\* How many bytes of a stream of n come after its head.
After(n) == IF n > HeadLimit THEN n - HeadLimit ELSE 0
\* The first bytes of d, the byte after them, and the last ones of the rest.
Sampled(d) ==
    [head |-> SubSeq(d, 1, Least(HeadLimit, Len(d))),
     next |-> SubSeq(d, HeadLimit + 1, Least(HeadLimit + 1, Len(d))),
     tail |-> SubSeq(d, Len(d) - Least(TailLimit, After(Len(d))) + 1, Len(d))]

\* The two halves of the memory limit are numbers, and neither exceeds it.
LEMMA SampleLimits == MemoryCap \in Nat /\ HeadLimit \in Nat /\ TailLimit \in Nat /\ HeadLimit <= MemoryCap
BY LimitsAssumption DEF MemoryCap, HeadLimit, TailLimit

\* A part of a stream.
LEMMA Part ==
    ASSUME NEW s \in Seq(Bytes), NEW m \in Nat \ {0}, NEW n \in Int, n <= Len(s)
    PROVE  /\ SubSeq(s, m, n) \in Seq(Bytes)
           /\ Len(SubSeq(s, m, n)) = IF m <= n THEN n - m + 1 ELSE 0
           /\ \A i \in 1 .. n - m + 1 : SubSeq(s, m, n)[i] = s[m + i - 1]
<1>1. Len(s) \in Nat
    BY LenProperties
<1>2. \A i \in m .. n : i \in 1 .. Len(s)
    BY <1>1
<1>3. \A i \in m .. n : s[i] \in Bytes
    BY <1>2, ElementOfSeq
<1> QED
    BY <1>3, SubSeqProperties

\* Two streams, one after the other.
LEMMA Joined ==
    ASSUME NEW u \in Seq(Bytes), NEW v \in Seq(Bytes)
    PROVE  \E x \in Seq(Bytes) :
              /\ x = u \o v /\ Len(x) = Len(u) + Len(v)
              /\ \A i \in 1 .. Len(u) + Len(v) : x[i] = IF i <= Len(u) THEN u[i] ELSE v[i - Len(u)]
<1>1. /\ u \o v \in Seq(Bytes) /\ Len(u \o v) = Len(u) + Len(v)
      /\ \A i \in 1 .. Len(u) + Len(v) : (u \o v)[i] = IF i <= Len(u) THEN u[i] ELSE v[i - Len(u)]
    BY ConcatProperties
<1> QED
    BY <1>1, Zenon

\* The head goes on until it is full.
LEMMA HeadGrows ==
    ASSUME NEW d \in Seq(Bytes), NEW b \in Seq(Bytes), NEW p \in Nat, NEW t \in Nat,
           p <= Len(d), t <= Len(b), t > 0 => p = Len(d)
    PROVE  SubSeq(d, 1, p) \o SubSeq(b, 1, t) = SubSeq(d \o b, 1, p + t)
<1>0. Len(d) \in Nat /\ Len(b) \in Nat
    BY LenProperties
<1> DEFINE u == SubSeq(d, 1, p)
           v == SubSeq(b, 1, t)
           w == SubSeq(d \o b, 1, p + t)
<1>2. u \in Seq(Bytes) /\ Len(u) = p /\ \A i \in 1 .. p : u[i] = d[i]
  <2>1. /\ u \in Seq(Bytes) /\ Len(u) = IF 1 <= p THEN p - 1 + 1 ELSE 0
        /\ \A i \in 1 .. p - 1 + 1 : u[i] = d[1 + i - 1]
      BY <1>0, Part
  <2> HIDE DEF u
  <2> QED
      BY <2>1
<1>3. v \in Seq(Bytes) /\ Len(v) = t /\ \A i \in 1 .. t : v[i] = b[i]
  <2>1. /\ v \in Seq(Bytes) /\ Len(v) = IF 1 <= t THEN t - 1 + 1 ELSE 0
        /\ \A i \in 1 .. t - 1 + 1 : v[i] = b[1 + i - 1]
      BY <1>0, Part
  <2> HIDE DEF v
  <2> QED
      BY <2>1
<1>4. /\ d \o b \in Seq(Bytes) /\ Len(d \o b) = Len(d) + Len(b)
      /\ \A i \in 1 .. Len(d) + Len(b) : (d \o b)[i] = IF i <= Len(d) THEN d[i] ELSE b[i - Len(d)]
    BY ConcatProperties
<1>5. w \in Seq(Bytes) /\ Len(w) = p + t /\ \A i \in 1 .. p + t : w[i] = (d \o b)[i]
  <2> DEFINE c == d \o b
  <2>0. c \in Seq(Bytes) /\ p + t <= Len(c)
      BY <1>0, <1>4
  <2> HIDE DEF c
  <2>1. /\ SubSeq(c, 1, p + t) \in Seq(Bytes)
        /\ Len(SubSeq(c, 1, p + t)) = IF 1 <= p + t THEN p + t - 1 + 1 ELSE 0
        /\ \A i \in 1 .. p + t - 1 + 1 : SubSeq(c, 1, p + t)[i] = c[1 + i - 1]
      BY <2>0, Part
  <2>2. SubSeq(c, 1, p + t) = w
      BY DEF c
  <2>3. w \in Seq(Bytes) /\ Len(w) = p + t /\ \A i \in 1 .. p + t : w[i] = c[i]
    <3> HIDE DEF w
    <3> QED
        BY <2>1, <2>2
  <2> QED
      BY <2>3 DEF c
<1>6. PICK x : /\ x = u \o v /\ x \in Seq(Bytes) /\ Len(x) = p + t
               /\ \A i \in 1 .. p + t : x[i] = IF i <= p THEN u[i] ELSE v[i - p]
  <2> HIDE DEF u, v
  <2>1. u \in Seq(Bytes) /\ v \in Seq(Bytes)
      BY <1>2, <1>3
  <2>2. PICK x \in Seq(Bytes) :
            /\ x = u \o v /\ Len(x) = Len(u) + Len(v)
            /\ \A i \in 1 .. Len(u) + Len(v) : x[i] = IF i <= Len(u) THEN u[i] ELSE v[i - Len(u)]
      BY Zenon, <2>1, Joined
  <2> QED
      BY <1>2, <1>3, <2>2, Zenon
<1>7. \A i \in 1 .. p + t : x[i] = w[i]
  <2> HIDE DEF u, v, w
  <2> SUFFICES ASSUME NEW i \in 1 .. p + t PROVE x[i] = w[i]
      OBVIOUS
  <2>1. CASE i <= p
    <3>1. i \in 1 .. p /\ i \in 1 .. Len(d) + Len(b) /\ i <= Len(d)
        BY <1>0, <2>1
    <3>2. x[i] = d[i]
        BY <1>2, <1>6, <2>1, <3>1
    <3>3. w[i] = d[i]
        BY <1>4, <1>5, <3>1, Zenon
    <3> QED
        BY <3>2, <3>3
  <2>2. CASE ~(i <= p)
    <3>1. p = Len(d) /\ i - p \in 1 .. t /\ i \in 1 .. Len(d) + Len(b) /\ ~(i <= Len(d))
        BY <1>0, <2>2
    <3>2. x[i] = b[i - p]
        BY <1>3, <1>6, <2>2, <3>1
    <3>3. w[i] = b[i - Len(d)]
        BY <1>4, <1>5, <3>1, Zenon
    <3> QED
        BY <3>1, <3>2, <3>3
  <2> QED
      BY <2>1, <2>2
<1>8. x = w
  <2> HIDE DEF u, v, w
  <2> QED
      BY <1>5, <1>6, <1>7, SeqEqual
<1> QED
    BY Zenon, <1>6, <1>8

\* The last n bytes of s.
Last(s, n) == SubSeq(s, Len(s) - n + 1, Len(s))

\* The last n bytes of a stream are a stream of length n, read from the end.
LEMMA LastPart ==
    ASSUME NEW s \in Seq(Bytes), NEW n \in Nat, n <= Len(s)
    PROVE  /\ Last(s, n) \in Seq(Bytes) /\ Len(Last(s, n)) = n
           /\ \A i \in 1 .. n : Last(s, n)[i] = s[Len(s) - n + i]
<1>0. Len(s) \in Nat
    BY LenProperties
<1>1. PICK m \in Nat \ {0} : m = Len(s) - n + 1
    BY <1>0
<1>2. /\ SubSeq(s, m, Len(s)) \in Seq(Bytes)
      /\ Len(SubSeq(s, m, Len(s))) = IF m <= Len(s) THEN Len(s) - m + 1 ELSE 0
      /\ \A i \in 1 .. Len(s) - m + 1 : SubSeq(s, m, Len(s))[i] = s[m + i - 1]
    BY <1>0, Part
<1>3. Last(s, n) = SubSeq(s, m, Len(s))
    BY <1>1 DEF Last
<1>4. Len(Last(s, n)) = n
    BY <1>0, <1>1, <1>2, <1>3
<1>5. \A i \in 1 .. n : i \in 1 .. Len(s) - m + 1 /\ m + i - 1 = Len(s) - n + i
    BY <1>0, <1>1
<1>6. \A i \in 1 .. n : Last(s, n)[i] = s[Len(s) - n + i]
    BY <1>2, <1>3, <1>5
<1> QED
    BY <1>2, <1>3, <1>4, <1>6

\* The end of the end of a stream is its end; what trimming a kept tail relies on.
LEMMA LastOfLast ==
    ASSUME NEW s \in Seq(Bytes), NEW k \in Nat, k <= Len(s), NEW j \in Nat, j <= k
    PROVE  Last(Last(s, k), j) = Last(s, j)
<1>0. Len(s) \in Nat
    BY LenProperties
<1>1. PICK r \in Seq(Bytes) : r = Last(s, k) /\ Len(r) = k /\ \A i \in 1 .. k : r[i] = s[Len(s) - k + i]
    BY LastPart
<1>2. PICK q \in Seq(Bytes) : q = Last(r, j) /\ Len(q) = j /\ \A i \in 1 .. j : q[i] = r[k - j + i]
  <2>1. j <= Len(r)
      BY <1>1
  <2>2. /\ Last(r, j) \in Seq(Bytes) /\ Len(Last(r, j)) = j
        /\ \A i \in 1 .. j : Last(r, j)[i] = r[Len(r) - j + i]
      BY <2>1, LastPart
  <2> QED
      BY <1>1, <2>2
<1>3. j <= Len(s)
    BY <1>0
<1>4. PICK p \in Seq(Bytes) : p = Last(s, j) /\ Len(p) = j /\ \A i \in 1 .. j : p[i] = s[Len(s) - j + i]
    BY <1>3, LastPart
<1>5. ASSUME NEW i \in 1 .. j PROVE q[i] = p[i]
  <2>1. k - j + i \in 1 .. k /\ Len(s) - k + (k - j + i) = Len(s) - j + i
      BY <1>0
  <2> QED
      BY Zenon, <1>1, <1>2, <1>4, <2>1
<1>6. q = p
    BY <1>2, <1>4, <1>5, SeqEqual
<1> QED
    BY <1>1, <1>2, <1>4, <1>6

\* The ends of two streams, joined, are the end of the joined stream when the second is whole or the first adds nothing.
LEMMA LastOfJoin ==
    ASSUME NEW d \in Seq(Bytes), NEW b \in Seq(Bytes), NEW q \in Nat, NEW k \in Nat,
           q <= Len(d), k <= Len(b), q > 0 => k = Len(b)
    PROVE  Last(d, q) \o Last(b, k) = Last(d \o b, q + k)
<1>0. Len(d) \in Nat /\ Len(b) \in Nat
    BY LenProperties
<1>1. PICK u \in Seq(Bytes) : u = Last(d, q) /\ Len(u) = q /\ \A i \in 1 .. q : u[i] = d[Len(d) - q + i]
    BY LastPart
<1>2. PICK v \in Seq(Bytes) : v = Last(b, k) /\ Len(v) = k /\ \A i \in 1 .. k : v[i] = b[Len(b) - k + i]
    BY LastPart
<1>3. PICK x \in Seq(Bytes) :
          /\ x = u \o v /\ Len(x) = Len(u) + Len(v)
          /\ \A i \in 1 .. Len(u) + Len(v) : x[i] = IF i <= Len(u) THEN u[i] ELSE v[i - Len(u)]
    BY Zenon, Joined
<1>4. PICK e \in Seq(Bytes) :
          /\ e = d \o b /\ Len(e) = Len(d) + Len(b)
          /\ \A i \in 1 .. Len(d) + Len(b) : e[i] = IF i <= Len(d) THEN d[i] ELSE b[i - Len(d)]
    BY Zenon, Joined
<1>5. q + k \in Nat /\ q + k <= Len(e)
    BY <1>0, <1>4
<1>6. PICK w \in Seq(Bytes) : w = Last(e, q + k) /\ Len(w) = q + k /\ \A i \in 1 .. q + k : w[i] = e[Len(e) - (q + k) + i]
    BY <1>5, LastPart
<1>7. ASSUME NEW i \in 1 .. q + k PROVE x[i] = w[i]
  <2> DEFINE z == Len(e) - (q + k) + i
  <2>1. w[i] = e[z]
      BY <1>6
  <2>2. CASE i <= q
    <3>1. i \in 1 .. q /\ z = Len(d) - q + i /\ z \in 1 .. Len(d) + Len(b) /\ z <= Len(d)
      <4>1. q > 0 /\ k = Len(b) /\ Len(e) = Len(d) + Len(b)
          BY <1>4, <2>2
      <4> QED
          BY <1>0, <2>2, <4>1
    <3>2. x[i] = d[z]
        BY Zenon, <1>1, <1>2, <1>3, <2>2, <3>1
    <3>3. e[z] = d[z]
        BY <1>4, <3>1
    <3> QED
        BY <2>1, <3>2, <3>3
  <2>3. CASE ~(i <= q)
    <3>1. i - q \in 1 .. k /\ z \in 1 .. Len(d) + Len(b) /\ ~(z <= Len(d)) /\ z - Len(d) = Len(b) - k + (i - q)
        BY <1>0, <1>4, <2>3
    <3>2. x[i] = b[z - Len(d)]
      <4>1. x[i] = v[i - q]
          BY Zenon, <1>1, <1>2, <1>3, <2>3
      <4>2. v[i - q] = b[Len(b) - k + (i - q)]
          BY Zenon, <1>2, <3>1
      <4> QED
          BY Zenon, <3>1, <4>1, <4>2
    <3>3. e[z] = b[z - Len(d)]
        BY <1>4, <3>1
    <3> QED
        BY <2>1, <3>2, <3>3
  <2> QED
      BY <2>2, <2>3
<1>8. x = w
    BY Zenon, <1>1, <1>2, <1>3, <1>6, <1>7, SeqEqual
<1> QED
    BY <1>1, <1>2, <1>3, <1>4, <1>6, <1>8

\* A stream of one byte.
LEMMA Single ==
    ASSUME NEW y \in Bytes
    PROVE  <<y>> \in Seq(Bytes) /\ Len(<<y>>) = 1 /\ <<y>>[1] = y
OBVIOUS

\* A part of length one holds the byte at its place.
LEMMA OneByte ==
    ASSUME NEW s \in Seq(Bytes), NEW k \in 1 .. Len(s)
    PROVE  SubSeq(s, k, k) = <<s[k]>>
<1>0. Len(s) \in Nat
    BY LenProperties
<1>1. PICK u \in Seq(Bytes) : u = SubSeq(s, k, k) /\ Len(u) = 1 /\ u[1] = s[k]
  <2>1. /\ SubSeq(s, k, k) \in Seq(Bytes)
        /\ Len(SubSeq(s, k, k)) = IF k <= k THEN k - k + 1 ELSE 0
        /\ \A i \in 1 .. k - k + 1 : SubSeq(s, k, k)[i] = s[k + i - 1]
      BY <1>0, Part
  <2> DEFINE u == SubSeq(s, k, k)
  <2>2. /\ u \in Seq(Bytes)
        /\ Len(u) = IF k <= k THEN k - k + 1 ELSE 0
        /\ \A i \in 1 .. k - k + 1 : u[i] = s[k + i - 1]
      BY <2>1, Zenon
  <2> HIDE DEF u
  <2>3. Len(u) = 1 /\ u[1] = s[k + 1 - 1] /\ k + 1 - 1 = k
      BY <1>0, <2>2
  <2>4. u \in Seq(Bytes) /\ Len(u) = 1 /\ u[1] = s[k]
      BY <2>2, <2>3, Zenon
  <2> QED
      BY Zenon, <2>4 DEF u
<1>2. s[k] \in Bytes
    BY ElementOfSeq
<1>3. PICK v \in Seq(Bytes) : v = <<s[k]>> /\ Len(v) = 1 /\ v[1] = s[k]
  <2> DEFINE y == s[k]
  <2>1. y \in Bytes
      BY <1>2
  <2> HIDE DEF y
  <2>2. <<y>> \in Seq(Bytes) /\ Len(<<y>>) = 1 /\ <<y>>[1] = y
      BY <2>1, Single
  <2> QED
      BY <2>2, Zenon DEF y
<1>4. \A i \in 1 .. 1 : u[i] = v[i]
    BY <1>1, <1>3
<1> QED
    BY Zenon, <1>1, <1>3, <1>4, SeqEqual

\* How many bytes the head and the tail of a stream of m have, and how many bytes of a chunk
\* of n complete the head.
Headed(m) == Least(HeadLimit, m)
Tailed(m) == Least(TailLimit, After(m))
Taken(m, n) == IF HeadLimit - Headed(m) < n THEN HeadLimit - Headed(m) ELSE n

\* How many bytes CaptureSample::observe keeps in the head and in the tail: the arithmetic of its limits.
LEMMA SampleNumbers ==
    ASSUME NEW m \in Nat, NEW n \in Nat
    PROVE  /\ Headed(m) \in Nat /\ Taken(m, n) \in Nat /\ Tailed(m) \in Nat /\ Headed(m) <= m /\ Taken(m, n) <= n
           /\ Tailed(m) <= m /\ (Taken(m, n) > 0 => Headed(m) = m) /\ n - Taken(m, n) \in Nat
           /\ Headed(m) + Taken(m, n) = Least(HeadLimit, m + n) /\ (Tailed(m) > 0 => Taken(m, n) = 0)
           /\ Least(TailLimit, Tailed(m) + (n - Taken(m, n))) = Least(TailLimit, After(m + n))
           /\ (m > HeadLimit => Taken(m, n) = 0)
           /\ (m <= HeadLimit => (m + n > HeadLimit <=> Headed(m) + Taken(m, n) = HeadLimit /\ Taken(m, n) < n))
           /\ (m <= HeadLimit /\ m + n > HeadLimit => m + Taken(m, n) = HeadLimit)
BY SampleLimits DEF Least, After, Headed, Tailed, Taken

\* However a stream was cut, observing a chunk gives the sample of the longer stream.
LEMMA ObserveExact ==
    ASSUME NEW d \in Seq(Bytes), NEW b \in Seq(Bytes)
    PROVE  Observe(Sampled(d), b) = Sampled(d \o b)
<1> DEFINE m == Len(d)
           n == Len(b)
           e == d \o b
           r == Sampled(d)
           p == Headed(m)
           t == Taken(m, n)
           q == Tailed(m)
           rest == SubSeq(b, t + 1, n)
           long == r.tail \o rest
<1>0. m \in Nat /\ n \in Nat /\ e \in Seq(Bytes) /\ Len(e) = m + n
  <2>1. m \in Nat /\ n \in Nat
      BY LenProperties
  <2>2. e \in Seq(Bytes) /\ Len(e) = Len(d) + Len(b)
      BY ConcatProperties
  <2> QED
      BY <2>1, <2>2
<1>1. /\ p \in Nat /\ t \in Nat /\ q \in Nat /\ p <= m /\ t <= n /\ q <= m /\ (t > 0 => p = m) /\ n - t \in Nat
      /\ p + t = Least(HeadLimit, m + n) /\ (q > 0 => t = 0)
      /\ Least(TailLimit, q + (n - t)) = Least(TailLimit, After(m + n))
      /\ (m > HeadLimit => t = 0)
      /\ (m <= HeadLimit => (m + n > HeadLimit <=> p + t = HeadLimit /\ t < n))
      /\ (m <= HeadLimit /\ m + n > HeadLimit => m + t = HeadLimit)
  <2> HIDE DEF m, n
  <2> QED
      BY Zenon, <1>0, SampleNumbers
<1>2. r.head = SubSeq(d, 1, p) /\ Len(r.head) = p
  <2>1. r.head = SubSeq(d, 1, p)
      BY Zenon DEF Sampled, Headed
  <2>2. Len(SubSeq(d, 1, p)) = IF 1 <= p THEN p - 1 + 1 ELSE 0
    <3> HIDE DEF p
    <3> QED
        BY <1>0, <1>1, Part
  <2>3. (IF 1 <= p THEN p - 1 + 1 ELSE 0) = p
    <3> HIDE DEF p
    <3> QED
        BY <1>1
  <2> QED
      BY Zenon, <2>1, <2>2, <2>3
<1>3. r.head \o SubSeq(b, 1, t) = Sampled(e).head
  <2>1. SubSeq(d, 1, p) \o SubSeq(b, 1, t) = SubSeq(e, 1, p + t)
    <3> HIDE DEF p, t
    <3>1. p \in Nat /\ t \in Nat /\ p <= Len(d) /\ t <= Len(b) /\ (t > 0 => p = Len(d))
        BY Zenon, <1>1
    <3> QED
        BY Zenon, <3>1, HeadGrows
  <2>2. Sampled(e).head = SubSeq(e, 1, Least(HeadLimit, m + n))
      BY Zenon, <1>0 DEF Sampled
  <2> QED
      BY Zenon, <1>1, <1>2, <2>1, <2>2
<1>4. rest = Last(b, n - t) /\ rest \in Seq(Bytes) /\ Len(rest) = n - t
  <2>1. rest = Last(b, n - t)
    <3>1. t + 1 = n - (n - t) + 1
      <4> HIDE DEF t, n
      <4> QED
          BY <1>0, <1>1
    <3> QED
        BY Zenon, <3>1 DEF Last
  <2>2. n - t <= Len(b)
    <3> HIDE DEF t
    <3> QED
        BY <1>0, <1>1
  <2>3. Last(b, n - t) \in Seq(Bytes) /\ Len(Last(b, n - t)) = n - t
    <3> HIDE DEF t, n
    <3> QED
        BY <1>1, <2>2, LastPart
  <2> QED
      BY Zenon, <2>1, <2>3
<1>5. long = Last(e, q + (n - t)) /\ Len(long) = q + (n - t) /\ q + (n - t) \in Nat /\ q + (n - t) <= Len(e)
  <2>1. r.tail = Last(d, q)
      BY Zenon DEF Sampled, Last, Tailed
  <2>2. n - t <= Len(b) /\ (q > 0 => n - t = Len(b)) /\ q + (n - t) \in Nat /\ q + (n - t) <= m + n
    <3>1. n = Len(b)
        OBVIOUS
    <3> HIDE DEF t, n, q
    <3> QED
        BY <1>0, <1>1, <3>1
  <2>3. Last(d, q) \o Last(b, n - t) = Last(e, q + (n - t))
    <3> DEFINE l == n - t
    <3>1. q \in Nat /\ l \in Nat /\ q <= Len(d) /\ l <= Len(b) /\ (q > 0 => l = Len(b))
        BY <1>1, <2>2
    <3> HIDE DEF q, l
    <3>2. Last(d, q) \o Last(b, l) = Last(d \o b, q + l)
        BY Zenon, <3>1, LastOfJoin
    <3> QED
        BY <3>2 DEF l
  <2>4. Len(Last(e, q + (n - t))) = q + (n - t)
    <3> HIDE DEF t, n, q, e
    <3> QED
        BY <1>0, <2>2, LastPart
  <2> QED
      BY Zenon, <1>0, <1>4, <2>1, <2>2, <2>3, <2>4
<1> DEFINE tail == IF Len(rest) >= TailLimit THEN SubSeq(rest, Len(rest) - TailLimit + 1, Len(rest))
                   ELSE SubSeq(long, (IF Len(long) > TailLimit THEN Len(long) - TailLimit ELSE 0) + 1, Len(long))
           k == q + (n - t)
<1>6. tail = Last(e, Least(TailLimit, k))
  <2>1. CASE Len(rest) >= TailLimit
    <3>1. TailLimit \in Nat /\ TailLimit <= n - t /\ Least(TailLimit, k) = TailLimit
      <4>1. TailLimit \in Nat /\ n - t \in Nat /\ n - t >= TailLimit /\ q \in Nat /\ k = q + (n - t)
          BY Zenon, <1>1, <1>4, <2>1, SampleLimits
      <4> HIDE DEF k, q, t, n
      <4> QED
          BY <4>1 DEF Least
    <3>2. tail = Last(rest, TailLimit)
        BY Zenon, <2>1 DEF Last
    <3>3. Last(rest, TailLimit) = Last(b, TailLimit)
      <4>1. n - t <= Len(b)
        <5> HIDE DEF t
        <5> QED
            BY <1>0, <1>1
      <4> HIDE DEF t, n, rest
      <4> QED
          BY <1>1, <1>4, <3>1, <4>1, LastOfLast
    <3>4. Last(b, TailLimit) = Last(e, TailLimit)
      <4>1. TailLimit <= Len(b)
        <5> HIDE DEF t
        <5> QED
            BY <1>0, <1>1, <3>1
      <4>2. Last(d, 0) \o Last(b, TailLimit) = Last(e, 0 + TailLimit)
          BY <1>0, <3>1, <4>1, LastOfJoin
      <4>3. Last(d, 0) = << >>
          BY <1>0, SubSeqEmpty DEF Last
      <4>4. Last(b, TailLimit) \in Seq(Bytes)
          BY <3>1, <4>1, LastPart
      <4>5. << >> \o Last(b, TailLimit) = Last(b, TailLimit)
          BY <4>4, ConcatEmptySeq
      <4>6. 0 + TailLimit = TailLimit
          BY <3>1
      <4> QED
          BY Zenon, <4>2, <4>3, <4>5, <4>6
    <3> QED
        BY Zenon, <3>1, <3>2, <3>3, <3>4
  <2>2. CASE ~(Len(rest) >= TailLimit)
    <3> DEFINE j == Least(TailLimit, k)
    <3>1. j \in Nat /\ j <= k /\ (IF Len(long) > TailLimit THEN Len(long) - TailLimit ELSE 0) = Len(long) - j
      <4>1. TailLimit \in Nat /\ k \in Nat /\ Len(long) = k
          BY Zenon, <1>5, SampleLimits
      <4> HIDE DEF k, long
      <4> QED
          BY <4>1 DEF Least
    <3>2. tail = Last(long, j)
        BY Zenon, <2>2, <3>1 DEF Last
    <3>3. Last(long, j) = Last(e, j)
      <4>1. long = Last(e, k) /\ k \in Nat /\ k <= Len(e) /\ e \in Seq(Bytes)
          BY Zenon, <1>0, <1>5
      <4> HIDE DEF j, k, e, long
      <4> QED
          BY <3>1, <4>1, LastOfLast
    <3> QED
        BY Zenon, <3>2, <3>3
  <2> QED
      BY Zenon, <2>1, <2>2
<1>7. (IF TailLimit = 0 THEN r.tail ELSE tail) = Sampled(e).tail
  <2>1. Sampled(e).tail = Last(e, Least(TailLimit, k))
      BY Zenon, <1>0, <1>1 DEF Sampled, Last
  <2>2. ASSUME TailLimit = 0 PROVE r.tail = tail
    <3>1. r.tail = Last(d, q)
        BY Zenon DEF Sampled, Last, Tailed
    <3>2. q = 0
        BY <2>2, <1>0, <1>1, SampleLimits DEF Least, After, Tailed
    <3>3. \A s \in Seq(Bytes) : Last(s, 0) = << >>
      <4> SUFFICES ASSUME NEW s \in Seq(Bytes) PROVE Last(s, 0) = << >>
          OBVIOUS
      <4>1. Len(s) \in Nat
          BY LenProperties
      <4> QED
          BY <4>1, SubSeqEmpty DEF Last
    <3>4. Least(TailLimit, k) = 0
      <4>1. k \in Nat
          BY <1>5
      <4> HIDE DEF k
      <4> QED
          BY <2>2, <4>1 DEF Least
    <3> QED
        BY Zenon, <1>0, <1>6, <3>1, <3>2, <3>3, <3>4
  <2> QED
      BY Zenon, <1>6, <2>1, <2>2
<1>8. (IF Len(Sampled(e).head) = HeadLimit /\ r.next = <<>> /\ t < n THEN <<b[t + 1]>> ELSE r.next) = Sampled(e).next
  <2>0. /\ r.next = SubSeq(d, HeadLimit + 1, Least(HeadLimit + 1, m))
        /\ Sampled(e).next = SubSeq(e, HeadLimit + 1, Least(HeadLimit + 1, m + n))
        /\ HeadLimit \in Nat
      BY Zenon, <1>0, SampleLimits DEF Sampled
  <2>1. Len(Sampled(e).head) = p + t
    <3>1. Sampled(e).head = SubSeq(e, 1, p + t)
        BY <1>0, <1>1 DEF Sampled
    <3>2. p + t \in Int /\ p + t <= Len(e) /\ (IF 1 <= p + t THEN p + t - 1 + 1 ELSE 0) = p + t
      <4> HIDE DEF p, t, e, m, n
      <4> QED
          BY <1>0, <1>1
    <3>3. Len(SubSeq(e, 1, p + t)) = IF 1 <= p + t THEN p + t - 1 + 1 ELSE 0
      <4> HIDE DEF p, t, e
      <4> QED
          BY <1>0, <3>2, Part
    <3> QED
        BY <3>1, <3>2, <3>3
  <2>2. CASE m > HeadLimit
    <3>1. Least(HeadLimit + 1, m) = HeadLimit + 1 /\ Least(HeadLimit + 1, m + n) = HeadLimit + 1
      <4> HIDE DEF m, n
      <4> QED
          BY <1>0, <2>0, <2>2 DEF Least
    <3>2. HeadLimit + 1 \in 1 .. Len(d) /\ HeadLimit + 1 \in 1 .. Len(d) + Len(b) /\ HeadLimit + 1 <= Len(d)
        BY <1>0, <2>0, <2>2
    <3>3. r.next = <<d[HeadLimit + 1]>>
        BY <2>0, <3>1, <3>2, OneByte
    <3>4. HeadLimit + 1 \in 1 .. Len(e) /\ e[HeadLimit + 1] = d[HeadLimit + 1]
      <4>1. \A i \in 1 .. Len(d) + Len(b) : e[i] = IF i <= Len(d) THEN d[i] ELSE b[i - Len(d)]
          BY ConcatProperties
      <4> HIDE DEF e
      <4> QED
          BY <1>0, <3>2, <4>1
    <3>5. SubSeq(e, HeadLimit + 1, HeadLimit + 1) = <<e[HeadLimit + 1]>>
      <4> HIDE DEF e
      <4> QED
          BY <1>0, <3>4, OneByte
    <3>6. r.next # << >>
        BY <3>3
    <3> QED
        BY <2>0, <3>1, <3>3, <3>4, <3>5, <3>6
  <2>3. CASE ~(m > HeadLimit)
    <3>1. r.next = << >>
      <4>1. Least(HeadLimit + 1, m) = m /\ m < HeadLimit + 1
        <5> HIDE DEF m
        <5> QED
            BY <1>0, <2>0, <2>3 DEF Least
      <4>2. SubSeq(d, HeadLimit + 1, m) = << >>
          BY <1>0, <2>0, <4>1, SubSeqEmpty
      <4> QED
          BY <2>0, <4>1, <4>2
    <3>2. CASE m + n > HeadLimit
      <4>1. p + t = HeadLimit /\ t < n /\ m + t = HeadLimit /\ Least(HeadLimit + 1, m + n) = HeadLimit + 1
        <5> HIDE DEF m, n, p, t
        <5> QED
            BY <1>0, <1>1, <2>0, <2>3, <3>2 DEF Least
      <4>2. /\ HeadLimit + 1 \in 1 .. Len(e) /\ HeadLimit + 1 \in 1 .. Len(d) + Len(b)
            /\ ~(HeadLimit + 1 <= Len(d)) /\ HeadLimit + 1 - Len(d) = t + 1
        <5>1. m = Len(d) /\ n = Len(b)
            OBVIOUS
        <5> HIDE DEF m, n, p, t, e
        <5> QED
            BY <1>0, <1>1, <2>0, <2>3, <3>2, <4>1, <5>1
      <4>3. e[HeadLimit + 1] = b[t + 1]
        <5>1. \A i \in 1 .. Len(d) + Len(b) : e[i] = IF i <= Len(d) THEN d[i] ELSE b[i - Len(d)]
            BY ConcatProperties
        <5> HIDE DEF e, t
        <5>2. PICK z : z = HeadLimit + 1
            OBVIOUS
        <5>3. z \in 1 .. Len(d) + Len(b) /\ ~(z <= Len(d)) /\ z - Len(d) = t + 1
            BY <1>0, <2>0, <4>2, <5>2
        <5>4. e[z] = b[z - Len(d)]
            BY <5>1, <5>3
        <5>5. e[z] = b[t + 1]
            BY <5>3, <5>4, Zenon
        <5> QED
            BY <5>2, <5>5, Zenon
      <4>4. SubSeq(e, HeadLimit + 1, HeadLimit + 1) = <<e[HeadLimit + 1]>>
        <5> HIDE DEF e
        <5> QED
            BY <1>0, <4>2, OneByte
      <4> QED
          BY Zenon, <2>0, <2>1, <3>1, <4>1, <4>3, <4>4
    <3>3. CASE ~(m + n > HeadLimit)
      <4>1. ~(p + t = HeadLimit /\ t < n) /\ Least(HeadLimit + 1, m + n) = m + n /\ m + n < HeadLimit + 1
        <5> HIDE DEF m, n, p, t
        <5> QED
            BY <1>0, <1>1, <2>0, <2>3, <3>3 DEF Least
      <4>2. SubSeq(e, HeadLimit + 1, m + n) = << >>
        <5> HIDE DEF m, n, e
        <5> QED
            BY <1>0, <2>0, <4>1, SubSeqEmpty
      <4> QED
          BY Zenon, <2>0, <2>1, <3>1, <4>1, <4>2
    <3> QED
        BY <3>2, <3>3
  <2> QED
      BY <2>2, <2>3
<1>9. Observe(r, b) = [head |-> r.head \o SubSeq(b, 1, t),
                       next |-> IF Len(r.head \o SubSeq(b, 1, t)) = HeadLimit /\ r.next = <<>> /\ t < n THEN <<b[t + 1]>> ELSE r.next,
                       tail |-> IF TailLimit = 0 THEN r.tail ELSE tail]
  <2>1. (IF HeadLimit - Len(r.head) < Len(b) THEN HeadLimit - Len(r.head) ELSE Len(b)) = t
      BY Zenon, <1>2 DEF Taken
  <2> QED
      BY Zenon, <2>1 DEF Observe
<1>10. Sampled(e) = [head |-> Sampled(e).head, next |-> Sampled(e).next, tail |-> Sampled(e).tail]
    BY DEF Sampled
<1> QED
  <2>1. Observe(r, b) = [head |-> Sampled(e).head, next |-> Sampled(e).next, tail |-> Sampled(e).tail]
    <3> HIDE DEF r, t, tail, e, n
    <3> QED
        BY Zenon, <1>3, <1>7, <1>8, <1>9
  <2> QED
      BY <1>10, <2>1
=============================================================================
