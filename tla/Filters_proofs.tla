--------------------------- MODULE Filters_proofs ---------------------------
(***************************************************************************)
(* Induction over numbers and sequences in the form the provers can use,   *)
(* over sets in place of predicates, what a recursion over a prefix of the *)
(* numbers computes, and what that makes of a filter.                      *)
(***************************************************************************)
EXTENDS Filters, SequenceTheorems, WellFoundedInduction, TLAPS

\* A set of numbers has a least one.
LEMMA LeastNat ==
  ASSUME NEW T, T \subseteq Nat, T # {}
  PROVE  \E n \in T : \A m \in T : n <= m
<1> DEFINE R == {ss \in Nat \X Nat : ss[1] < ss[2]}
<1>1. IsWellFoundedOn(R, Nat)  BY NatLessThanWellFounded DEF OpToRel
<1>2. \E x \in T : \A y \in T : ~(<<y, x>> \in R)  BY <1>1, WFMin
<1>3. ASSUME NEW x \in T, NEW y \in T, <<y, x>> \notin R PROVE x <= y
  <2>1. x \in Nat /\ y \in Nat  OBVIOUS
  <2>2. ~(<<y, x>>[1] < <<y, x>>[2])  BY <1>3, <2>1
  <2> QED BY <2>1, <2>2
<1> HIDE DEF R
<1> QED BY <1>2, <1>3

\* Induction over the numbers.
LEMMA NatSetInduction ==
  ASSUME NEW S, 0 \in S, \A n \in Nat : n \in S => n + 1 \in S
  PROVE  Nat \subseteq S
<1> SUFFICES ASSUME Nat \ S # {} PROVE FALSE  OBVIOUS
<1>1. PICK n \in Nat \ S : \A m \in Nat \ S : n <= m  BY LeastNat
<1>2. n # 0 /\ n - 1 \in Nat /\ n - 1 \notin Nat \ S  BY <1>1
<1> QED BY <1>1, <1>2

\* Induction over the numbers up to a bound.
LEMMA BoundedInduction ==
  ASSUME NEW N \in Nat, NEW S, 0 \in S,
         \A n \in 1..N : n - 1 \in S => n \in S
  PROVE  0..N \subseteq S
<1> DEFINE T == {n \in Nat : n <= N => n \in S}
<1>1. 0 \in T  OBVIOUS
<1>2. ASSUME NEW n \in Nat, n \in T PROVE n + 1 \in T
  <2>1. CASE n + 1 > N  BY <2>1
  <2>2. CASE n + 1 <= N
    <3>1. n \in S  BY <1>2, <2>2
    <3>2. n + 1 \in 1..N /\ (n + 1) - 1 = n  BY <2>2
    <3>3. n + 1 \in S  BY <3>1, <3>2
    <3> QED BY <3>3
  <2> QED BY <2>1, <2>2
<1> HIDE DEF T
<1>3. Nat \subseteq T  BY <1>1, <1>2, NatSetInduction
<1> QED BY <1>3 DEF T

\* Induction over sequences, from the shorter to the longer.
LEMMA SeqSetInduction ==
  ASSUME NEW T, NEW P, <<>> \in P,
         \A s \in Seq(T) : \A x \in T : s \in P => Append(s, x) \in P
  PROVE  Seq(T) \subseteq P
<1> DEFINE S == {n \in Nat : \A s \in Seq(T) : Len(s) = n => s \in P}
<1>1. 0 \in S
  <2>1. \A s \in Seq(T) : Len(s) = 0 => s = <<>>  OBVIOUS
  <2> QED BY <2>1
<1>2. ASSUME NEW n \in Nat, n \in S PROVE n + 1 \in S
  <2> SUFFICES ASSUME NEW s \in Seq(T), Len(s) = n + 1 PROVE s \in P  OBVIOUS
  <2> DEFINE front == SubSeq(s, 1, n)
  <2>1. front \in Seq(T) /\ Len(front) = n /\ s[n + 1] \in T
    BY SubSeqProperties
  <2>2. Append(front, s[n + 1]) = s
    <3>1. Len(Append(front, s[n + 1])) = Len(s)  BY <2>1
    <3>2. \A k \in 1..Len(s) : Append(front, s[n + 1])[k] = s[k]
      BY <2>1, SubSeqProperties
    <3> HIDE DEF front
    <3> QED BY <3>1, <3>2, <2>1, SeqEqual, AppendProperties
  <2>3. front \in P  BY <1>2, <2>1
  <2> HIDE DEF front
  <2> QED BY <2>1, <2>2, <2>3
<1> HIDE DEF S
<1>3. Nat \subseteq S  BY <1>1, <1>2, NatSetInduction
<1> QED BY <1>3 DEF S

-----------------------------------------------------------------------------
(* Recursion over 0..N.                                                    *)

\* f starts at base and goes on by step, a function of the number and the value
\* before it.
Iterates(f, N, base, step) ==
  f = [n \in 0..N |-> IF n = 0 THEN base ELSE step[<<n, f[n - 1]>>]]

\* There is such a function, and its values stay where step keeps them.
LEMMA IterationExists ==
  ASSUME NEW N \in Nat, NEW V, NEW base \in V, NEW step \in [(1..N) \X V -> V]
  PROVE  \E f \in [0..N -> V] : Iterates(f, N, base, step)
<1> DEFINE Good(n) == \E f \in [0..n -> V] :
             \A k \in 0..n : f[k] = IF k = 0 THEN base ELSE step[<<k, f[k - 1]>>]
           S == {n \in 0..N : Good(n)}
<1>1. 0 \in S
  <2> DEFINE f == [k \in 0..0 |-> base]
  <2>1. f \in [0..0 -> V]  OBVIOUS
  <2>2. \A k \in 0..0 : k = 0 /\ f[k] = base  OBVIOUS
  <2> HIDE DEF f
  <2>3. Good(0)  BY <2>1, <2>2
  <2> QED BY <2>3
<1>2. ASSUME NEW n \in 1..N, n - 1 \in S PROVE n \in S
  <2>1. PICK f \in [0..(n - 1) -> V] :
          \A k \in 0..(n - 1) : f[k] = IF k = 0 THEN base ELSE step[<<k, f[k - 1]>>]
    BY <1>2
  <2> DEFINE g == [k \in 0..n |-> IF k < n THEN f[k] ELSE step[<<n, f[n - 1]>>]]
  <2>2. step[<<n, f[n - 1]>>] \in V  OBVIOUS
  <2>3. g \in [0..n -> V]  BY <2>2
  <2>4. ASSUME NEW k \in 0..n
        PROVE  g[k] = IF k = 0 THEN base ELSE step[<<k, g[k - 1]>>]
    <3>1. CASE k < n
      <4>1. k \in 0..(n - 1) /\ g[k] = f[k] /\ (k # 0 => k - 1 \in 0..n /\ k - 1 < n)  BY <3>1
      <4>2. k # 0 => g[k - 1] = f[k - 1]  BY <4>1
      <4> QED BY <4>1, <4>2, <2>1
    <3>2. CASE k = n
      <4>1. g[k] = step[<<n, f[n - 1]>>] /\ g[n - 1] = f[n - 1]  BY <3>2
      <4> QED BY <4>1, <3>2
    <3> QED BY <3>1, <3>2
  <2> HIDE DEF g
  <2>5. Good(n)  BY <2>3, <2>4
  <2> QED BY <2>5
<1> HIDE DEF S
<1>3. 0..N \subseteq S  BY <1>1, <1>2, BoundedInduction
<1>4. Good(N)  BY <1>3 DEF S
<1>5. PICK f \in [0..N -> V] :
        \A k \in 0..N : f[k] = IF k = 0 THEN base ELSE step[<<k, f[k - 1]>>]
  BY <1>4
<1>6. Iterates(f, N, base, step)  BY <1>5 DEF Iterates
<1> QED BY <1>6

\* Two such functions, one perhaps longer, agree where both are defined.
LEMMA IterationUnique ==
  ASSUME NEW N \in Nat, NEW M \in Nat, N <= M,
         NEW base, NEW f, NEW g, NEW fs, NEW gs,
         Iterates(f, N, base, fs), Iterates(g, M, base, gs),
         \A n \in 1..N : fs[<<n, f[n - 1]>>] = gs[<<n, f[n - 1]>>]
  PROVE  \A n \in 0..N : f[n] = g[n]
<1> DEFINE S == {n \in 0..N : f[n] = g[n]}
<1>1. 0 \in S
  <2>1. f[0] = base  BY DEF Iterates
  <2>2. g[0] = base  BY DEF Iterates
  <2> QED BY <2>1, <2>2
<1>2. ASSUME NEW n \in 1..N, n - 1 \in S PROVE n \in S
  <2>1. f[n] = fs[<<n, f[n - 1]>>]  BY DEF Iterates
  <2>2. g[n] = gs[<<n, g[n - 1]>>]  BY DEF Iterates
  <2>3. f[n - 1] = g[n - 1]  BY <1>2
  <2>4. f[n] = g[n]  BY <2>1, <2>2, <2>3
  <2> QED BY <2>4
<1> HIDE DEF S
<1>3. 0..N \subseteq S  BY <1>1, <1>2, BoundedInduction
<1> QED BY <1>3 DEF S

-----------------------------------------------------------------------------
(* Recursion over a forest: everything has one thing above it, or is a     *)
(* root, and what is above is of a lower rank.                             *)

Forest(E, up, rank, N, root) ==
  /\ N \in Nat /\ rank \in [E -> 1..N]
  /\ up \in [E -> E \cup {root}] /\ root \notin E
  /\ \A i \in E : up[i] # root => rank[up[i]] < rank[i]

\* What holds of the roots, and of everything below what it holds of, holds of all.
LEMMA ForestInduction ==
  ASSUME NEW E, NEW up, NEW rank, NEW N, NEW root, Forest(E, up, rank, N, root),
         NEW S, \A i \in E : (up[i] # root => up[i] \in S) => i \in S
  PROVE  E \subseteq S
<1> SUFFICES ASSUME E \ S # {} PROVE FALSE  OBVIOUS
<1> DEFINE T == {rank[i] : i \in E \ S}
<1>1. T \subseteq Nat /\ T # {}  BY DEF Forest
<1>2. PICK n \in T : \A m \in T : n <= m  BY <1>1, LeastNat
<1>3. PICK i \in E \ S : n = rank[i]  BY <1>2
<1>4. up[i] # root /\ up[i] \in E \ S  BY <1>3 DEF Forest
<1>5. rank[up[i]] \in T /\ rank[up[i]] < rank[i]  BY <1>3, <1>4 DEF Forest
<1>6. rank[up[i]] \in Nat /\ rank[i] \in Nat /\ rank[i] <= rank[up[i]]
  BY <1>1, <1>2, <1>3, <1>5
<1> QED BY <1>5, <1>6

\* Functions into V can be defined from the roots down.
Recursive(E, up, root, V) ==
  \A base \in [E -> V], step \in [E \X V -> V] :
    \E f \in [E -> V] :
      \A i \in E : f[i] = IF up[i] = root THEN base[i] ELSE step[<<i, f[up[i]]>>]

\* In a forest they can.
LEMMA ForestRecursion ==
  ASSUME NEW E, NEW up, NEW rank, NEW N, NEW root, Forest(E, up, rank, N, root)
  PROVE  \A V : Recursive(E, up, root, V)
<1> USE DEF Recursive
<1> TAKE V
<1> TAKE base \in [E -> V], step \in [E \X V -> V]
<1> DEFINE W == [E -> V]
           next == [p \in (1..N) \X W |->
                      [i \in E |-> IF rank[i] # p[1] THEN p[2][i]
                                   ELSE IF up[i] = root THEN base[i]
                                   ELSE step[<<i, p[2][up[i]]>>]]]
<1>1. /\ N \in Nat /\ base \in W
      /\ \A i \in E : rank[i] \in 1..N /\ rank[i] \in Nat
      /\ \A i \in E : up[i] # root => up[i] \in E /\ rank[up[i]] < rank[i]
  BY DEF Forest
<1>2. next \in [(1..N) \X W -> W]
  <2> SUFFICES ASSUME NEW n \in 1..N, NEW g \in W
               PROVE  [i \in E |-> IF rank[i] # n THEN g[i]
                                   ELSE IF up[i] = root THEN base[i]
                                   ELSE step[<<i, g[up[i]]>>]] \in W
    OBVIOUS
  <2>1. ASSUME NEW i \in E, up[i] # root PROVE step[<<i, g[up[i]]>>] \in V
    <3>1. <<i, g[up[i]]>> \in E \X V  BY <1>1, <2>1
    <3> QED BY <3>1
  <2> QED BY <2>1
<1>3. PICK g \in [0..N -> W] : Iterates(g, N, base, next)
  <2> HIDE DEF W, next
  <2> QED BY <1>1, <1>2, IterationExists
<1>4. \A n \in 1..N : \A i \in E :
        g[n][i] = IF rank[i] # n THEN g[n - 1][i]
                  ELSE IF up[i] = root THEN base[i] ELSE step[<<i, g[n - 1][up[i]]>>]
  <2> TAKE n \in 1..N
  <2>1. n - 1 \in 0..N /\ n \in 0..N /\ n # 0  BY <1>1
  <2>2. <<n, g[n - 1]>> \in (1..N) \X W  BY <2>1
  <2>3. g[n] = next[<<n, g[n - 1]>>]
    <3> HIDE DEF W, next
    <3> QED BY <1>3, <2>1 DEF Iterates
  <2> QED BY <2>2, <2>3
<1> HIDE DEF W, next
<1>5. ASSUME NEW i \in E PROVE \A n \in rank[i]..N : g[n][i] = g[rank[i]][i]
  <2> DEFINE r == rank[i]
             P == {n \in 0..N : n >= r => g[n][i] = g[r][i]}
  <2>0. r \in 1..N /\ r \in Nat  BY <1>1
  <2>1. 0 \in P  BY <1>1, <2>0
  <2>2. ASSUME NEW n \in 1..N, n - 1 \in P PROVE n \in P
    <3>1. n \in 0..N /\ n \in Nat  BY <1>1
    <3>2. CASE n <= r  BY <3>1, <3>2, <2>0
    <3>3. CASE n > r
      <4>1. n - 1 >= r /\ n # r  BY <2>0, <3>1, <3>3
      <4>2. g[n - 1][i] = g[r][i]  BY <2>2, <4>1
      <4>3. g[n][i] = g[n - 1][i]  BY <1>4, <4>1
      <4> QED BY <3>1, <4>2, <4>3
    <3> QED BY <3>1, <3>2, <3>3, <2>0
  <2> HIDE DEF P
  <2>3. 0..N \subseteq P  BY <1>1, <2>1, <2>2, BoundedInduction
  <2> QED BY <1>1, <2>0, <2>3 DEF P
<1> DEFINE f == [i \in E |-> g[N][i]]
<1>6. f \in [E -> V]
  <2>1. N \in 0..N  BY <1>1
  <2> QED BY <2>1 DEF W
<1>7. ASSUME NEW i \in E
      PROVE  f[i] = IF up[i] = root THEN base[i] ELSE step[<<i, f[up[i]]>>]
  <2> DEFINE r == rank[i]
  <2>1. r \in 1..N /\ N \in r..N  BY <1>1
  <2>2. f[i] = g[r][i]  BY <1>5, <2>1
  <2>3. g[r][i] = IF up[i] = root THEN base[i] ELSE step[<<i, g[r - 1][up[i]]>>]
    BY <1>4, <2>1
  <2>4. CASE up[i] # root
    <3> DEFINE u == up[i]
    <3>1. u \in E /\ rank[u] < r /\ rank[u] \in Nat  BY <1>1, <2>4
    <3> HIDE DEF u, r
    <3>2. r - 1 \in rank[u]..N /\ N \in rank[u]..N  BY <1>1, <2>1, <3>1
    <3>3. g[r - 1][u] = g[rank[u]][u] /\ g[N][u] = g[rank[u]][u]  BY <1>5, <3>1, <3>2
    <3>4. f[u] = g[r - 1][u]  BY <3>1, <3>3
    <3> QED BY <2>2, <2>3, <2>4, <3>4 DEF u
  <2> QED BY <2>2, <2>3, <2>4
<1> HIDE DEF f
<1> QED BY <1>6, <1>7

-----------------------------------------------------------------------------
(* Filters.                                                                *)

\* What Within does at element n of s.
Sieve(s, S, V) == [p \in (1..Len(s)) \X V |->
                     IF s[p[1]] \in S THEN Append(p[2], s[p[1]]) ELSE p[2]]

\* What is kept of the prefixes of s.
Sifts(f, T, s, S) ==
  /\ f \in [0..Len(s) -> Seq(T)]
  /\ f[0] = <<>>
  /\ \A n \in 1..Len(s) :
       f[n] = IF s[n] \in S THEN Append(f[n - 1], s[n]) ELSE f[n - 1]

\* Within is the last value of the recursion that goes through s.
LEMMA WithinIterates ==
  ASSUME NEW T, NEW s \in Seq(T), NEW S
  PROVE  \E f : Sifts(f, T, s, S) /\ Within(s, S) = f[Len(s)]
<1> DEFINE N == Len(s)
           step == Sieve(s, S, Seq(T))
           IsIt(f) == f = [n \in 0..N |-> IF n = 0 THEN <<>> ELSE
                             IF s[n] \in S THEN Append(f[n - 1], s[n]) ELSE f[n - 1]]
<1>1. N \in Nat /\ <<>> \in Seq(T)  OBVIOUS
<1>2. step \in [(1..N) \X Seq(T) -> Seq(T)]  BY DEF Sieve
<1>3. PICK g \in [0..N -> Seq(T)] : Iterates(g, N, <<>>, step)
  <2> HIDE DEF N, step
  <2> QED BY <1>1, <1>2, IterationExists
<1>4. \A n \in 1..N : step[<<n, g[n - 1]>>]
                       = IF s[n] \in S THEN Append(g[n - 1], s[n]) ELSE g[n - 1]
  <2> TAKE n \in 1..N
  <2>1. n - 1 \in 0..N /\ g[n - 1] \in Seq(T)  OBVIOUS
  <2>2. <<n, g[n - 1]>> \in (1..N) \X Seq(T)  BY <2>1
  <2> QED BY <2>2 DEF Sieve
<1>5. IsIt(g)
  <2> HIDE DEF step
  <2>1. g = [n \in 0..N |-> IF n = 0 THEN <<>> ELSE step[<<n, g[n - 1]>>]]
    BY <1>3 DEF Iterates
  <2>2. [n \in 0..N |-> IF n = 0 THEN <<>> ELSE step[<<n, g[n - 1]>>]]
        = [n \in 0..N |-> IF n = 0 THEN <<>> ELSE
             IF s[n] \in S THEN Append(g[n - 1], s[n]) ELSE g[n - 1]]
    <3>1. \A n \in 0..N : n # 0 => n \in 1..N  BY <1>1
    <3> HIDE DEF N
    <3> QED BY <1>4, <3>1
  <2> QED BY <2>1, <2>2
<1>6. PICK f : IsIt(f) /\ Within(s, S) = f[N]
  <2> DEFINE c == CHOOSE h : IsIt(h)
  <2>1. IsIt(c)  BY <1>5
  <2>2. Within(s, S) = c[N]  BY DEF Within
  <2> HIDE DEF c, IsIt, N
  <2> QED BY <2>1, <2>2
<1>8. /\ f[0] = <<>>
      /\ \A n \in 1..N : f[n] = IF s[n] \in S THEN Append(f[n - 1], s[n]) ELSE f[n - 1]
  <2>1. 0 \in 0..N /\ \A n \in 1..N : n \in 0..N /\ n # 0  BY <1>1
  <2> HIDE DEF N
  <2> QED BY <1>6, <2>1
<1>9. f = [n \in 0..N |-> f[n]]
  <2> HIDE DEF N
  <2> QED BY <1>6
<1> HIDE DEF IsIt
<1>10. \A n \in 0..N : f[n] \in Seq(T)
  <2> DEFINE P == {n \in 0..N : f[n] \in Seq(T)}
  <2>1. 0 \in P
    <3>1. f[0] = <<>>  BY <1>8
    <3>2. f[0] \in Seq(T)  BY <3>1, <1>1
    <3> QED BY <3>2, <1>1
  <2>2. ASSUME NEW n \in 1..N, n - 1 \in P PROVE n \in P
    <3>1. f[n - 1] \in Seq(T) /\ s[n] \in T  BY <2>2
    <3>2. f[n] = IF s[n] \in S THEN Append(f[n - 1], s[n]) ELSE f[n - 1]  BY <1>8
    <3>3. Append(f[n - 1], s[n]) \in Seq(T)  BY <3>1
    <3>4. f[n] \in Seq(T)  BY <3>2, <3>3, <3>1
    <3> QED BY <3>4
  <2> HIDE DEF P
  <2>3. 0..N \subseteq P  BY <1>1, <2>1, <2>2, BoundedInduction
  <2> QED BY <2>3 DEF P
<1> QED BY <1>6, <1>8, <1>9, <1>10 DEF Sifts

\* A filter gives a sequence of the same elements.
LEMMA WithinType ==
  ASSUME NEW T, NEW s \in Seq(T), NEW S
  PROVE  Within(s, S) \in Seq(T)
<1>1. PICK f : Sifts(f, T, s, S) /\ Within(s, S) = f[Len(s)]  BY WithinIterates
<1> QED BY <1>1 DEF Sifts

\* Nothing of nothing.
LEMMA WithinEmpty == \A S : Within(<<>>, S) = <<>>
<1> SUFFICES ASSUME NEW S PROVE Within(<<>>, S) = <<>>  OBVIOUS
<1>1. <<>> \in Seq({})  OBVIOUS
<1>2. PICK f : Sifts(f, {}, <<>>, S) /\ Within(<<>>, S) = f[Len(<<>>)]
  BY <1>1, WithinIterates
<1> QED BY <1>2 DEF Sifts

\* A filter goes on with its last element.
LEMMA WithinAppend ==
  ASSUME NEW T, NEW s \in Seq(T), NEW x \in T, NEW S
  PROVE  Within(Append(s, x), S) = IF x \in S THEN Append(Within(s, S), x) ELSE Within(s, S)
<1> DEFINE t == Append(s, x)
           N == Len(s)
<1>1. t \in Seq(T) /\ N \in Nat /\ Len(t) = N + 1 /\ t[N + 1] = x
      /\ \A n \in 1..N : t[n] = s[n]
  OBVIOUS
<1>2. PICK f : Sifts(f, T, s, S) /\ Within(s, S) = f[N]  BY WithinIterates
<1> HIDE DEF t
<1>3. PICK g : Sifts(g, T, t, S) /\ Within(t, S) = g[Len(t)]  BY <1>1, WithinIterates
<1> DEFINE P == {n \in 0..N : f[n] = g[n]}
<1>4. 0 \in P  BY <1>1, <1>2, <1>3 DEF Sifts
<1>5. ASSUME NEW n \in 1..N, n - 1 \in P PROVE n \in P
  <2>1. n \in 1..Len(t) /\ t[n] = s[n] /\ f[n - 1] = g[n - 1]  BY <1>1, <1>5
  <2>2. f[n] = g[n]  BY <2>1, <1>2, <1>3 DEF Sifts
  <2> QED BY <2>2
<1> HIDE DEF P, N
<1>6. 0..N \subseteq P  BY <1>1, <1>4, <1>5, BoundedInduction
<1>7. f[N] = g[N]  BY <1>1, <1>6 DEF P
<1>8. N + 1 \in 1..Len(t) /\ (N + 1) - 1 = N  BY <1>1
<1>9. g[N + 1] = IF x \in S THEN Append(g[N], x) ELSE g[N]
  BY <1>1, <1>3, <1>8 DEF Sifts
<1> QED BY <1>1, <1>2, <1>3, <1>7, <1>9 DEF t

\* The elements of a sequence.
Elements(s) == {s[i] : i \in 1..Len(s)}

\* One more element.
LEMMA ElementsAppend ==
  ASSUME NEW T, NEW s \in Seq(T), NEW x \in T
  PROVE  Elements(Append(s, x)) = Elements(s) \cup {x}
<1>1. ASSUME NEW y \in Elements(Append(s, x)) PROVE y \in Elements(s) \cup {x}
  BY DEF Elements
<1>2. ASSUME NEW y \in Elements(s) PROVE y \in Elements(Append(s, x))
  <2>1. PICK i \in 1..Len(s) : y = s[i]  BY DEF Elements
  <2>2. i \in 1..Len(Append(s, x)) /\ Append(s, x)[i] = y  BY <2>1
  <2> QED BY <2>2 DEF Elements
<1>3. x \in Elements(Append(s, x))
  <2>1. Len(s) + 1 \in 1..Len(Append(s, x)) /\ Append(s, x)[Len(s) + 1] = x  OBVIOUS
  <2> QED BY <2>1 DEF Elements
<1> QED BY <1>1, <1>2, <1>3

\* A filter keeps the elements that are in the set.
LEMMA WithinElements ==
  ASSUME NEW T, NEW S
  PROVE  \A s \in Seq(T) : Elements(Within(s, S)) = Elements(s) \cap S
<1> DEFINE P == {s \in Seq(T) : Elements(Within(s, S)) = Elements(s) \cap S}
<1>1. <<>> \in P
  <2>1. Elements(<<>>) = {}  BY DEF Elements
  <2> QED BY <2>1, WithinEmpty
<1>2. ASSUME NEW s \in Seq(T), NEW x \in T, s \in P PROVE Append(s, x) \in P
  <2>1. Within(s, S) \in Seq(T) /\ Append(s, x) \in Seq(T)  BY WithinType
  <2>2. Elements(Append(s, x)) = Elements(s) \cup {x}  BY ElementsAppend
  <2>3. CASE x \in S
    <3>1. Elements(Append(Within(s, S), x)) = Elements(Within(s, S)) \cup {x}
      BY <2>1, ElementsAppend
    <3>2. Within(Append(s, x), S) = Append(Within(s, S), x)  BY <2>3, WithinAppend
    <3>3. Elements(Append(s, x)) \cap S = (Elements(s) \cap S) \cup {x}  BY <2>2, <2>3
    <3>4. Elements(Within(s, S)) = Elements(s) \cap S  BY <1>2
    <3>5. Elements(Within(Append(s, x), S)) = Elements(Append(s, x)) \cap S
      BY <3>1, <3>2, <3>3, <3>4
    <3> QED BY <3>5, <2>1
  <2>4. CASE x \notin S
    BY <2>1, <2>2, <2>4, <1>2, WithinAppend
  <2> QED BY <2>3, <2>4
<1> HIDE DEF P
<1>3. Seq(T) \subseteq P  BY <1>1, <1>2, SeqSetInduction
<1> QED BY <1>3 DEF P

\* Only the elements of the sequence matter in the set.
LEMMA WithinSame ==
  ASSUME NEW T, NEW S, NEW R
  PROVE  \A s \in Seq(T) :
           (\A x \in Elements(s) : x \in S <=> x \in R) => Within(s, S) = Within(s, R)
<1> DEFINE Same(s) == (\A x \in Elements(s) : x \in S <=> x \in R) => Within(s, S) = Within(s, R)
           P == {s \in Seq(T) : Same(s)}
<1>1. <<>> \in P  BY WithinEmpty
<1>2. ASSUME NEW s \in Seq(T), NEW x \in T, s \in P PROVE Append(s, x) \in P
  <2>1. Elements(Append(s, x)) = Elements(s) \cup {x}  BY ElementsAppend
  <2>2. SUFFICES ASSUME \A y \in Elements(s) \cup {x} : y \in S <=> y \in R
                 PROVE  Within(Append(s, x), S) = Within(Append(s, x), R)
    BY <2>1
  <2>3. Within(s, S) = Within(s, R)  BY <1>2, <2>2
  <2>4. Within(Append(s, x), S) = IF x \in S THEN Append(Within(s, S), x) ELSE Within(s, S)
    BY WithinAppend
  <2>5. Within(Append(s, x), R) = IF x \in R THEN Append(Within(s, R), x) ELSE Within(s, R)
    BY WithinAppend
  <2> QED BY <2>2, <2>3, <2>4, <2>5
<1> HIDE DEF P
<1>3. Seq(T) \subseteq P  BY <1>1, <1>2, SeqSetInduction
<1> QED BY <1>3 DEF P

\* Two filters are one by both sets.
LEMMA WithinTwice ==
  ASSUME NEW T, NEW S, NEW R
  PROVE  \A s \in Seq(T) : Within(Within(s, S), R) = Within(s, S \cap R)
<1> DEFINE P == {s \in Seq(T) : Within(Within(s, S), R) = Within(s, S \cap R)}
<1>1. <<>> \in P  BY WithinEmpty
<1>2. ASSUME NEW s \in Seq(T), NEW x \in T, s \in P PROVE Append(s, x) \in P
  <2>1. Within(s, S) \in Seq(T)  BY WithinType
  <2>2. Within(Append(s, x), S) = IF x \in S THEN Append(Within(s, S), x) ELSE Within(s, S)
    BY WithinAppend
  <2>3. Within(Append(Within(s, S), x), R)
        = IF x \in R THEN Append(Within(Within(s, S), R), x) ELSE Within(Within(s, S), R)
    BY <2>1, WithinAppend
  <2>4. Within(Append(s, x), S \cap R)
        = IF x \in S \cap R THEN Append(Within(s, S \cap R), x) ELSE Within(s, S \cap R)
    BY WithinAppend
  <2>5. Within(Within(s, S), R) = Within(s, S \cap R)  BY <1>2
  <2>6. Within(Within(Append(s, x), S), R) = Within(Append(s, x), S \cap R)
    <3>1. CASE x \notin S
      BY <2>2, <2>4, <2>5, <3>1
    <3>2. CASE x \in S /\ x \in R
      BY <2>2, <2>3, <2>4, <2>5, <3>2
    <3>3. CASE x \in S /\ x \notin R
      BY <2>2, <2>3, <2>4, <2>5, <3>3
    <3> QED BY <3>1, <3>2, <3>3
  <2> QED BY <2>6
<1> HIDE DEF P
<1>3. Seq(T) \subseteq P  BY <1>1, <1>2, SeqSetInduction
<1> QED BY <1>3 DEF P

\* The filter of a longer sequence is that of its parts.
LEMMA WithinConcat ==
  ASSUME NEW T, NEW S, NEW s \in Seq(T)
  PROVE  \A t \in Seq(T) : Within(s \o t, S) = Within(s, S) \o Within(t, S)
<1> DEFINE P == {t \in Seq(T) : Within(s \o t, S) = Within(s, S) \o Within(t, S)}
<1>0. Within(s, S) \in Seq(T)  BY WithinType
<1>1. <<>> \in P
  <2>1. s \o <<>> = s /\ Within(s, S) \o <<>> = Within(s, S)  BY <1>0
  <2>2. Within(<<>>, S) = <<>>  BY WithinEmpty
  <2>3. <<>> \in Seq(T)  OBVIOUS
  <2>4. Within(s \o <<>>, S) = Within(s, S) \o Within(<<>>, S)  BY <2>1, <2>2
  <2> QED BY <2>3, <2>4
<1>2. ASSUME NEW t \in Seq(T), NEW x \in T, t \in P PROVE Append(t, x) \in P
  <2>1. Within(t, S) \in Seq(T) /\ s \o t \in Seq(T)  BY WithinType
  <2>2. s \o Append(t, x) = Append(s \o t, x)  OBVIOUS
  <2>3. Within(s, S) \o Append(Within(t, S), x) = Append(Within(s, S) \o Within(t, S), x)
    BY <1>0, <2>1
  <2>4. Within(Append(s \o t, x), S)
        = IF x \in S THEN Append(Within(s \o t, S), x) ELSE Within(s \o t, S)
    BY <2>1, WithinAppend
  <2>5. Within(Append(t, x), S) = IF x \in S THEN Append(Within(t, S), x) ELSE Within(t, S)
    BY WithinAppend
  <2>6. Within(s \o t, S) = Within(s, S) \o Within(t, S)  BY <1>2
  <2>7. Within(s \o Append(t, x), S) = Within(s, S) \o Within(Append(t, x), S)
    BY <2>2, <2>3, <2>4, <2>5, <2>6
  <2> QED BY <2>7
<1> HIDE DEF P
<1>3. Seq(T) \subseteq P  BY <1>1, <1>2, SeqSetInduction
<1> QED BY <1>3 DEF P

-----------------------------------------------------------------------------
(* The filter that takes out.                                              *)

\* What is left has the elements that were not taken out.
LEMMA WithoutType ==
  ASSUME NEW T, NEW s \in Seq(T), NEW S
  PROVE  /\ Without(s, S) \in Seq(T)
         /\ Elements(Without(s, S)) = Elements(s) \ S
<1>1. Without(s, S) = Within(s, Elements(s) \ S)  BY DEF Without, Elements
<1>2. Elements(Without(s, S)) = Elements(s) \cap (Elements(s) \ S)  BY <1>1, WithinElements
<1> QED BY <1>1, <1>2, WithinType

\* Nothing of nothing.
LEMMA WithoutEmpty == \A S : Without(<<>>, S) = <<>>
  BY WithinEmpty DEF Without

\* Taking out goes on with the last element.
LEMMA WithoutAppend ==
  ASSUME NEW T, NEW s \in Seq(T), NEW x \in T, NEW S
  PROVE  Without(Append(s, x), S) = IF x \in S THEN Without(s, S) ELSE Append(Without(s, S), x)
<1> DEFINE A == (Elements(s) \cup {x}) \ S
<1>1. Without(s, S) = Within(s, Elements(s) \ S)  BY DEF Without, Elements
<1>2. Without(Append(s, x), S) = Within(Append(s, x), A)
  <2>1. Without(Append(s, x), S) = Within(Append(s, x), Elements(Append(s, x)) \ S)
    BY DEF Without, Elements
  <2>2. Elements(Append(s, x)) = Elements(s) \cup {x}  BY ElementsAppend
  <2> QED BY <2>1, <2>2
<1>3. Within(s, A) = Within(s, Elements(s) \ S)
  <2>1. \A y \in Elements(s) : y \in A <=> y \in Elements(s) \ S  OBVIOUS
  <2> HIDE DEF A
  <2> QED BY <2>1, WithinSame
<1>4. Within(Append(s, x), A) = IF x \in A THEN Append(Within(s, A), x) ELSE Within(s, A)
  <2> HIDE DEF A
  <2> QED BY WithinAppend
<1> QED BY <1>1, <1>2, <1>3, <1>4

\* What Without leaves of a sequence, said with Within.
LEMMA WithoutWithin ==
  ASSUME NEW T, NEW s \in Seq(T), NEW S, NEW R, Elements(s) \subseteq R
  PROVE  Without(s, S) = Within(s, R \ S)
<1>1. Without(s, S) = Within(s, Elements(s) \ S)  BY DEF Without, Elements
<1>2. \A y \in Elements(s) : y \in Elements(s) \ S <=> y \in R \ S  OBVIOUS
<1> QED BY <1>1, <1>2, WithinSame

-----------------------------------------------------------------------------
(* Sequences in an order.                                                  *)

\* Of any two elements the first stands in R to the second.
Chain(s, R) == \A j, k \in 1..Len(s) : j < k => <<s[j], s[k]>> \in R

\* A sequence in order goes on with what comes after all of it.
LEMMA ChainAppend ==
  ASSUME NEW T, NEW s \in Seq(T), NEW x \in T, NEW R
  PROVE  Chain(Append(s, x), R) <=> Chain(s, R) /\ \A y \in Elements(s) : <<y, x>> \in R
<1> DEFINE t == Append(s, x)
           N == Len(s)
<1>1. /\ N \in Nat /\ Len(t) = N + 1 /\ t[N + 1] = x
      /\ \A n \in 1..N : t[n] = s[n]
  OBVIOUS
<1> HIDE DEF t, N
<1>2. ASSUME Chain(t, R) PROVE Chain(s, R) /\ \A y \in Elements(s) : <<y, x>> \in R
  <2>1. ASSUME NEW j \in 1..N, NEW k \in 1..N, j < k PROVE <<s[j], s[k]>> \in R
    <3>1. j \in 1..(N + 1) /\ k \in 1..(N + 1)  BY <1>1
    <3>2. <<t[j], t[k]>> \in R  BY <1>1, <1>2, <2>1, <3>1 DEF Chain
    <3> QED BY <1>1, <3>2
  <2>2. ASSUME NEW y \in Elements(s) PROVE <<y, x>> \in R
    <3>1. PICK j \in 1..N : y = s[j]  BY DEF Elements, N
    <3>2. j \in 1..(N + 1) /\ N + 1 \in 1..(N + 1) /\ j < N + 1  BY <1>1
    <3>3. <<t[j], t[N + 1]>> \in R  BY <1>1, <1>2, <3>2 DEF Chain
    <3> QED BY <1>1, <3>1, <3>3
  <2> QED BY <2>1, <2>2 DEF Chain, N
<1>3. ASSUME Chain(s, R), \A y \in Elements(s) : <<y, x>> \in R PROVE Chain(t, R)
  <2> SUFFICES ASSUME NEW j \in 1..(N + 1), NEW k \in 1..(N + 1), j < k
               PROVE  <<t[j], t[k]>> \in R
    BY <1>1 DEF Chain
  <2>1. j \in 1..N  BY <1>1
  <2>2. t[j] = s[j] /\ s[j] \in Elements(s)  BY <1>1, <2>1 DEF Elements, N
  <2>3. CASE k = N + 1  BY <1>1, <1>3, <2>2, <2>3
  <2>4. CASE k \in 1..N  BY <1>1, <1>3, <2>1, <2>2, <2>4 DEF Chain, N
  <2> QED BY <1>1, <2>3, <2>4
<1> QED BY <1>2, <1>3 DEF t

\* A filter keeps the order.
LEMMA WithinChain ==
  ASSUME NEW T, NEW R, NEW S
  PROVE  \A s \in Seq(T) : Chain(s, R) => Chain(Within(s, S), R)
<1> DEFINE P == {s \in Seq(T) : Chain(s, R) => Chain(Within(s, S), R)}
<1>1. <<>> \in P
  <2>1. <<>> \in Seq(T) /\ Within(<<>>, S) = <<>>  BY WithinEmpty
  <2> QED BY <2>1
<1>2. ASSUME NEW s \in Seq(T), NEW x \in T, s \in P PROVE Append(s, x) \in P
  <2>1. Append(s, x) \in Seq(T) /\ Within(s, S) \in Seq(T)  BY WithinType
  <2>2. Within(Append(s, x), S) = IF x \in S THEN Append(Within(s, S), x) ELSE Within(s, S)
    BY WithinAppend
  <2>3. Elements(Within(s, S)) \subseteq Elements(s)  BY WithinElements
  <2>4. ASSUME Chain(Append(s, x), R) PROVE Chain(Within(Append(s, x), S), R)
    <3>1. Chain(s, R) /\ \A y \in Elements(s) : <<y, x>> \in R  BY <2>4, ChainAppend
    <3>2. Chain(Within(s, S), R)  BY <1>2, <3>1
    <3>3. Chain(Append(Within(s, S), x), R)  BY <2>1, <2>3, <3>1, <3>2, ChainAppend
    <3> QED BY <2>2, <3>2, <3>3
  <2> QED BY <2>1, <2>4
<1> HIDE DEF P
<1>3. Seq(T) \subseteq P  BY <1>1, <1>2, SeqSetInduction
<1> QED BY <1>3 DEF P

\* In a strict order, two sequences in order of the same elements are the same.
LEMMA ChainUnique ==
  ASSUME NEW T, NEW R, \A x, y \in T : <<x, y>> \in R => <<y, x>> \notin R
  PROVE  \A s \in Seq(T) : \A t \in Seq(T) :
           Chain(s, R) /\ Chain(t, R) /\ Elements(s) = Elements(t) => s = t
<1> DEFINE P == {s \in Seq(T) : \A t \in Seq(T) :
                   Chain(s, R) /\ Chain(t, R) /\ Elements(s) = Elements(t) => s = t}
<1>1. <<>> \in P
  <2>1. ASSUME NEW t \in Seq(T), Elements(<<>>) = Elements(t) PROVE t = <<>>
    <3>1. Elements(<<>>) = {}  BY DEF Elements
    <3>2. Len(t) \in Nat /\ (Len(t) > 0 => t[1] \in Elements(t))  BY DEF Elements
    <3>3. Len(t) = 0  BY <2>1, <3>1, <3>2
    <3> QED BY <3>3
  <2> QED BY <2>1
<1>2. ASSUME NEW s \in Seq(T), NEW x \in T, s \in P PROVE Append(s, x) \in P
  <2> SUFFICES ASSUME NEW t \in Seq(T), Chain(Append(s, x), R), Chain(t, R),
                      Elements(Append(s, x)) = Elements(t)
               PROVE  Append(s, x) = t
    OBVIOUS
  <2>1. Elements(t) = Elements(s) \cup {x}  BY ElementsAppend
  <2>2. Chain(s, R) /\ \A y \in Elements(s) : <<y, x>> \in R  BY ChainAppend
  <2>3. Elements(s) \subseteq T  BY DEF Elements
  <2>4. x \notin Elements(s)  BY <2>2
  <2>5. PICK k \in 1..Len(t) : t[k] = x  BY <2>1 DEF Elements
  <2>6. k = Len(t)
    <3> SUFFICES ASSUME k # Len(t) PROVE FALSE  OBVIOUS
    <3>1. Len(t) \in 1..Len(t) /\ k < Len(t)  OBVIOUS
    <3>2. <<x, t[Len(t)]>> \in R  BY <2>5, <3>1 DEF Chain
    <3>3. t[Len(t)] \in Elements(t)  BY <3>1 DEF Elements
    <3>4. t[Len(t)] \in T  BY <3>1
    <3> QED BY <2>1, <2>2, <3>2, <3>3, <3>4
  <2> DEFINE u == SubSeq(t, 1, Len(t) - 1)
  <2>7. u \in Seq(T) /\ t = Append(u, x)
    <3>1. Len(t) \in Nat /\ Len(t) >= 1  BY <2>5
    <3>2. Len(t) - 1 \in Nat /\ Len(u) = Len(t) - 1 /\ u \in Seq(T)
      <4> DEFINE n == Len(t) - 1
      <4>1. n \in Nat /\ n <= Len(t)  BY <3>1
      <4> HIDE DEF n
      <4>2. SubSeq(t, 1, n) \in Seq(T) /\ Len(SubSeq(t, 1, n)) = n  BY <4>1
      <4> QED BY <4>1, <4>2 DEF n
    <3>3. Append(u, x) \in Seq(T) /\ Len(Append(u, x)) = Len(t)  BY <3>1, <3>2
    <3>4. ASSUME NEW n \in 1..Len(t) PROVE Append(u, x)[n] = t[n]
      <4>1. CASE n = Len(t)  BY <2>5, <2>6, <3>1, <3>2, <4>1
      <4>2. CASE n \in 1..(Len(t) - 1)  BY <3>1, <3>2, <4>2
      <4> QED BY <3>1, <4>1, <4>2
    <3> QED BY <3>2, <3>3, <3>4
  <2> HIDE DEF u
  <2>8. Chain(u, R) /\ \A y \in Elements(u) : <<y, x>> \in R  BY <2>7, ChainAppend
  <2>9. Elements(t) = Elements(u) \cup {x} /\ x \notin Elements(u)
    <3>1. Elements(Append(u, x)) = Elements(u) \cup {x}  BY <2>7, ElementsAppend
    <3> QED BY <2>7, <2>8, <3>1
  <2>10. Elements(u) = Elements(s)  BY <2>1, <2>4, <2>9
  <2>11. s = u  BY <1>2, <2>2, <2>7, <2>8, <2>10
  <2> QED BY <2>7, <2>11
<1> HIDE DEF P
<1>3. Seq(T) \subseteq P  BY <1>1, <1>2, SeqSetInduction
<1> QED BY <1>3 DEF P

=============================================================================
