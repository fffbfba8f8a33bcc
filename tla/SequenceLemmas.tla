----------------------------- MODULE SequenceLemmas -----------------------------
(***************************************************************************)
(* Facts about numbers and sequences that the proofs of several modules    *)
(* use, and that the library does not state in a form the provers can use: *)
(* induction along the positions of a sequence, the ends of a set of       *)
(* numbers, what FlattenSeq makes of its pieces, and where a token first   *)
(* stands.                                                                 *)
(***************************************************************************)
EXTENDS Naturals, Sequences, SequencesExt, FiniteSetsExt, TLAPS,
        NaturalsInduction, WellFoundedInduction, SequenceTheorems, FiniteSetTheorems

-----------------------------------------------------------------------------
\* The ends of a set of numbers.

LEMMA LeastNat ==
  ASSUME NEW T, T \subseteq Nat, T # {}
  PROVE  \E n \in T : \A m \in T : n <= m
<1> DEFINE R == {ss \in Nat \X Nat : ss[1] < ss[2]}
<1>1. IsWellFoundedOn(R, Nat)
  BY NatLessThanWellFounded, Zenon DEF OpToRel
<1>2. \A x, y \in Nat : <<y, x>> \notin R => x <= y
  OBVIOUS
<1> HIDE DEF R
<1>3. \E x \in T : \A y \in T : ~ (<<y, x>> \in R)
  BY <1>1, WFMin
<1>. QED
  BY <1>2, <1>3

\* A set of positions has a last one.
LEMMA LastPosition ==
  ASSUME NEW n \in Nat, NEW S, S \subseteq 1..n, S # {}
  PROVE  Max(S) \in S /\ \A y \in S : Max(S) >= y
<1> DEFINE T == {n - i : i \in S}
<1>1. PICK d \in T : \A m \in T : d <= m
  <2>0. \A i \in S : n - i \in Nat
    OBVIOUS
  <2>1. T \subseteq Nat /\ T # {}
    BY <2>0
  <2> HIDE DEF T
  <2>. QED
    BY <2>1, LeastNat
<1>2. PICK x \in S : d = n - x
  OBVIOUS
<1>3. \A y \in S : x >= y
  <2> SUFFICES ASSUME NEW y \in S PROVE x >= y
    OBVIOUS
  <2>1. n - y \in T /\ x \in 1..n /\ y \in 1..n
    OBVIOUS
  <2>2. n - x <= n - y
    BY <1>1, <1>2, <2>1
  <2>. QED
    BY <2>1, <2>2
<1>. QED
  BY <1>3 DEF Max

LEMMA LastOfPositions ==
  ASSUME NEW n \in Nat, NEW S, S \subseteq 1..n, n \in S
  PROVE  Max(S) = n
<1>1. Max(S) \in S /\ Max(S) >= n
  BY LastPosition
<1> DEFINE m == Max(S)
<1>2. m \in 1..n /\ m >= n
  BY <1>1
<1> HIDE DEF m
<1>3. m = n
  BY <1>2
<1>. QED
  BY <1>3 DEF m

-----------------------------------------------------------------------------
\* Induction along the positions of a sequence: what holds at 0, and at n
\* whenever it holds at n - 1, holds up to N.
LEMMA Upwards ==
  ASSUME NEW N \in Nat, NEW G, 0 \in G, \A n \in 1..N : n - 1 \in G => n \in G
  PROVE  \A n \in 0..N : n \in G
<1> DEFINE R == {ss \in Nat \X Nat : ss[1] < ss[2]}
           T == {n \in 0..N : n \notin G}
<1> SUFFICES ASSUME T # {} PROVE FALSE
  OBVIOUS
<1>1. IsWellFoundedOn(R, Nat)
  BY NatLessThanWellFounded, Zenon DEF OpToRel
<1>2. \A x, y \in Nat : <<y, x>> \notin R => x <= y
  OBVIOUS
<1>3. T \subseteq Nat
  OBVIOUS
<1>4. PICK n \in T : \A m \in T : n <= m
  <2> HIDE DEF R, T
  <2>1. \E x \in T : \A y \in T : ~ (<<y, x>> \in R)
    BY <1>1, <1>3, WFMin
  <2>. QED
    BY <1>2, <1>3, <2>1
<1>5. n \in 1..N /\ n - 1 \in 0..N /\ n - 1 \notin T
  BY <1>4
<1>. QED
  BY <1>5

-----------------------------------------------------------------------------
\* Concatenation, with the facts about it that are needed.
Join(s, t) == s \o t

LEMMA JoinFacts ==
  /\ \A S : \A s, t \in Seq(S) : Join(s, t) \in Seq(S)
  /\ \A S : \A s \in Seq(S) : Join(s, <<>>) = s /\ Join(<<>>, s) = s
<1>1. \A S : \A s, t \in Seq(S) : Join(s, t) \in Seq(S)
  BY ConcatProperties, Zenon DEF Join
<1>2. \A S : \A s \in Seq(S) : Join(s, <<>>) = s /\ Join(<<>>, s) = s
  BY ConcatEmptySeq, Zenon DEF Join
<1>. QED
  BY <1>1, <1>2

LEMMA JoinAssociative ==
  ASSUME NEW S, NEW s \in Seq(S), NEW t \in Seq(S), NEW u \in Seq(S)
  PROVE  Join(Join(s, t), u) = Join(s, Join(t, u))
BY ConcatAssociative DEF Join

LEMMA ValueIn ==
  ASSUME NEW T, NEW k \in Nat, NEW f \in [0..k -> T], NEW n \in 0..k
  PROVE  f[n] \in T /\ f[k] \in T
OBVIOUS

\* FlattenSeq along its pieces.

\* f[n] is what the first n pieces make.
Along(f, p, k) == f = [n \in 1..k |-> IF n = 1 THEN p[n] ELSE Join(f[n - 1], p[n])]

LEMMA AlongEquations ==
  ASSUME NEW p, NEW k \in Nat, NEW f, Along(f, p, k)
  PROVE  \A n \in 1..k : f[n] = IF n = 1 THEN p[n] ELSE Join(f[n - 1], p[n])
<1> DEFINE rhs == [n \in 1..k |-> IF n = 1 THEN p[n] ELSE Join(f[n - 1], p[n])]
<1>1. f = rhs
  BY DEF Along
<1>2. \A n \in 1..k : rhs[n] = IF n = 1 THEN p[n] ELSE Join(f[n - 1], p[n])
  OBVIOUS
<1> HIDE DEF rhs
<1>. QED
  BY <1>1, <1>2

\* The function of the first k pieces is extended to the next.
LEMMA AlongExtend ==
  ASSUME NEW p, NEW k \in Nat \ {0}, NEW f, Along(f, p, k - 1)
  PROVE  \E g : Along(g, p, k)
<1> DEFINE last == IF k = 1 THEN p[k] ELSE Join(f[k - 1], p[k])
           g == [n \in 1..k |-> IF n = k THEN last ELSE f[n]]
           rhs == [n \in 1..k |-> IF n = 1 THEN p[n] ELSE Join(g[n - 1], p[n])]
<1>1. \A n \in 1..(k - 1) : f[n] = IF n = 1 THEN p[n] ELSE Join(f[n - 1], p[n])
  BY AlongEquations
<1>2. ASSUME NEW n \in 1..k PROVE g[n] = rhs[n]
  <2>1. rhs[n] = IF n = 1 THEN p[n] ELSE Join(g[n - 1], p[n])
    OBVIOUS
  <2>2. n # 1 => g[n - 1] = f[n - 1]
    OBVIOUS
  <2>3. g[n] = IF n = k THEN last ELSE f[n]
    OBVIOUS
  <2> HIDE DEF g, rhs
  <2>4. CASE n = k
    BY <2>1, <2>2, <2>3, <2>4
  <2>5. CASE n # k
    <3>1. n \in 1..(k - 1)
      BY <2>5
    <3>. QED
      BY <1>1, <2>1, <2>2, <2>3, <2>5, <3>1
  <2>. QED
    BY <2>4, <2>5
<1>3. g = rhs
  BY <1>2
<1>4. g = [n \in 1..k |-> IF n = 1 THEN p[n] ELSE Join(g[n - 1], p[n])]
  BY <1>3
<1>. QED
  BY <1>4, Zenon DEF Along

LEMMA AlongExists ==
  ASSUME NEW p, NEW k \in Nat
  PROVE  \E f : Along(f, p, k)
<1> DEFINE G == {n \in 0..k : \E f : Along(f, p, n)}
<1>1. 0 \in G
  <2> DEFINE f == [n \in 1..0 |-> p[n]]
  <2>1. f = [n \in 1..0 |-> IF n = 1 THEN p[n] ELSE Join(f[n - 1], p[n])]
    OBVIOUS
  <2>2. \E g : Along(g, p, 0)
    BY <2>1, Zenon DEF Along
  <2>. QED
    BY <2>2
<1>2. ASSUME NEW n \in 1..k, n - 1 \in G PROVE n \in G
  <2>1. PICK f : Along(f, p, n - 1)
    BY <1>2
  <2>2. n \in Nat \ {0}
    OBVIOUS
  <2>3. \E g : Along(g, p, n)
    BY <2>1, <2>2, AlongExtend, Zenon
  <2>. QED
    BY <2>3
<1>3. \A n \in 0..k : n \in G
  <2> HIDE DEF G
  <2>. QED
    BY <1>1, <1>2, Upwards
<1>. QED
  BY <1>3

\* What FlattenSeq makes of the first n pieces, for each n.
LEMMA Flattened ==
  ASSUME NEW S, NEW p \in Seq(Seq(S))
  PROVE  \E F \in [0..Len(p) -> Seq(S)] :
           /\ F[0] = <<>>
           /\ \A n \in 1..Len(p) : F[n] = F[n - 1] \o p[n]
           /\ FlattenSeq(p) = F[Len(p)]
<1> DEFINE f == CHOOSE f : f = [n \in 1..Len(p) |-> IF n = 1 THEN p[n] ELSE f[n - 1] \o p[n]]
           F == [n \in 0..Len(p) |-> IF n = 0 THEN <<>> ELSE f[n]]
<1>0. Len(p) \in Nat /\ \A n \in 1..Len(p) : p[n] \in Seq(S)
  OBVIOUS
<1>1. Len(p) # 0 => FlattenSeq(p) = f[Len(p)]
  BY Zenon DEF FlattenSeq
<1>2. Len(p) = 0 => FlattenSeq(p) = <<>>
  BY DEF FlattenSeq
<1>3. \E g : g = [n \in 1..Len(p) |-> IF n = 1 THEN p[n] ELSE g[n - 1] \o p[n]]
  BY <1>0, AlongExists, Zenon DEF Along, Join
<1>4. f = [n \in 1..Len(p) |-> IF n = 1 THEN p[n] ELSE f[n - 1] \o p[n]]
  BY <1>3, Zenon
<1> HIDE DEF f
<1>5. \A n \in 1..Len(p) : f[n] = IF n = 1 THEN p[n] ELSE f[n - 1] \o p[n]
  <2>1. Along(f, p, Len(p))
    BY <1>4, Zenon DEF Along, Join
  <2>2. \A n \in 1..Len(p) : f[n] = IF n = 1 THEN p[n] ELSE Join(f[n - 1], p[n])
    BY <1>0, <2>1, AlongEquations
  <2>. QED
    BY <2>2, Zenon DEF Join
<1>6. ASSUME NEW n \in 1..Len(p) PROVE F[n] = Join(F[n - 1], p[n])
  <2>0. F[n] = f[n] /\ F[n - 1] = IF n = 1 THEN <<>> ELSE f[n - 1]
    OBVIOUS
  <2>1. CASE n = 1
    <3>1. p[n] = Join(<<>>, p[n])
      BY <1>0, ConcatEmptySeq DEF Join
    <3>. QED
      BY <1>5, <2>0, <2>1, <3>1
  <2>2. CASE n # 1
    <3>1. f[n] = Join(f[n - 1], p[n])
      BY <1>5, <2>2, Zenon DEF Join
    <3> HIDE DEF F
    <3>. QED
      BY <2>0, <2>2, <3>1
  <2>. QED
    BY <2>1, <2>2
<1>7. F[0] = <<>> /\ FlattenSeq(p) = F[Len(p)]
  BY <1>0, <1>1, <1>2
<1>8. F \in [0..Len(p) -> Seq(S)]
  <2> DEFINE G == {n \in 0..Len(p) : F[n] \in Seq(S)}
  <2>1. 0 \in G
    BY <1>0
  <2>2. ASSUME NEW n \in 1..Len(p), n - 1 \in G PROVE n \in G
    <3>1. F[n - 1] \in Seq(S) /\ p[n] \in Seq(S)
      BY <1>0, <2>2
    <3>2. F[n] \in Seq(S)
      <4> HIDE DEF F
      <4>. QED
        BY <1>6, <3>1, ConcatProperties, Zenon DEF Join
    <3> HIDE DEF F
    <3>. QED
      BY <3>2
  <2>3. \A n \in 0..Len(p) : n \in G
    <3> HIDE DEF G
    <3>. QED
      BY <1>0, <2>1, <2>2, Upwards
  <2>. QED
    BY <2>3
<1> HIDE DEF F
<1>. QED
  BY <1>6, <1>7, <1>8 DEF Join

LEMMA FlattenType ==
  ASSUME NEW S, NEW p \in Seq(Seq(S))
  PROVE  FlattenSeq(p) \in Seq(S)
<1>1. PICK F \in [0..Len(p) -> Seq(S)] : FlattenSeq(p) = F[Len(p)]
  BY Flattened
<1>. QED
  BY <1>1

\* Whatever goes along the pieces in that way ends with what FlattenSeq returns.
LEMMA FlattenIs ==
  ASSUME NEW S, NEW p \in Seq(Seq(S)), NEW H,
         H[0] = <<>>, \A n \in 1..Len(p) : H[n] = H[n - 1] \o p[n]
  PROVE  FlattenSeq(p) = H[Len(p)]
<1>1. PICK F \in [0..Len(p) -> Seq(S)] :
           /\ F[0] = <<>>
           /\ \A n \in 1..Len(p) : F[n] = F[n - 1] \o p[n]
           /\ FlattenSeq(p) = F[Len(p)]
  BY Flattened
<1> DEFINE G == {n \in 0..Len(p) : F[n] = H[n]}
<1>2. Len(p) \in Nat
  OBVIOUS
<1>3. 0 \in G
  BY <1>1, <1>2
<1>4. ASSUME NEW n \in 1..Len(p), n - 1 \in G PROVE n \in G
  <2>1. F[n] = Join(F[n - 1], p[n]) /\ H[n] = Join(H[n - 1], p[n])
    BY <1>1, Zenon DEF Join
  <2>. QED
    BY <1>4, <2>1
<1>5. \A n \in 0..Len(p) : n \in G
  <2> HIDE DEF G
  <2>. QED
    BY <1>2, <1>3, <1>4, Upwards
<1>. QED
  BY <1>1, <1>2, <1>5

\* w is p with q after it.
Follows(w, p, q) ==
  /\ Len(w) = Len(p) + Len(q)
  /\ \A n \in 1..Len(p) : w[n] = p[n]
  /\ \A n \in 1..Len(q) : w[Len(p) + n] = q[n]

LEMMA ConcatFollows ==
  ASSUME NEW S, NEW s \in Seq(S), NEW t \in Seq(S)
  PROVE  s \o t \in Seq(S) /\ Follows(s \o t, s, t)
<1>. QED
  BY ConcatProperties DEF Follows

LEMMA FlattenConcat ==
  ASSUME NEW S, NEW p \in Seq(Seq(S)), NEW q \in Seq(Seq(S)), NEW w \in Seq(Seq(S)),
         Follows(w, p, q)
  PROVE  FlattenSeq(w) = FlattenSeq(p) \o FlattenSeq(q)
<1>1. PICK P \in [0..Len(p) -> Seq(S)] :
           /\ P[0] = <<>>
           /\ \A n \in 1..Len(p) : P[n] = P[n - 1] \o p[n]
           /\ FlattenSeq(p) = P[Len(p)]
  BY Flattened
<1>2. PICK Q \in [0..Len(q) -> Seq(S)] :
           /\ Q[0] = <<>>
           /\ \A n \in 1..Len(q) : Q[n] = Q[n - 1] \o q[n]
           /\ FlattenSeq(q) = Q[Len(q)]
  BY Flattened
<1>3. /\ Len(p) \in Nat /\ Len(q) \in Nat
      /\ \A n \in 1..Len(q) : q[n] \in Seq(S)
      /\ P[Len(p)] \in Seq(S)
      /\ \A n \in 0..Len(q) : Q[n] \in Seq(S)
  <2>1. Len(p) \in Nat /\ Len(q) \in Nat
    OBVIOUS
  <2>2. \A n \in 1..Len(q) : q[n] \in Seq(S)
    OBVIOUS
  <2>3. P[Len(p)] \in Seq(S)
    <3>1. Len(p) \in 0..Len(p)
      BY <2>1
    <3>. QED
      BY <2>1, <3>1, ValueIn, Zenon
  <2>4. \A n \in 0..Len(q) : Q[n] \in Seq(S)
    OBVIOUS
  <2>. QED
    BY <2>1, <2>2, <2>3, <2>4, Zenon
<1>4. /\ \A n \in 1..Len(p) : P[n] = Join(P[n - 1], p[n])
      /\ \A n \in 1..Len(q) : Q[n] = Join(Q[n - 1], q[n])
  BY <1>1, <1>2, Zenon DEF Join
<1> DEFINE H == [n \in 0..(Len(p) + Len(q)) |->
                   IF n <= Len(p) THEN P[n] ELSE Join(P[Len(p)], Q[n - Len(p)])]
<1>5. P[Len(p)] = Join(P[Len(p)], Q[0])
  BY <1>2, <1>3, JoinFacts, Zenon
<1>6. ASSUME NEW k \in 0..Len(q) PROVE H[Len(p) + k] = Join(P[Len(p)], Q[k])
  BY <1>3, <1>5
<1>7. H[0] = <<>> /\ \A n \in 0..Len(p) : H[n] = P[n]
  BY <1>1, <1>3
<1> HIDE DEF H
<1>8. ASSUME NEW n \in 1..Len(w) PROVE H[n] = Join(H[n - 1], w[n])
  <2>1. CASE n <= Len(p)
    <3>1. n \in 1..Len(p) /\ n - 1 \in 0..Len(p) /\ n \in 0..Len(p)
      BY <1>3, <2>1
    <3>2. w[n] = p[n]
      BY <3>1 DEF Follows
    <3>. QED
      BY <1>4, <1>7, <3>1, <3>2
  <2>2. CASE n > Len(p)
    <3>1. PICK k \in 1..Len(q) : n = Len(p) + k
      <4>1. n - Len(p) \in 1..Len(q) /\ n = Len(p) + (n - Len(p))
        BY <1>3, <2>2 DEF Follows
      <4>. QED
        BY <4>1, Zenon
    <3>2. w[n] = q[k]
      BY <3>1 DEF Follows
    <3>3. H[n] = Join(P[Len(p)], Q[k]) /\ H[n - 1] = Join(P[Len(p)], Q[k - 1])
      <4>1. k \in 0..Len(q) /\ k - 1 \in 0..Len(q) /\ n - 1 = Len(p) + (k - 1)
        BY <1>3, <3>1
      <4>. QED
        BY <1>6, <3>1, <4>1
    <3>4. Q[k - 1] \in Seq(S) /\ q[k] \in Seq(S)
      <4>1. k - 1 \in 0..Len(q)
        BY <1>3
      <4>. QED
        BY <1>3, <4>1
    <3>5. Join(P[Len(p)], Join(Q[k - 1], q[k])) = Join(Join(P[Len(p)], Q[k - 1]), q[k])
      <4>1. \A a, b, c \in Seq(S) : Join(Join(a, b), c) = Join(a, Join(b, c))
        BY JoinAssociative
      <4>. QED
        BY <1>3, <3>4, <4>1
    <3>. QED
      BY <1>4, <3>1, <3>2, <3>3, <3>5
  <2>. QED
    BY <1>3, <2>1, <2>2
<1>9. FlattenSeq(w) = H[Len(w)]
  BY <1>7, <1>8, FlattenIs, Zenon DEF Join
<1>10. H[Len(w)] = Join(P[Len(p)], Q[Len(q)])
  BY <1>3, <1>6 DEF Follows
<1>. QED
  BY <1>1, <1>2, <1>9, <1>10, Zenon DEF Join

\* Atoms that stay single stay where they are.
LEMMA FlattenSingles ==
  ASSUME NEW S, NEW t \in Seq(S)
  PROVE  FlattenSeq([n \in DOMAIN t |-> <<t[n]>>]) = t
<1> DEFINE p == [n \in DOMAIN t |-> <<t[n]>>]
           H == [n \in 0..Len(t) |-> SubSeq(t, 1, n)]
<1>1. Len(t) \in Nat /\ DOMAIN t = 1..Len(t) /\ \A n \in 1..Len(t) : t[n] \in S
  OBVIOUS
<1>2. p \in Seq(Seq(S)) /\ Len(p) = Len(t) /\ \A n \in 1..Len(t) : p[n] = <<t[n]>>
  BY <1>1
<1>3. H[0] = <<>>
  BY <1>1, SubSeqEmpty
<1>4. ASSUME NEW n \in 1..Len(p) PROVE H[n] = H[n - 1] \o p[n]
  <2>1. SubSeq(t, 1, n) = SubSeq(t, 1, n - 1) \o <<t[n]>>
    BY <1>1, <1>2, SubSeqRecursiveSecond
  <2>. QED
    BY <1>1, <1>2, <2>1
<1>5. FlattenSeq(p) = H[Len(p)]
  <2> HIDE DEF p, H
  <2>. QED
    BY <1>2, <1>3, <1>4, FlattenIs
<1>6. H[Len(p)] = t
  BY <1>1, <1>2, SubSeqFull
<1>. QED
  BY <1>5, <1>6

-----------------------------------------------------------------------------
\* Where the atoms of the pieces stand in the flattened text.

\* The n-th piece of p stands in u after at[n - 1].
Stands(p, u, at) ==
  /\ at \in [0..Len(p) -> Nat] /\ at[0] = 0 /\ Len(u) = at[Len(p)]
  /\ \A n \in 1..Len(p) : at[n] = at[n - 1] + Len(p[n])
  /\ \A n \in 1..Len(p) : \A m \in 1..Len(p[n]) :
       at[n - 1] + m \in 1..Len(u) /\ u[at[n - 1] + m] = p[n][m]
  /\ \A k \in 1..Len(u) : \E n \in 1..Len(p) : \E m \in 1..Len(p[n]) : k = at[n - 1] + m

LEMMA Standing ==
  ASSUME NEW S, NEW p \in Seq(Seq(S))
  PROVE  \E at : Stands(p, FlattenSeq(p), at)
<1>1. PICK F \in [0..Len(p) -> Seq(S)] :
           /\ F[0] = <<>>
           /\ \A n \in 1..Len(p) : F[n] = F[n - 1] \o p[n]
           /\ FlattenSeq(p) = F[Len(p)]
  BY Flattened
<1> DEFINE at == [n \in 0..Len(p) |-> Len(F[n])]
           N == Len(p)
<1>2. N \in Nat /\ \A n \in 1..N : p[n] \in Seq(S) /\ Len(p[n]) \in Nat
  <2>1. N \in Nat
    OBVIOUS
  <2>2. \A n \in 1..N : p[n] \in Seq(S)
    BY ElementOfSeq, Zenon
  <2>3. \A s \in Seq(S) : Len(s) \in Nat
    OBVIOUS
  <2>. QED
    BY <2>1, <2>2, <2>3, Zenon
<1>3. \A n \in 0..N : F[n] \in Seq(S) /\ Len(F[n]) \in Nat
  <2>1. \A n \in 0..N : F[n] \in Seq(S)
    BY <1>2, ValueIn, Zenon
  <2>2. \A s \in Seq(S) : Len(s) \in Nat
    OBVIOUS
  <2>. QED
    BY <2>1, <2>2, Zenon
<1>4. \A n \in 0..N : at[n] = Len(F[n]) /\ at[n] \in Nat
  BY <1>3
<1>5. at \in [0..N -> Nat]
  BY <1>3
<1> HIDE DEF at
\* F[n] is F[n - 1] with p[n] after it.
<1>6. ASSUME NEW n \in 1..N
      PROVE  /\ n - 1 \in 0..N /\ n \in 0..N
             /\ at[n] = at[n - 1] + Len(p[n])
             /\ \A k \in 1..at[n - 1] : F[n][k] = F[n - 1][k]
             /\ \A m \in 1..Len(p[n]) : F[n][at[n - 1] + m] = p[n][m]
  <2>1. n - 1 \in 0..N /\ n \in 0..N
    BY <1>2
  <2>2. F[n - 1] \in Seq(S) /\ p[n] \in Seq(S) /\ F[n] = Join(F[n - 1], p[n])
    BY <1>1, <1>2, <1>3, <2>1, Zenon DEF Join
  <2>3. Follows(F[n], F[n - 1], p[n])
    BY <2>2, ConcatFollows, Zenon DEF Join
  <2>. QED
    BY <1>4, <2>1, <2>3, Zenon DEF Follows
<1> DEFINE Held(n) ==
             /\ \A i \in 1..n : \A m \in 1..Len(p[i]) :
                  at[i - 1] + m \in 1..at[n] /\ F[n][at[i - 1] + m] = p[i][m]
             /\ \A k \in 1..at[n] : \E i \in 1..n : \E m \in 1..Len(p[i]) : k = at[i - 1] + m
           G == {n \in 0..N : Held(n)}
<1>7. 0 \in G
  <2>1. at[0] = 0
    BY <1>1, <1>2, <1>4
  <2>. QED
    BY <1>2, <2>1
<1>8. ASSUME NEW n \in 1..N, Held(n - 1) PROVE Held(n)
  <2>1. /\ n - 1 \in 0..N /\ n \in 0..N /\ at[n] = at[n - 1] + Len(p[n])
        /\ at[n - 1] \in Nat /\ at[n] \in Nat /\ Len(p[n]) \in Nat
    BY <1>2, <1>4, <1>6
  <2>2. ASSUME NEW i \in 1..n, NEW m \in 1..Len(p[i])
        PROVE  at[i - 1] + m \in 1..at[n] /\ F[n][at[i - 1] + m] = p[i][m]
    <3>1. CASE i = n
      <4>1. at[n - 1] + m \in 1..at[n]
        BY <2>1, <3>1
      <4>. QED
        BY <1>6, <3>1, <4>1
    <3>2. CASE i # n
      <4>1. i \in 1..(n - 1)
        BY <1>2, <3>2
      <4>2. at[i - 1] + m \in 1..at[n - 1] /\ F[n - 1][at[i - 1] + m] = p[i][m]
        BY <1>8, <4>1
      <4>3. F[n][at[i - 1] + m] = F[n - 1][at[i - 1] + m]
        BY <1>6, <4>2
      <4>4. \A k \in 1..at[n - 1] : k \in 1..at[n]
        BY <2>1
      <4>. QED
        BY <4>2, <4>3, <4>4
    <3>. QED
      BY <3>1, <3>2
  <2>3. ASSUME NEW k \in 1..at[n]
        PROVE  \E i \in 1..n : \E m \in 1..Len(p[i]) : k = at[i - 1] + m
    <3>1. CASE k <= at[n - 1]
      <4>1. k \in 1..at[n - 1]
        BY <2>1, <3>1
      <4>2. PICK i \in 1..(n - 1) : \E m \in 1..Len(p[i]) : k = at[i - 1] + m
        BY <1>8, <4>1
      <4>3. i \in 1..n
        BY <1>2
      <4>. QED
        BY <4>2, <4>3
    <3>2. CASE k > at[n - 1]
      <4>1. k - at[n - 1] \in 1..Len(p[n]) /\ k = at[n - 1] + (k - at[n - 1]) /\ n \in 1..n
        BY <2>1, <3>2
      <4>. QED
        BY <4>1, Zenon
    <3>. QED
      BY <2>1, <3>1, <3>2
  <2>. QED
    BY <2>2, <2>3
<1>9. \A n \in 0..N : n \in G
  <2>1. \A n \in 1..N : n - 1 \in G => n \in G
    <3> HIDE DEF Held
    <3>. QED
      BY <1>2, <1>8
  <2> HIDE DEF G, N
  <2>. QED
    BY <1>2, <1>7, <2>1, Upwards
<1>10. N \in 0..N
  BY <1>2
<1>11. Held(N) /\ FlattenSeq(p) = F[N] /\ Len(F[N]) = at[N] /\ at[0] = 0
  <2>1. 0 \in 0..N
    BY <1>2
  <2>2. Len(<<>>) = 0
    OBVIOUS
  <2>. QED
    BY <1>1, <1>4, <1>9, <1>10, <2>1, <2>2, Zenon
<1>12. Stands(p, F[N], at)
  <2> DEFINE u == F[N]
  <2>1. Len(u) = at[N] /\ Held(N) /\ at[0] = 0
    BY <1>11
  <2>2. \A n \in 1..N : \A m \in 1..Len(p[n]) :
          at[n - 1] + m \in 1..Len(u) /\ u[at[n - 1] + m] = p[n][m]
    BY <2>1
  <2>3. \A k \in 1..Len(u) : \E n \in 1..N : \E m \in 1..Len(p[n]) : k = at[n - 1] + m
    BY <2>1
  <2>4. \A n \in 1..N : at[n] = at[n - 1] + Len(p[n])
    BY <1>6
  <2> HIDE DEF u, Held
  <2>5. Stands(p, u, at)
    BY <1>5, <2>1, <2>2, <2>3, <2>4, Zenon DEF Stands, N
  <2>. QED
    BY <2>5 DEF u
<1>. QED
  BY <1>11, <1>12, Zenon

LEMMA StandsInOrder ==
  ASSUME NEW S, NEW p \in Seq(Seq(S)), NEW u, NEW at, Stands(p, u, at)
  PROVE  \A n, m \in 0..Len(p) : n <= m => at[n] <= at[m]
<1>0. /\ Len(p) \in Nat /\ \A n \in 1..Len(p) : Len(p[n]) \in Nat
      /\ \A n \in 0..Len(p) : at[n] \in Nat
      /\ \A n \in 1..Len(p) : at[n] = at[n - 1] + Len(p[n])
  <2>1. Len(p) \in Nat
    OBVIOUS
  <2>2. \A n \in 1..Len(p) : p[n] \in Seq(S)
    BY ElementOfSeq, Zenon
  <2>3. \A s \in Seq(S) : Len(s) \in Nat
    OBVIOUS
  <2>4. \A n \in 0..Len(p) : at[n] \in Nat
    BY <2>1, ValueIn, Zenon DEF Stands
  <2>. QED
    BY <2>1, <2>2, <2>3, <2>4, Zenon DEF Stands
<1> DEFINE G == {m \in 0..Len(p) : \A n \in 0..m : at[n] <= at[m]}
<1>1. 0 \in G
  BY <1>0
<1>2. ASSUME NEW m \in 1..Len(p), m - 1 \in G PROVE m \in G
  <2>1. m - 1 \in 0..Len(p) /\ m \in 0..Len(p) /\ at[m - 1] <= at[m]
        /\ at[m] \in Nat /\ at[m - 1] \in Nat
    <3>1. m - 1 \in 0..Len(p) /\ m \in 0..Len(p)
      BY <1>0
    <3>2. at[m] = at[m - 1] + Len(p[m]) /\ Len(p[m]) \in Nat
      BY <1>0, Zenon
    <3>3. at[m] \in Nat /\ at[m - 1] \in Nat
      BY <1>0, <3>1, Zenon
    <3>. QED
      BY <3>1, <3>2, <3>3
  <2>2. ASSUME NEW n \in 0..m PROVE at[n] <= at[m]
    <3>1. CASE n = m
      BY <2>1, <3>1
    <3>2. CASE n # m
      <4>1. n \in 0..(m - 1) /\ n \in 0..Len(p)
        BY <1>0, <3>2
      <4>2. at[n] <= at[m - 1] /\ at[n] \in Nat
        BY <1>0, <1>2, <4>1
      <4>. QED
        BY <2>1, <4>2
    <3>. QED
      BY <3>1, <3>2
  <2>. QED
    BY <2>1, <2>2
<1>3. \A m \in 0..Len(p) : m \in G
  <2> HIDE DEF G
  <2>. QED
    BY <1>0, <1>1, <1>2, Upwards
<1>. QED
  BY <1>0, <1>3

-----------------------------------------------------------------------------
\* Where a token stands, and what stands around it.

First(t, x) == SelectInSeq(t, LAMBDA y : y = x)

LEMMA FirstPosition ==
  ASSUME NEW S, NEW t \in Seq(S), NEW x
  PROVE  /\ x \in Range(t) <=> \E n \in 1..Len(t) : t[n] = x
         /\ x \in Range(t) =>
              /\ First(t, x) \in 1..Len(t)
              /\ t[First(t, x)] = x
              /\ \A n \in 1..Len(t) : t[n] = x => First(t, x) <= n
<1> DEFINE I == {i \in 1..Len(t) : t[i] = x}
           k == First(t, x)
<1>1. x \in Range(t) <=> \E n \in 1..Len(t) : t[n] = x
  BY DEF Range
<1>2. I # {} => k = Min(I)
  BY DEF First, SelectInSeq
<1>3. ASSUME I # {} PROVE Min(I) \in I /\ \A y \in I : Min(I) <= y
  <2>1. \E n \in I : \A m \in I : n <= m
    <3>1. I \subseteq Nat
      OBVIOUS
    <3> HIDE DEF I
    <3>. QED
      BY <1>3, <3>1, LeastNat
  <2> HIDE DEF I
  <2>. QED
    BY <2>1 DEF Min
<1>4. ASSUME x \in Range(t)
      PROVE  k \in 1..Len(t) /\ t[k] = x /\ \A n \in 1..Len(t) : t[n] = x => k <= n
  <2>1. I # {}
    BY <1>1, <1>4
  <2>2. k \in I /\ \A y \in I : k <= y
    BY <1>2, <1>3, <2>1
  <2> HIDE DEF k
  <2>. QED
    BY <2>2
<1>. QED
  BY <1>1, <1>4

\* A finite set of numbers has a greatest one.
LEMMA FiniteSetHasMax ==
  ASSUME NEW T \in SUBSET Int, T # {}, IsFiniteSet(T)
  PROVE  Max(T) \in T /\ \A y \in T : Max(T) >= y
<1>1. PICK N \in Nat : ExistsSurjection(1..N, T)
  BY FS_NatSurjection
<1>2. PICK f \in [1..N -> T] : \A y \in T : \E n \in 1..N : f[n] = y
  BY <1>1 DEF ExistsSurjection, Surjection
<1> DEFINE G == {n \in 0..N : n = 0 \/ \E x \in T : \A m \in 1..n : x >= f[m]}
<1>3. 0 \in G
  BY <1>1
<1>4. ASSUME NEW n \in 1..N, n - 1 \in G PROVE n \in G
  <2>0. n \in 0..N /\ f[n] \in T /\ \A m \in 1..N : f[m] \in Int
    <3>1. n \in 0..N
      BY <1>1
    <3>2. \A m \in 1..N : f[m] \in T
      BY <1>2
    <3>. QED
      BY <3>1, <3>2
  <2>1. CASE n = 1
    BY <2>0, <2>1
  <2>2. CASE n # 1
    <3>1. PICK x \in T : \A m \in 1..(n - 1) : x >= f[m]
      BY <1>4, <2>2
    <3>2. x \in Int /\ \A m \in 1..n : m = n \/ m \in 1..(n - 1)
      BY <1>1
    <3>3. CASE x >= f[n]
      BY <2>0, <3>1, <3>2, <3>3
    <3>4. CASE ~(x >= f[n])
      <4>1. \A m \in 1..n : f[n] >= f[m]
        BY <1>1, <2>0, <3>1, <3>2, <3>4
      <4>. QED
        BY <2>0, <4>1
    <3>. QED
      BY <3>3, <3>4
  <2>. QED
    BY <2>1, <2>2
<1>5. \A n \in 0..N : n \in G
  <2> HIDE DEF G
  <2>. QED
    BY <1>1, <1>3, <1>4, Upwards
<1>6. N \in 0..N /\ N # 0
  <2>1. PICK y \in T : TRUE
    OBVIOUS
  <2>2. PICK n \in 1..N : f[n] = y
    BY <1>2
  <2>. QED
    BY <1>1, <2>2
<1>7. PICK x \in T : \A m \in 1..N : x >= f[m]
  BY <1>5, <1>6
<1>8. \A y \in T : x >= y
  BY <1>2, <1>7
<1>. QED
  BY <1>8 DEF Max
=============================================================================
