----------------------------- MODULE ProofLemmas -----------------------------
(***************************************************************************)
(* Facts about naturals and sequences that the proofs of several           *)
(* components need.  Induction is stated over a set of naturals instead of *)
(* a predicate, so that it can be cited with first-order reasoning.        *)
(***************************************************************************)
EXTENDS Integers, Sequences, SequencesExt, FiniteSetTheorems, TLAPS

(* A non-empty set of naturals has a least member: the initial segments of  *)
(* its members are well-founded under strict inclusion.                     *)
LEMMA LeastNatural ==
  ASSUME NEW S \in SUBSET Nat, S # {}
  PROVE  \E m \in S : \A k \in S : m <= k
<1> DEFINE R == StrictSubsetOrdering(Nat)
           F == FiniteSubsetsOf(Nat)
           T == {0 .. m : m \in S}
<1>1. IsWellFoundedOn(R, F)
  BY FS_StrictSubsetOrderingWellFounded
<1>2. T \subseteq F
  <2> SUFFICES ASSUME NEW m \in S PROVE 0 .. m \in F
    OBVIOUS
  <2>1. 0 .. m \subseteq Nat
    OBVIOUS
  <2>2. IsFiniteSet(0 .. m)
    BY FS_Interval
  <2> QED
    BY <2>1, <2>2 DEF FiniteSubsetsOf
<1>3. T # {}
  OBVIOUS
<1>4. PICK x \in T : \A y \in T : ~ (<<y, x>> \in R)
  <2> HIDE DEF R, F, T
  <2> QED
    BY <1>1, <1>2, <1>3, WFMin
<1>5. PICK m \in S : x = 0 .. m
  OBVIOUS
<1>6. ASSUME NEW k \in S, k < m PROVE FALSE
  <2>1. 0 .. k \in T /\ ~ (<<0 .. k, 0 .. m>> \in R)
    BY <1>4, <1>5
  <2>2. 0 .. k \subseteq 0 .. m /\ 0 .. m \subseteq Nat
    BY <1>6
  <2>3. m \in 0 .. m /\ m \notin 0 .. k
    BY <1>6
  <2> QED
    BY <2>1, <2>2, <2>3 DEF StrictSubsetOrdering
<1> QED
  BY <1>6

(* Induction over a set: it holds 0 and the successor of each member. *)
LEMMA NatSetInduction ==
  ASSUME NEW S \in SUBSET Nat, 0 \in S, \A n \in S : n + 1 \in S
  PROVE  S = Nat
<1> SUFFICES ASSUME Nat \ S # {} PROVE FALSE
  OBVIOUS
<1>1. PICK m \in Nat \ S : \A k \in Nat \ S : m <= k
  BY LeastNatural
<1>2. m - 1 \in Nat /\ m - 1 \notin Nat \ S
  BY <1>1
<1> QED
  BY <1>1, <1>2

(* Sequences of the same length that agree everywhere are equal. *)
LEMMA SeqAgree ==
  ASSUME NEW S, NEW s \in Seq(S), NEW t \in Seq(S), Len(s) = Len(t),
         \A j \in 1..Len(s) : s[j] = t[j]
  PROVE  s = t
  OBVIOUS

(* A sequence without repetitions has as many members as places. *)
LEMMA DistinctCardinality ==
  ASSUME NEW n \in Nat, NEW f, DOMAIN f = 1..n,
         \A i, j \in 1..n : f[i] = f[j] => i = j
  PROVE  Cardinality({f[i] : i \in 1..n}) = n
<1> DEFINE S == {f[i] : i \in 1..n}
           g == [i \in 1..n |-> f[i]]
<1>1. g \in [1..n -> S]
  OBVIOUS
<1>2. g \in Bijection(1..n, S)
  BY <1>1 DEF Bijection, Injection, IsInjective, Surjection
<1>3. ExistsBijection(1..n, S)
  BY <1>2 DEF ExistsBijection
<1>4. Cardinality(S) = n
  <2> HIDE DEF S
  <2> QED
    BY <1>3, FS_CountingElements
<1> QED
  BY <1>4

(* Where the members of a concatenation come from. *)
LEMMA ConcatPlaces ==
  ASSUME NEW S, NEW s \in Seq(S), NEW t \in Seq(S)
  PROVE  /\ s \o t \in Seq(S) /\ Len(s \o t) = Len(s) + Len(t)
         /\ \A i \in 1..Len(s) : (s \o t)[i] = s[i]
         /\ \A i \in 1..Len(t) : (s \o t)[Len(s) + i] = t[i]
  OBVIOUS

(* The head of the second sequence may as well end the first. *)
LEMMA ConcatShift ==
  ASSUME NEW S, NEW s \in Seq(S), NEW t \in Seq(S), t # <<>>
  PROVE  Append(s, Head(t)) \o Tail(t) = s \o t
<1> DEFINE l == Append(s, Head(t)) \o Tail(t)
           r == s \o t
<1>1. /\ Append(s, Head(t)) \in Seq(S) /\ Tail(t) \in Seq(S)
      /\ Len(Append(s, Head(t))) = Len(s) + 1 /\ Len(Tail(t)) = Len(t) - 1
      /\ Len(s) \in Nat /\ Len(t) \in Nat \ {0}
  OBVIOUS
<1>2. l \in Seq(S) /\ Len(l) = Len(s) + Len(t)
  BY <1>1
<1>3. r \in Seq(S) /\ Len(r) = Len(s) + Len(t)
  OBVIOUS
<1>4. ASSUME NEW i \in 1..Len(l) PROVE l[i] = r[i]
  <2>1. CASE i <= Len(s)
    BY <1>1, <1>2, <2>1
  <2>2. CASE i = Len(s) + 1
    BY <1>1, <1>2, <2>2
  <2>3. CASE i > Len(s) + 1
    <3>1. l[i] = Tail(t)[i - (Len(s) + 1)]
      BY <1>1, <1>2, <2>3
    <3>2. r[i] = t[i - Len(s)]
      BY <1>1, <1>2, <2>3
    <3>3. i - (Len(s) + 1) \in 1..Len(Tail(t)) /\ (i - (Len(s) + 1)) + 1 = i - Len(s)
      BY <1>1, <1>2, <2>3
    <3> QED
      BY <1>1, <3>1, <3>2, <3>3
  <2> QED
    BY <1>1, <1>2, <2>1, <2>2, <2>3
<1> HIDE DEF l, r
<1>5. l = r
  BY <1>2, <1>3, <1>4, SeqAgree
<1> QED
  BY <1>5 DEF l, r

(* The tail of a concatenation, when there is a first sequence to shorten. *)
LEMMA ConcatTail ==
  ASSUME NEW S, NEW s \in Seq(S), NEW t \in Seq(S), s # <<>>
  PROVE  Tail(s) \o t = Tail(s \o t) /\ s \o t # <<>> /\ Head(s \o t) = Head(s)
<1> DEFINE l == Tail(s) \o t
           c == s \o t
           r == Tail(c)
<1>1. /\ Tail(s) \in Seq(S) /\ Len(Tail(s)) = Len(s) - 1
      /\ Len(s) \in Nat \ {0} /\ Len(t) \in Nat
      /\ \A i \in 1..Len(Tail(s)) : Tail(s)[i] = s[i + 1]
  OBVIOUS
<1>2. l \in Seq(S) /\ Len(l) = Len(s) + Len(t) - 1
  BY <1>1
<1>3. c \in Seq(S) /\ Len(c) = Len(s) + Len(t) /\ c # <<>> /\ c[1] = s[1]
  BY <1>1
<1>4. \A i \in 1..Len(l) : l[i] = c[i + 1]
  BY <1>1, <1>2
<1> HIDE DEF c, l
<1>5. r \in Seq(S) /\ Len(r) = Len(c) - 1 /\ \A i \in 1..Len(r) : r[i] = c[i + 1]
  BY <1>3
<1> HIDE DEF r
<1>6. Len(l) = Len(r) /\ \A i \in 1..Len(l) : l[i] = r[i]
  BY <1>1, <1>2, <1>3, <1>4, <1>5
<1>8. l = r
  BY <1>2, <1>5, <1>6, SeqAgree
<1>7. Head(c) = Head(s)
  BY <1>1, <1>3
<1> QED
  BY <1>3, <1>7, <1>8 DEF l, r, c

(* A function can be iterated: what a search or a count does step by step is *)
(* a function of the number of steps, so its recursive definition means      *)
(* something.                                                                *)
Iterated(X, x0, G, N) == \E f \in [0..N -> X] : f[0] = x0 /\ \A i \in 1..N : f[i] = G[f[i - 1]]
LEMMA IterationExists ==
  ASSUME NEW X, NEW x0 \in X, NEW G \in [X -> X], NEW N \in Nat
  PROVE  Iterated(X, x0, G, N)
<1> DEFINE Good(f, n) == f[0] = x0 /\ \A i \in 1..n : f[i] = G[f[i - 1]]
           S == {n \in Nat : \E f \in [0..n -> X] : Good(f, n)}
<1>1. 0 \in S
  <2>1. [i \in 0..0 |-> x0] \in [0..0 -> X] /\ Good([i \in 0..0 |-> x0], 0)
    OBVIOUS
  <2> QED
    BY <2>1
<1>2. ASSUME NEW n \in S PROVE n + 1 \in S
  <2>1. PICK f \in [0..n -> X] : Good(f, n)
    OBVIOUS
  <2> DEFINE g == [i \in 0..(n + 1) |-> IF i <= n THEN f[i] ELSE G[f[n]]]
  <2>2. g \in [0..(n + 1) -> X]
    OBVIOUS
  <2>3. g[0] = x0
    BY <2>1
  <2>4. ASSUME NEW i \in 1..(n + 1) PROVE g[i] = G[g[i - 1]]
    <3>1. CASE i <= n
      <4>1. g[i] = f[i] /\ g[i - 1] = f[i - 1] /\ i \in 1..n
        BY <3>1
      <4> QED
        BY <4>1, <2>1
    <3>2. CASE i = n + 1
      <4>1. g[i] = G[f[n]] /\ g[i - 1] = f[n]
        BY <3>2
      <4> QED
        BY <4>1
    <3> QED
      BY <3>1, <3>2
  <2> HIDE DEF g
  <2>5. Good(g, n + 1)
    BY <2>3, <2>4
  <2> QED
    BY <2>2, <2>5
<1> HIDE DEF S
<1>3. S = Nat
  <2>1. S \in SUBSET Nat
    BY DEF S
  <2> QED
    BY <1>1, <1>2, <2>1, NatSetInduction
<1> QED
  BY <1>3 DEF S, Iterated

(* Induction over the subsets of a finite set: a family that has the empty  *)
(* one, and with a subset each one larger by a member, has them all.        *)
LEMMA FamilyInduction ==
  ASSUME NEW S, IsFiniteSet(S), NEW C, {} \in C,
         \A T \in SUBSET S : \A x \in S \ T : T \in C => T \cup {x} \in C
  PROVE  SUBSET S \subseteq C
<1> DEFINE N == {n \in Nat : \A T \in SUBSET S : Cardinality(T) = n => T \in C}
<1>1. \A T \in SUBSET S : IsFiniteSet(T) /\ Cardinality(T) \in Nat
  <2> TAKE T \in SUBSET S
  <2>1. IsFiniteSet(T)
    BY FS_Subset
  <2> QED
    BY <2>1, FS_CardinalityType
<1>2. 0 \in N
  <2>1. \A T \in SUBSET S : Cardinality(T) = 0 => T = {}
    BY <1>1, FS_EmptySet
  <2> QED
    BY <2>1
<1>3. ASSUME NEW n \in N, NEW T \in SUBSET S, Cardinality(T) = n + 1
      PROVE  T \in C
  <2>1. T # {}
    <3>1. Cardinality({}) = 0
      BY FS_EmptySet
    <3>2. n + 1 # 0
      BY <1>3
    <3> QED
      BY <1>3, <3>1, <3>2
  <2>2. PICK x \in T : TRUE
    BY <2>1
  <2> DEFINE U == T \ {x}
  <2>3. U \in SUBSET S /\ x \in S \ U /\ U \cup {x} = T
    BY <2>2
  <2>4. Cardinality(U) = n
    <3>1. IsFiniteSet(T) /\ Cardinality(T) - 1 = n
      BY <1>1, <1>3
    <3> QED
      BY <2>2, <3>1, FS_RemoveElement
  <2> HIDE DEF U
  <2>5. U \in C
    BY <2>3, <2>4
  <2> QED
    BY <2>3, <2>5
<1>4. N = Nat
  <2>1. N \in SUBSET Nat /\ \A n \in N : n + 1 \in N
    BY <1>3
  <2> HIDE DEF N
  <2> QED
    BY <1>2, <2>1, NatSetInduction
<1> QED
  BY <1>1, <1>4

(* A sum counts: as many pairs as there are units under each index.        *)
Units(w, S) == UNION {{x} \X (1..w[x]) : x \in S}

LEMMA UnitsAdd ==
  ASSUME NEW S, NEW w, IsFiniteSet(Units(w, S)), NEW x, x \notin S, w[x] \in Nat
  PROVE  /\ IsFiniteSet(Units(w, S \cup {x}))
         /\ Cardinality(Units(w, S \cup {x})) = Cardinality(Units(w, S)) + w[x]
<1> DEFINE U == Units(w, S)
           V == {x} \X (1..w[x])
<1>1. Units(w, S \cup {x}) = U \cup V
  BY DEF Units
<1>2. U \cap V = {}
  BY DEF Units
<1>3. IsFiniteSet(V) /\ Cardinality(V) = w[x]
  <2> DEFINE k == w[x]
             J == 1..k
             One == {x}
  <2>1. IsFiniteSet(One) /\ Cardinality(One) = 1
    BY FS_Singleton
  <2>2. IsFiniteSet(J) /\ Cardinality(J) = k /\ k \in Nat
    <3>1. k \in Nat /\ 1 \in Int /\ k \in Int
      OBVIOUS
    <3> HIDE DEF k
    <3>2. IsFiniteSet(1..k) /\ Cardinality(1..k) = IF 1 > k THEN 0 ELSE k - 1 + 1
      BY <3>1, FS_Interval
    <3> QED
      BY <3>1, <3>2
  <2>3. V = One \X J
    OBVIOUS
  <2> HIDE DEF k, J, One, V
  <2>4. IsFiniteSet(One \X J) /\ Cardinality(One \X J) = Cardinality(One) * Cardinality(J)
    BY <2>1, <2>2, FS_Product
  <2> QED
    BY <2>1, <2>2, <2>3, <2>4 DEF k
<1> HIDE DEF U, V
<1>4. /\ IsFiniteSet(U \cup V)
      /\ Cardinality(U \cup V) = Cardinality(U) + Cardinality(V) - Cardinality(U \cap V)
  BY <1>3, FS_Union DEF U
<1>5. Cardinality(U \cap V) = 0 /\ Cardinality(U) \in Nat
  BY <1>2, FS_EmptySet, FS_CardinalityType DEF U
<1>6. Cardinality(U \cup V) = Cardinality(U) + w[x]
  BY <1>3, <1>4, <1>5
<1> QED
  BY <1>1, <1>4, <1>6 DEF U

LEMMA UnitsFinite ==
  ASSUME NEW S, IsFiniteSet(S), NEW w, \A x \in S : w[x] \in Nat
  PROVE  \A T \in SUBSET S : IsFiniteSet(Units(w, T))
<1> DEFINE C == {T \in SUBSET S : IsFiniteSet(Units(w, T))}
<1>1. {} \in C
  <2>1. Units(w, {}) = {}
    BY DEF Units
  <2> QED
    BY <2>1, FS_EmptySet
<1>2. \A T \in SUBSET S : \A x \in S \ T : T \in C => T \cup {x} \in C
  BY UnitsAdd
<1> HIDE DEF C
<1>3. SUBSET S \subseteq C
  BY <1>1, <1>2, FamilyInduction
<1> QED
  BY <1>3 DEF C

LEMMA SumCounts ==
  ASSUME NEW S, IsFiniteSet(S), NEW w, \A x \in S : w[x] \in Nat
  PROVE  SumFunctionOnSet(w, S) = Cardinality(Units(w, S))
<1> DEFINE Rec(f) == f = [s \in SUBSET S |-> IF s = {} THEN 0 ELSE w[CHOOSE x \in s : TRUE] + f[s \ {CHOOSE x \in s : TRUE}]]
           Chosen(s) == CHOOSE x \in s : TRUE
           Count(s) == Cardinality(Units(w, s))
           total == [s \in SUBSET S |-> Count(s)]
<1>1. SumFunctionOnSet(w, S) = (CHOOSE f : Rec(f))[S]
  BY DEF SumFunctionOnSet, FoldFunctionOnSet, MapThenFoldSet
<1>2. \A s \in SUBSET S : s # {} => Chosen(s) \in s
  OBVIOUS
<1>3. Count({}) = 0
  <2>1. Units(w, {}) = {}
    BY DEF Units
  <2> QED
    BY <2>1, FS_EmptySet
<1>4. ASSUME NEW s \in SUBSET S, s # {}
      PROVE  Count(s) = w[Chosen(s)] + Count(s \ {Chosen(s)})
  <2> DEFINE x == Chosen(s)
             u == s \ {x}
  <2>1. x \in S /\ x \notin u /\ u \in SUBSET S /\ u \cup {x} = s
    BY <1>2, <1>4
  <2>2. IsFiniteSet(Units(w, u)) /\ w[x] \in Nat
    BY <2>1, UnitsFinite
  <2> HIDE DEF x, u
  <2>3. Cardinality(Units(w, u)) \in Nat
    BY <2>2, FS_CardinalityType
  <2>4. Cardinality(Units(w, u \cup {x})) = Cardinality(Units(w, u)) + w[x]
    BY <2>1, <2>2, UnitsAdd
  <2>6. Cardinality(Units(w, u)) + w[x] = w[x] + Cardinality(Units(w, u))
    BY <2>2, <2>3
  <2>5. Cardinality(Units(w, s)) = w[x] + Cardinality(Units(w, u))
    BY <2>1, <2>4, <2>6
  <2> QED
    BY <2>5 DEF x, u
<1>5. Rec(total)
  <2> HIDE DEF Chosen, Count
  <2>1. \A s \in SUBSET S : s \ {Chosen(s)} \in SUBSET S
    OBVIOUS
  <2>2. \A s \in SUBSET S : total[s] = IF s = {} THEN 0 ELSE w[Chosen(s)] + total[s \ {Chosen(s)}]
    BY <1>3, <1>4, <2>1
  <2> HIDE DEF total
  <2>3. total = [s \in SUBSET S |-> IF s = {} THEN 0 ELSE w[Chosen(s)] + total[s \ {Chosen(s)}]]
    <3>1. DOMAIN total = SUBSET S /\ total = [s \in SUBSET S |-> total[s]]
      BY DEF total
    <3> QED
      BY <2>2, <3>1
  <2> QED
    BY <2>3 DEF Chosen
<1> DEFINE f == CHOOSE g : Rec(g)
<1>6. Rec(f)
  BY <1>5
<1> HIDE DEF f
<1>7. \A s \in SUBSET S : f[s] = IF s = {} THEN 0 ELSE w[Chosen(s)] + f[s \ {Chosen(s)}]
  BY <1>6
<1> DEFINE N == {n \in Nat : \A s \in SUBSET S : Cardinality(s) = n => f[s] = Count(s)}
<1>8. \A s \in SUBSET S : IsFiniteSet(s) /\ Cardinality(s) \in Nat
  <2> TAKE s \in SUBSET S
  <2>1. IsFiniteSet(s)
    BY FS_Subset
  <2> QED
    BY <2>1, FS_CardinalityType
<1> HIDE DEF Rec, Chosen, Count
<1>9. 0 \in N
  <2>1. \A s \in SUBSET S : Cardinality(s) = 0 => s = {}
    BY <1>8, FS_EmptySet
  <2> QED
    BY <1>3, <1>7, <2>1
<1>10. ASSUME NEW n \in N, NEW s \in SUBSET S, Cardinality(s) = n + 1
       PROVE  f[s] = Count(s)
  <2>1. n \in Nat /\ s # {}
    <3>1. Cardinality({}) = 0
      BY FS_EmptySet
    <3>2. n \in Nat /\ n + 1 # 0
      OBVIOUS
    <3> QED
      BY <1>10, <3>1, <3>2
  <2> DEFINE u == s \ {Chosen(s)}
  <2>2. u \in SUBSET S /\ Chosen(s) \in s
    BY <1>2, <2>1
  <2>3. Cardinality(u) = n
    <3>1. Cardinality(u) = Cardinality(s) - 1
      BY <1>8, <2>2, FS_RemoveElement
    <3> QED
      BY <1>10, <2>1, <3>1
  <2>4. f[u] = Count(u)
    BY <2>2, <2>3
  <2> QED
    BY <1>4, <1>7, <2>1, <2>4
<1>11. N = Nat
  <2>1. N \in SUBSET Nat /\ \A n \in N : n + 1 \in N
    BY <1>10
  <2> HIDE DEF N
  <2> QED
    BY <1>9, <2>1, NatSetInduction
<1>12. f[S] = Count(S)
  <2>1. Cardinality(S) \in N
    BY <1>8, <1>11
  <2> QED
    BY <2>1
<1> QED
  BY <1>1, <1>12 DEF f, Count

(* What a proof uses of a sum over a finite set of naturals. *)
LEMMA SumLaws ==
  ASSUME NEW S, IsFiniteSet(S), NEW w, \A x \in S : w[x] \in Nat
  PROVE  /\ SumFunctionOnSet(w, S) \in Nat
         /\ SumFunctionOnSet(w, {}) = 0
         /\ \A x \in S : SumFunctionOnSet(w, S) = SumFunctionOnSet(w, S \ {x}) + w[x]
<1>1. \A T \in SUBSET S : /\ SumFunctionOnSet(w, T) = Cardinality(Units(w, T))
                          /\ IsFiniteSet(Units(w, T)) /\ Cardinality(Units(w, T)) \in Nat
  <2> TAKE T \in SUBSET S
  <2>1. IsFiniteSet(T) /\ \A x \in T : w[x] \in Nat
    BY FS_Subset
  <2>2. IsFiniteSet(Units(w, T))
    BY UnitsFinite
  <2> QED
    BY <2>1, <2>2, SumCounts, FS_CardinalityType
<1>2. SumFunctionOnSet(w, {}) = 0
  <2>1. Units(w, {}) = {}
    BY DEF Units
  <2>2. Cardinality({}) = 0
    BY FS_EmptySet
  <2> QED
    BY <1>1, <2>1, <2>2
<1>3. ASSUME NEW x \in S
      PROVE  SumFunctionOnSet(w, S) = SumFunctionOnSet(w, S \ {x}) + w[x]
  <2> DEFINE T == S \ {x}
  <2>1. T \in SUBSET S /\ x \notin T /\ T \cup {x} = S
    OBVIOUS
  <2> HIDE DEF T
  <2>2. Cardinality(Units(w, T \cup {x})) = Cardinality(Units(w, T)) + w[x]
    BY <1>1, <2>1, UnitsAdd
  <2> QED
    BY <1>1, <2>1, <2>2 DEF T
<1> QED
  BY <1>1, <1>2, <1>3

LEMMA SumSame ==
  ASSUME NEW S, IsFiniteSet(S), NEW v, NEW w, \A x \in S : v[x] \in Nat /\ v[x] = w[x]
  PROVE  SumFunctionOnSet(v, S) = SumFunctionOnSet(w, S)
<1>1. Units(v, S) = Units(w, S)
  BY DEF Units
<1>2. \A x \in S : v[x] \in Nat /\ w[x] \in Nat
  OBVIOUS
<1> QED
  BY <1>1, <1>2, SumCounts

LEMMA SumSplit ==
  ASSUME NEW S, IsFiniteSet(S), NEW w, \A x \in S : w[x] \in Nat, NEW T \in SUBSET S
  PROVE  SumFunctionOnSet(w, S) = SumFunctionOnSet(w, T) + SumFunctionOnSet(w, S \ T)
<1> DEFINE R == S \ T
           U == Units(w, T)
           V == Units(w, R)
<1>1. IsFiniteSet(T) /\ IsFiniteSet(R) /\ (\A x \in T : w[x] \in Nat) /\ (\A x \in R : w[x] \in Nat)
  BY FS_Subset
<1>2. IsFiniteSet(U) /\ IsFiniteSet(V)
  BY UnitsFinite
<1>3. Units(w, S) = U \cup V /\ U \cap V = {}
  BY DEF Units
<1> HIDE DEF R, U, V
<1>4. Cardinality(U \cup V) = Cardinality(U) + Cardinality(V) - Cardinality(U \cap V)
  BY <1>2, FS_Union
<1>5. Cardinality(U \cap V) = 0 /\ Cardinality(U) \in Nat /\ Cardinality(V) \in Nat
  BY <1>2, <1>3, FS_EmptySet, FS_CardinalityType
<1>6. Cardinality(Units(w, S)) = Cardinality(U) + Cardinality(V)
  BY <1>3, <1>4, <1>5
<1>7. SumFunctionOnSet(w, T) = Cardinality(U) /\ SumFunctionOnSet(w, R) = Cardinality(V)
  BY <1>1, SumCounts DEF U, V
<1> QED
  BY <1>6, <1>7, SumCounts DEF R

(* InsertAt and RemoveAt, place by place. *)
LEMMA InsertedPlaces ==
  ASSUME NEW S, NEW s \in Seq(S), NEW n \in 1..Len(s), NEW e \in S
  PROVE  /\ InsertAt(s, n, e) \in Seq(S) /\ Len(InsertAt(s, n, e)) = Len(s) + 1
         /\ \A i \in 1..(n - 1) : InsertAt(s, n, e)[i] = s[i]
         /\ InsertAt(s, n, e)[n] = e
         /\ \A i \in n..Len(s) : InsertAt(s, n, e)[i + 1] = s[i]
<1> DEFINE front == SubSeq(s, 1, n - 1)
           back == SubSeq(s, n, Len(s))
           head1 == front \o <<e>>
           all == head1 \o back
<1>1. front \in Seq(S) /\ Len(front) = n - 1 /\ \A i \in 1..(n - 1) : front[i] = s[i]
  OBVIOUS
<1>2. back \in Seq(S) /\ Len(back) = Len(s) - n + 1 /\ \A i \in 1..(Len(s) - n + 1) : back[i] = s[n + i - 1]
  OBVIOUS
<1>3. InsertAt(s, n, e) = all
  BY DEF InsertAt
<1>4. Len(s) \in Nat /\ <<e>> \in Seq(S) /\ Len(<<e>>) = 1 /\ <<e>>[1] = e
  OBVIOUS
<1> HIDE DEF front, back
<1>5. front \in Seq(S) /\ back \in Seq(S)
  BY <1>1, <1>2
<1>6. /\ head1 \in Seq(S) /\ Len(head1) = Len(front) + 1
      /\ \A i \in 1..Len(front) : head1[i] = front[i]
      /\ head1[Len(front) + 1] = e
  BY <1>5
<1>7. head1 \in Seq(S)
  BY <1>6
<1> HIDE DEF head1
<1>8. /\ all \in Seq(S) /\ Len(all) = Len(head1) + Len(back)
      /\ \A i \in 1..Len(head1) : all[i] = head1[i]
      /\ \A i \in 1..Len(back) : all[Len(head1) + i] = back[i]
  BY <1>5, <1>7
<1> HIDE DEF all
<1>9. Len(head1) = n /\ Len(all) = Len(s) + 1
  BY <1>1, <1>2, <1>4, <1>6, <1>8
<1>10. ASSUME NEW i \in n..Len(s)
      PROVE  all[i + 1] = s[i]
  <2>1. i - n + 1 \in 1..Len(back) /\ n + (i - n + 1) = i + 1 /\ i - n + 1 \in 1..(Len(s) - n + 1)
        /\ n + (i - n + 1) - 1 = i
    BY <1>2, <1>4
  <2>2. all[i + 1] = back[i - n + 1]
    BY <1>8, <1>9, <2>1
  <2>3. back[i - n + 1] = s[i]
    BY <1>2, <2>1
  <2> QED
    BY <2>2, <2>3
<1>11. ASSUME NEW i \in 1..(n - 1)
       PROVE  all[i] = s[i]
  <2>1. i \in 1..Len(front) /\ i \in 1..Len(head1)
    BY <1>1, <1>9
  <2> QED
    BY <1>1, <1>6, <1>8, <2>1
<1>12. all[n] = e
  <2>1. n \in 1..Len(head1) /\ n = Len(front) + 1
    BY <1>1, <1>9
  <2> QED
    BY <1>6, <1>8, <2>1
<1> QED
  BY <1>3, <1>8, <1>9, <1>10, <1>11, <1>12

LEMMA RemovedPlaces ==
  ASSUME NEW S, NEW s \in Seq(S), NEW n \in 1..Len(s)
  PROVE  /\ RemoveAt(s, n) \in Seq(S) /\ Len(RemoveAt(s, n)) = Len(s) - 1
         /\ \A i \in 1..(n - 1) : RemoveAt(s, n)[i] = s[i]
         /\ \A i \in n..(Len(s) - 1) : RemoveAt(s, n)[i] = s[i + 1]
<1> DEFINE front == SubSeq(s, 1, n - 1)
           back == SubSeq(s, n + 1, Len(s))
           all == front \o back
<1>1. front \in Seq(S) /\ Len(front) = n - 1 /\ \A i \in 1..(n - 1) : front[i] = s[i]
  OBVIOUS
<1>2. back \in Seq(S) /\ Len(back) = Len(s) - n /\ \A i \in 1..(Len(s) - n) : back[i] = s[n + i]
  OBVIOUS
<1>3. RemoveAt(s, n) = all /\ Len(s) \in Nat
  BY DEF RemoveAt
<1> HIDE DEF front, back
<1>4. front \in Seq(S) /\ back \in Seq(S)
  BY <1>1, <1>2
<1>5. /\ all \in Seq(S) /\ Len(all) = Len(front) + Len(back)
      /\ \A i \in 1..Len(front) : all[i] = front[i]
      /\ \A i \in 1..Len(back) : all[Len(front) + i] = back[i]
  BY <1>4
<1> HIDE DEF all
<1>6. ASSUME NEW i \in n..(Len(s) - 1)
      PROVE  all[i] = s[i + 1]
  <2>1. i - n + 1 \in 1..Len(back) /\ Len(front) + (i - n + 1) = i /\ n + (i - n + 1) = i + 1
    BY <1>1, <1>2, <1>3
  <2>2. all[i] = back[i - n + 1]
    BY <1>5, <2>1
  <2>3. back[i - n + 1] = s[i + 1]
    BY <1>2, <2>1
  <2> QED
    BY <2>2, <2>3
<1>7. \A i \in 1..(n - 1) : all[i] = s[i]
  BY <1>1, <1>5
<1>8. Len(all) = Len(s) - 1
  BY <1>1, <1>2, <1>3, <1>5
<1> QED
  BY <1>3, <1>5, <1>6, <1>7, <1>8

(* A list of different members, its first one dropped, one more appended,  *)
(* one removed wherever it is.                                             *)
LEMMA ListedOnce ==
  ASSUME NEW S, NEW s \in Seq(S), IsInjective(s)
  PROVE  Cardinality(ToSet(s)) = Len(s)
<1>1. DOMAIN s = 1..Len(s) /\ Len(s) \in Nat
  OBVIOUS
<1>2. Cardinality({s[i] : i \in 1..Len(s)}) = Len(s)
  BY <1>1, DistinctCardinality DEF IsInjective
<1> QED
  BY <1>1, <1>2 DEF ToSet

LEMMA ListTail ==
  ASSUME NEW S, NEW s \in Seq(S), s # <<>>, IsInjective(s)
  PROVE  /\ Tail(s) \in Seq(S) /\ IsInjective(Tail(s)) /\ Len(Tail(s)) = Len(s) - 1
         /\ ToSet(Tail(s)) = ToSet(s) \ {Head(s)} /\ Head(s) \in ToSet(s)
<1>1. /\ Tail(s) \in Seq(S) /\ Len(Tail(s)) = Len(s) - 1 /\ DOMAIN s = 1..Len(s) /\ Len(s) \in Nat \ {0}
      /\ DOMAIN Tail(s) = 1..(Len(s) - 1) /\ Head(s) = s[1]
      /\ \A i \in 1..(Len(s) - 1) : Tail(s)[i] = s[i + 1]
  OBVIOUS
<1>2. IsInjective(Tail(s))
  BY <1>1 DEF IsInjective
<1>3. \A x : x \in ToSet(Tail(s)) <=> x \in ToSet(s) \ {Head(s)}
  <2>1. ASSUME NEW i \in 1..(Len(s) - 1)
        PROVE  Tail(s)[i] \in ToSet(s) /\ Tail(s)[i] # Head(s)
    BY <1>1 DEF IsInjective, ToSet
  <2>2. ASSUME NEW j \in 1..Len(s), s[j] # s[1]
        PROVE  s[j] \in ToSet(Tail(s))
    <3>1. j - 1 \in 1..(Len(s) - 1) /\ Tail(s)[j - 1] = s[j]
      BY <1>1, <2>2
    <3> QED
      BY <1>1, <3>1 DEF ToSet
  <2> QED
    BY <1>1, <2>1, <2>2 DEF ToSet
<1>4. Head(s) \in ToSet(s)
  BY <1>1 DEF ToSet
<1> QED
  BY <1>1, <1>2, <1>3, <1>4

LEMMA ListAppend ==
  ASSUME NEW S, NEW s \in Seq(S), NEW k \in S \ ToSet(s), IsInjective(s)
  PROVE  /\ Append(s, k) \in Seq(S) /\ IsInjective(Append(s, k)) /\ Len(Append(s, k)) = Len(s) + 1
         /\ ToSet(Append(s, k)) = ToSet(s) \cup {k}
<1> DEFINE t == Append(s, k)
<1>1. /\ t \in Seq(S) /\ Len(t) = Len(s) + 1 /\ DOMAIN s = 1..Len(s) /\ Len(s) \in Nat
      /\ DOMAIN t = 1..(Len(s) + 1) /\ t[Len(s) + 1] = k
      /\ \A i \in 1..Len(s) : t[i] = s[i]
  OBVIOUS
<1>2. \A i \in 1..Len(s) : t[i] \in ToSet(s)
  BY <1>1 DEF ToSet
<1> HIDE DEF t
<1>3. IsInjective(t)
  BY <1>1, <1>2 DEF IsInjective
<1>4. \A x : x \in ToSet(t) <=> x \in ToSet(s) \cup {k}
  <2>1. ASSUME NEW i \in DOMAIN t
        PROVE  t[i] \in ToSet(s) \cup {k}
    BY <1>1, <1>2
  <2>2. ASSUME NEW j \in DOMAIN s
        PROVE  s[j] \in ToSet(t)
    BY <1>1 DEF ToSet
  <2>3. k \in ToSet(t)
    BY <1>1 DEF ToSet
  <2> QED
    BY <2>1, <2>2, <2>3 DEF ToSet
<1> QED
  BY <1>1, <1>3, <1>4 DEF t

LEMMA ListWithout ==
  ASSUME NEW S, NEW s \in Seq(S), NEW k \in ToSet(s), IsInjective(s)
  PROVE  /\ RemoveFirst(s, k) \in Seq(S) /\ IsInjective(RemoveFirst(s, k))
         /\ Len(RemoveFirst(s, k)) = Len(s) - 1
         /\ ToSet(RemoveFirst(s, k)) = ToSet(s) \ {k}
         /\ \E j \in 1..Len(s) : \A i \in 1..(Len(s) - 1) : RemoveFirst(s, k)[i] = s[IF i < j THEN i ELSE i + 1]
<1>1. DOMAIN s = 1..Len(s) /\ Len(s) \in Nat
  OBVIOUS
<1>2. PICK j \in 1..Len(s) : s[j] = k
  BY <1>1 DEF ToSet
<1> DEFINE t == RemoveAt(s, j)
<1>3. RemoveFirst(s, k) = t
  <2> DEFINE I == {i \in 1..Len(s) : s[i] = k}
  <2>1. I = {j}
    BY <1>1, <1>2 DEF IsInjective
  <2>2. SelectInSeq(s, LAMBDA v : v = k) = IF I # {} THEN Min(I) ELSE 0
    BY DEF SelectInSeq
  <2>3. Min(I) = j
    BY <2>1 DEF Min
  <2> HIDE DEF I
  <2>4. SelectInSeq(s, LAMBDA v : v = k) = j
    BY <2>1, <2>2, <2>3
  <2>5. RemoveFirst(s, k) = RemoveAt(s, SelectInSeq(s, LAMBDA v : v = k))
    BY <1>2 DEF RemoveFirst
  <2> QED
    BY <2>4, <2>5
<1>4. /\ t \in Seq(S) /\ Len(t) = Len(s) - 1 /\ DOMAIN t = 1..(Len(s) - 1)
      /\ \A i \in 1..(Len(s) - 1) : t[i] = IF i < j THEN s[i] ELSE s[i + 1]
  <2>1. /\ t \in Seq(S) /\ Len(t) = Len(s) - 1
        /\ \A i \in 1..(j - 1) : t[i] = s[i]
        /\ \A i \in j..(Len(s) - 1) : t[i] = s[i + 1]
    BY <1>1, <1>2, RemovedPlaces
  <2> HIDE DEF t
  <2> QED
    BY <1>1, <1>2, <2>1
<1> HIDE DEF t
<1>5. IsInjective(t)
  BY <1>1, <1>2, <1>4 DEF IsInjective
<1>6. \A x : x \in ToSet(t) <=> x \in ToSet(s) \ {k}
  <2>1. ASSUME NEW i \in 1..(Len(s) - 1)
        PROVE  t[i] \in ToSet(s) /\ t[i] # k
    <3>1. i \in 1..Len(s) /\ i + 1 \in 1..Len(s) /\ (i < j => i # j) /\ (~(i < j) => i + 1 # j)
      BY <1>1, <1>2
    <3>2. \A m \in 1..Len(s) : m # j => s[m] # k /\ s[m] \in ToSet(s)
      BY <1>1, <1>2 DEF IsInjective, ToSet
    <3> QED
      BY <1>4, <3>1, <3>2
  <2>2. ASSUME NEW i \in 1..Len(s), s[i] # k
        PROVE  s[i] \in ToSet(t)
    <3>1. CASE i < j
      <4>1. i \in 1..(Len(s) - 1) /\ t[i] = s[i]
        BY <1>1, <1>2, <1>4, <3>1
      <4> QED
        BY <1>4, <4>1 DEF ToSet
    <3>2. CASE i > j
      <4>1. i - 1 \in 1..(Len(s) - 1) /\ t[i - 1] = s[i]
        BY <1>1, <1>2, <1>4, <3>2
      <4> QED
        BY <1>4, <4>1 DEF ToSet
    <3> QED
      BY <1>2, <2>2, <3>1, <3>2
  <2> QED
    BY <1>1, <1>4, <2>1, <2>2 DEF ToSet
<1>7. \A i \in 1..(Len(s) - 1) : t[i] = s[IF i < j THEN i ELSE i + 1]
  BY <1>1, <1>4
<1> QED
  BY <1>2, <1>3, <1>4, <1>5, <1>6, <1>7

(* The sum of sums, and a sum of which one member changes or is added. *)
LEMMA SumAdded ==
  ASSUME NEW S, IsFiniteSet(S), NEW u, NEW v, NEW w,
         \A x \in S : v[x] \in Nat /\ w[x] \in Nat /\ u[x] = v[x] + w[x]
  PROVE  SumFunctionOnSet(u, S) = SumFunctionOnSet(v, S) + SumFunctionOnSet(w, S)
<1> DEFINE U(T) == SumFunctionOnSet(u, T)
           V(T) == SumFunctionOnSet(v, T)
           W(T) == SumFunctionOnSet(w, T)
           C == {T \in SUBSET S : U(T) = V(T) + W(T)}
<1>1. \A x \in S : u[x] \in Nat /\ v[x] \in Nat /\ w[x] \in Nat
  OBVIOUS
<1>2. ASSUME NEW T \in SUBSET S
      PROVE  /\ U(T) \in Nat /\ V(T) \in Nat /\ W(T) \in Nat
             /\ \A x \in T : U(T) = U(T \ {x}) + u[x] /\ V(T) = V(T \ {x}) + v[x] /\ W(T) = W(T \ {x}) + w[x]
  <2>1. IsFiniteSet(T)
    BY FS_Subset
  <2>2. (\A x \in T : u[x] \in Nat) /\ (\A x \in T : v[x] \in Nat) /\ (\A x \in T : w[x] \in Nat)
    BY <1>1
  <2>3. U(T) \in Nat /\ \A x \in T : U(T) = U(T \ {x}) + u[x]
    BY <2>1, <2>2, SumLaws
  <2>4. V(T) \in Nat /\ \A x \in T : V(T) = V(T \ {x}) + v[x]
    BY <2>1, <2>2, SumLaws
  <2>5. W(T) \in Nat /\ \A x \in T : W(T) = W(T \ {x}) + w[x]
    BY <2>1, <2>2, SumLaws
  <2> QED
    BY <2>3, <2>4, <2>5
<1>3. {} \in C
  <2>1. U({}) = 0
    BY <1>1, SumLaws
  <2>2. V({}) = 0
    BY <1>1, SumLaws
  <2>3. W({}) = 0
    BY <1>1, SumLaws
  <2> HIDE DEF U, V, W
  <2> QED
    BY <2>1, <2>2, <2>3
<1> HIDE DEF U, V, W
<1>4. ASSUME NEW T \in SUBSET S, NEW x \in S \ T, T \in C
      PROVE  T \cup {x} \in C
  <2> DEFINE R == T \cup {x}
  <2>1. R \in SUBSET S /\ x \in R /\ R \ {x} = T
    OBVIOUS
  <2> HIDE DEF R
  <2>2. U(R) = U(T) + u[x] /\ V(R) = V(T) + v[x] /\ W(R) = W(T) + w[x]
    BY <1>2, <2>1
  <2>3. U(T) \in Nat /\ V(T) \in Nat /\ W(T) \in Nat /\ U(T) = V(T) + W(T)
    BY <1>2, <1>4
  <2>4. U(R) = V(R) + W(R)
    BY <1>1, <2>2, <2>3
  <2> QED
    BY <2>1, <2>4 DEF R
<1>5. SUBSET S \subseteq C
  <2> HIDE DEF C
  <2> QED
    BY <1>3, <1>4, FamilyInduction
<1> QED
  BY <1>5 DEF U, V, W

LEMMA SumChanged ==
  ASSUME NEW S, IsFiniteSet(S), NEW v, NEW w, NEW a \in S,
         \A x \in S : v[x] \in Nat /\ w[x] \in Nat, \A x \in S \ {a} : w[x] = v[x]
  PROVE  SumFunctionOnSet(w, S) = SumFunctionOnSet(v, S) - v[a] + w[a]
<1> DEFINE R == S \ {a}
<1>1. IsFiniteSet(R) /\ \A x \in R : v[x] \in Nat /\ v[x] = w[x]
  BY FS_Subset
<1>2. SumFunctionOnSet(v, S) = SumFunctionOnSet(v, R) + v[a]
  BY SumLaws
<1>3. SumFunctionOnSet(w, S) = SumFunctionOnSet(w, R) + w[a]
  BY SumLaws
<1> HIDE DEF R
<1>4. SumFunctionOnSet(v, R) = SumFunctionOnSet(w, R) /\ SumFunctionOnSet(v, R) \in Nat
  BY <1>1, SumSame, SumLaws
<1> QED
  BY <1>2, <1>3, <1>4

LEMMA SumGrown ==
  ASSUME NEW T, IsFiniteSet(T), NEW v, NEW w, NEW a \in T,
         \A x \in T : w[x] \in Nat, \A x \in T \ {a} : v[x] = w[x]
  PROVE  SumFunctionOnSet(w, T) = SumFunctionOnSet(v, T \ {a}) + w[a]
<1>1. IsFiniteSet(T \ {a}) /\ \A x \in T \ {a} : v[x] \in Nat /\ v[x] = w[x]
  BY FS_Subset
<1>2. SumFunctionOnSet(w, T) = SumFunctionOnSet(w, T \ {a}) + w[a]
  BY SumLaws
<1>3. SumFunctionOnSet(v, T \ {a}) = SumFunctionOnSet(w, T \ {a})
  BY <1>1, SumSame
<1> QED
  BY <1>2, <1>3

LEMMA SumOfZeros ==
  ASSUME NEW S, IsFiniteSet(S), NEW v, \A x \in S : v[x] = 0
  PROVE  SumFunctionOnSet(v, S) = 0
<1> DEFINE n == SumFunctionOnSet(v, S)
<1>1. n \in Nat
  BY SumLaws
<1>2. n = n + n
  BY SumAdded
<1> HIDE DEF n
<1>3. n = 0
  BY <1>1, <1>2
<1> QED
  BY <1>3 DEF n

(* A walk along the numbers up to N, whose steps depend on the number: its  *)
(* recursive definition means something.                                   *)
WalkOf(X, x0, N, G) == \E f \in [0..N -> X] : f[0] = x0 /\ \A i \in 1..N : f[i] = G[<<i, f[i - 1]>>]
LEMMA WalkExists ==
  ASSUME NEW X, NEW x0 \in X, NEW N \in Nat, NEW G \in [(1..N) \X X -> X]
  PROVE  WalkOf(X, x0, N, G)
<1> DEFINE Good(f, n) == f[0] = x0 /\ \A i \in 1..n : f[i] = G[<<i, f[i - 1]>>]
           S == {n \in Nat : n <= N => \E f \in [0..n -> X] : Good(f, n)}
<1>1. 0 \in S
  <2>1. [i \in 0..0 |-> x0] \in [0..0 -> X] /\ Good([i \in 0..0 |-> x0], 0)
    OBVIOUS
  <2> QED
    BY <2>1
<1>2. ASSUME NEW n \in S PROVE n + 1 \in S
  <2>1. SUFFICES ASSUME n + 1 <= N PROVE \E f \in [0..(n + 1) -> X] : Good(f, n + 1)
    OBVIOUS
  <2>2. PICK f \in [0..n -> X] : Good(f, n)
    BY <2>1
  <2> DEFINE last == G[<<n + 1, f[n]>>]
             g == [i \in 0..(n + 1) |-> IF i <= n THEN f[i] ELSE last]
  <2>3. n \in Nat /\ n + 1 \in 1..N /\ f[n] \in X
    BY <2>1
  <2>4. last \in X
    BY <2>3
  <2>5. g \in [0..(n + 1) -> X]
    BY <2>4
  <2>6. g[0] = x0
    BY <2>2
  <2>7. ASSUME NEW i \in 1..(n + 1) PROVE g[i] = G[<<i, g[i - 1]>>]
    <3>1. CASE i <= n
      <4>1. g[i] = f[i] /\ g[i - 1] = f[i - 1] /\ i \in 1..n
        BY <3>1
      <4> QED
        BY <4>1, <2>2
    <3>2. CASE i = n + 1
      <4>1. g[i] = last /\ g[i - 1] = f[n]
        BY <3>2
      <4> QED
        BY <3>2, <4>1
    <3> QED
      BY <3>1, <3>2
  <2> HIDE DEF g
  <2>8. Good(g, n + 1)
    BY <2>6, <2>7
  <2> QED
    BY <2>5, <2>8
<1> HIDE DEF S
<1>3. S = Nat
  <2>1. S \in SUBSET Nat
    BY DEF S
  <2> QED
    BY <1>1, <1>2, <2>1, NatSetInduction
<1>4. N \in S /\ N <= N
  BY <1>3
<1> QED
  BY <1>4 DEF S, WalkOf

(* Different ranks for all members of a finite set: each rank is taken.     *)
LEMMA RanksReached ==
  ASSUME NEW S, IsFiniteSet(S), NEW R \in [S -> 1..Cardinality(S)], \A x, y \in S : R[x] = R[y] => x = y
  PROVE  \A k \in 1..Cardinality(S) : \E x \in S : R[x] = k
<1> DEFINE n == Cardinality(S)
           T == 1..n
<1>1. n \in Nat
  BY FS_CardinalityType
<1>2. IsFiniteSet(T) /\ Cardinality(T) = n
  BY <1>1, FS_Interval
<1>3. R \in Injection(S, T)
  BY DEF Injection, IsInjective
<1> HIDE DEF T
<1>4. R \in Surjection(S, T)
  BY <1>2, <1>3, FS_Injection
<1> QED
  BY <1>4 DEF Surjection, T
===============================================================================
