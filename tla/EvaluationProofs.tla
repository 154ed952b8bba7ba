--------------------------- MODULE EvaluationProofs ---------------------------
(* What an evaluation run reports is what its stored cases amount to, proved *)
(* for any file, request and number of runs. Sums and selections are         *)
(* recursive functions; what holds of them follows by induction, as a set of *)
(* natural numbers that is not all of them leaves a least one out.           *)
EXTENDS IndexProofs, WellFoundedInduction

-----------------------------------------------------------------------------
(* Induction and recursion over the natural numbers.                         *)

LEMMA LeastNumber ==
  ASSUME NEW S, S \subseteq Nat, S # {}
  PROVE  \E n \in S : \A m \in S : n <= m
<1>1. PICK x \in S : \A y \in S : <<y, x>> \notin OpToRel(<, Nat)
  BY NatLessThanWellFounded, WFMin
<1>2. \A m, n \in Nat : m < n => <<m, n>> \in OpToRel(<, Nat)
  BY Zenon DEF OpToRel
<1>3. \A y \in S : ~ (y < x)
  BY <1>1, <1>2, Zenon
<1> QED BY <1>3

LEMMA NatSetInduction ==
  ASSUME NEW T, 0 \in T, \A n \in Nat : n \in T => n + 1 \in T
  PROVE  Nat \subseteq T
<1> SUFFICES ASSUME Nat \ T # {} PROVE FALSE
  OBVIOUS
<1>1. PICK n \in Nat \ T : \A m \in Nat \ T : n <= m
  BY LeastNumber
<1>2. n # 0 /\ n - 1 \in Nat
  BY <1>1
<1>3. n - 1 \in T
  BY <1>1, <1>2
<1> QED BY <1>1, <1>2, <1>3

(* A function on 0..L that starts with a and goes on by step.                *)
Follows(f, L, a, step) == f[0] = a /\ \A n \in 1..L : f[n] = step[<<n, f[n - 1]>>]

LEMMA RecursionExists ==
  ASSUME NEW A, NEW a \in A, NEW step \in [Nat \X A -> A], NEW L \in Nat
  PROVE  \E f \in [0..L -> A] : Follows(f, L, a, step)
<1> DEFINE T == {m \in Nat : \E f \in [0..m -> A] : Follows(f, m, a, step)}
<1>1. 0 \in T
  <2> DEFINE g == [n \in 0..0 |-> a]
  <2>1. g \in [0..0 -> A] /\ Follows(g, 0, a, step)
    BY DEF Follows
  <2> QED BY <2>1
<1>2. ASSUME NEW m \in Nat, m \in T PROVE m + 1 \in T
  <2>1. PICK f \in [0..m -> A] : Follows(f, m, a, step)
    BY <1>2
  <2> DEFINE g == [n \in 0..(m + 1) |-> IF n = m + 1 THEN step[<<m + 1, f[m]>>] ELSE f[n]]
  <2>2. step[<<m + 1, f[m]>>] \in A
    BY <2>1
  <2>3. g \in [0..(m + 1) -> A] /\ g[0] = a
    BY <2>1, <2>2 DEF Follows
  <2>4. ASSUME NEW n \in 1..(m + 1) PROVE g[n] = step[<<n, g[n - 1]>>]
    <3>1. CASE n = m + 1
      <4>1. g[m + 1] = step[<<m + 1, f[m]>>] /\ g[m] = f[m] /\ n - 1 = m
        BY <3>1
      <4> HIDE DEF g
      <4> QED BY <3>1, <4>1
    <3>2. CASE n # m + 1
      BY <2>1, <3>2 DEF Follows
    <3> QED BY <3>1, <3>2
  <2> HIDE DEF g
  <2> QED BY <2>3, <2>4 DEF Follows
<1>3. L \in T
  <2> HIDE DEF T
  <2> QED BY <1>1, <1>2, NatSetInduction
<1> QED BY <1>3

LEMMA RecursionUnique ==
  ASSUME NEW L \in Nat, NEW a, NEW step, NEW f, NEW g,
         Follows(f, L, a, step), Follows(g, L, a, step)
  PROVE  \A n \in 0..L : f[n] = g[n]
<1> DEFINE T == {n \in Nat : n \in 0..L => f[n] = g[n]}
<1>1. 0 \in T
  BY DEF Follows
<1>2. ASSUME NEW n \in Nat, n \in T PROVE n + 1 \in T
  <2>1. CASE n + 1 \in 0..L
    <3>1. f[n] = g[n] /\ n + 1 \in 1..L /\ (n + 1) - 1 = n
      BY <1>2, <2>1
    <3>2. f[n + 1] = step[<<n + 1, f[n]>>] /\ g[n + 1] = step[<<n + 1, g[n]>>]
      BY <3>1 DEF Follows
    <3> QED BY <3>1, <3>2
  <2>2. CASE n + 1 \notin 0..L
    BY <2>2
  <2> QED BY <2>1, <2>2
<1>3. Nat \subseteq T
  <2> HIDE DEF T
  <2> QED BY <1>1, <1>2, NatSetInduction
<1> QED BY <1>3

-----------------------------------------------------------------------------
(* Sums of sequences.                                                        *)

(* What a running total adds at each place.                                  *)
Adding(w) == [p \in Nat \X Int |-> p[2] + (IF p[1] \in DOMAIN w THEN w[p[1]] ELSE 0)]

Totals(w, f) == f \in [0..Len(w) -> Int] /\ Follows(f, Len(w), 0, Adding(w))

LEMMA AddingSteps ==
  ASSUME NEW w \in Seq(Int)
  PROVE  /\ Adding(w) \in [Nat \X Int -> Int]
         /\ \A n \in 1..Len(w), a \in Int : Adding(w)[<<n, a>>] = a + w[n]
<1>1. DOMAIN w = 1..Len(w) /\ Len(w) \in Nat /\ \A i \in DOMAIN w : w[i] \in Int
  OBVIOUS
<1>2. ASSUME NEW p \in Nat \X Int
      PROVE  p[2] + (IF p[1] \in DOMAIN w THEN w[p[1]] ELSE 0) \in Int
  BY <1>1
<1>3. Adding(w) \in [Nat \X Int -> Int]
  BY <1>2 DEF Adding
<1>4. ASSUME NEW n \in 1..Len(w), NEW a \in Int PROVE Adding(w)[<<n, a>>] = a + w[n]
  BY <1>1 DEF Adding
<1> QED BY <1>3, <1>4

LEMMA TotalSteps ==
  ASSUME NEW w \in Seq(Int), NEW f, Totals(w, f), NEW n \in 1..Len(w)
  PROVE  f[n - 1] \in Int /\ f[n] = f[n - 1] + w[n]
<1>1. n - 1 \in 0..Len(w)
  OBVIOUS
<1>2. f[n - 1] \in Int /\ f[n] = Adding(w)[<<n, f[n - 1]>>]
  BY <1>1 DEF Totals, Follows
<1> QED BY <1>2, AddingSteps

LEMMA SumIsLastTotal ==
  ASSUME NEW w \in Seq(Int)
  PROVE  \E f : Totals(w, f) /\ Sum(w) = f[Len(w)]
<1> DEFINE Is(f) == f = [n \in 0..Len(w) |-> IF n = 0 THEN 0 ELSE f[n - 1] + w[n]]
<1> DEFINE total == CHOOSE f : Is(f)
<1>1. Len(w) \in Nat /\ 0 \in Int /\ Adding(w) \in [Nat \X Int -> Int]
  BY AddingSteps
<1>2. PICK f \in [0..Len(w) -> Int] : Follows(f, Len(w), 0, Adding(w))
  BY <1>1, RecursionExists
<1>3. Totals(w, f)
  BY <1>2 DEF Totals
<1>4. Is(f)
  <2>1. ASSUME NEW n \in 0..Len(w) PROVE f[n] = IF n = 0 THEN 0 ELSE f[n - 1] + w[n]
    <3>1. CASE n = 0
      BY <1>2, <3>1 DEF Follows
    <3>2. CASE n # 0
      <4>1. n \in 1..Len(w)
        BY <1>1, <3>2
      <4>2. f[n] = f[n - 1] + w[n]
        BY <1>3, <4>1, TotalSteps
      <4> QED BY <3>2, <4>2
    <3> QED BY <3>1, <3>2
  <2> QED BY <1>2, <2>1
<1>5. Is(total)
  <2> HIDE DEF Is
  <2> QED BY <1>4
<1>6. Sum(w) = total[Len(w)]
  BY DEF Sum
<1> HIDE DEF total
<1>7. total[0] = 0 /\ \A n \in 1..Len(w) : total[n] = total[n - 1] + w[n]
  BY <1>1, <1>5
<1> DEFINE T == {n \in Nat : n \in 0..Len(w) => total[n] = f[n]}
<1>8. 0 \in T
  BY <1>2, <1>7 DEF Follows
<1>9. ASSUME NEW n \in Nat, n \in T PROVE n + 1 \in T
  <2>1. CASE n + 1 \in 0..Len(w)
    <3>1. total[n] = f[n] /\ n + 1 \in 1..Len(w) /\ (n + 1) - 1 = n
      BY <1>1, <1>9, <2>1
    <3>2. f[n + 1] = f[n] + w[n + 1]
      BY <1>3, <3>1, TotalSteps
    <3> QED BY <1>7, <3>1, <3>2
  <2>2. CASE n + 1 \notin 0..Len(w)
    BY <2>2
  <2> QED BY <2>1, <2>2
<1>10. \A n \in 0..Len(w) : total[n] = f[n]
  <2> HIDE DEF T
  <2>1. Nat \subseteq T
    BY <1>8, <1>9, NatSetInduction
  <2> QED BY <1>1, <2>1 DEF T
<1> QED BY <1>1, <1>3, <1>6, <1>10

LEMMA SumEmpty == Sum(<<>>) = 0
<1>1. <<>> \in Seq(Int) /\ Len(<<>>) = 0
  OBVIOUS
<1>2. PICK f : Totals(<<>>, f) /\ Sum(<<>>) = f[Len(<<>>)]
  BY <1>1, SumIsLastTotal
<1> QED BY <1>1, <1>2 DEF Totals, Follows

LEMMA SumAppend ==
  ASSUME NEW w \in Seq(Int), NEW x \in Int
  PROVE  Sum(w) \in Int /\ Sum(Append(w, x)) = Sum(w) + x
<1> DEFINE v == Append(w, x)
<1>1. /\ v \in Seq(Int) /\ Len(w) \in Nat /\ Len(v) = Len(w) + 1 /\ v[Len(w) + 1] = x
      /\ \A i \in 1..Len(w) : v[i] = w[i]
  OBVIOUS
<1> HIDE DEF v
<1>2. PICK f : Totals(w, f) /\ Sum(w) = f[Len(w)]
  BY SumIsLastTotal
<1>3. PICK g : Totals(v, g) /\ Sum(v) = g[Len(v)]
  BY <1>1, SumIsLastTotal
<1>4. ASSUME NEW n \in 1..Len(w) PROVE g[n] = Adding(w)[<<n, g[n - 1]>>]
  <2>1. n \in 1..Len(v)
    BY <1>1
  <2>2. g[n - 1] \in Int /\ g[n] = g[n - 1] + v[n]
    BY <1>1, <1>3, <2>1, TotalSteps
  <2> QED BY <1>1, <2>2, AddingSteps
<1>5. Follows(f, Len(w), 0, Adding(w)) /\ Follows(g, Len(w), 0, Adding(w))
  BY <1>2, <1>3, <1>4 DEF Totals, Follows
<1>6. f[Len(w)] = g[Len(w)]
  <2>1. \A n \in 0..Len(w) : f[n] = g[n]
    BY <1>1, <1>5, RecursionUnique
  <2> QED BY <1>1, <2>1
<1>7. f[Len(w)] \in Int
  BY <1>1, <1>2 DEF Totals
<1>8. g[Len(w) + 1] = g[Len(w)] + x
  <2>1. Len(w) + 1 \in 1..Len(v) /\ (Len(w) + 1) - 1 = Len(w)
    BY <1>1
  <2> QED BY <1>1, <1>3, <2>1, TotalSteps
<1> QED BY <1>1, <1>2, <1>3, <1>6, <1>7, <1>8 DEF v

-----------------------------------------------------------------------------
(* The cases a run searches.                                                 *)

Joining(seqs, A) == [p \in Nat \X Seq(A) |-> IF p[1] \in DOMAIN seqs THEN p[2] \o seqs[p[1]] ELSE p[2]]

LEMMA JoiningSteps ==
  ASSUME NEW A, NEW seqs \in Seq(Seq(A))
  PROVE  /\ Joining(seqs, A) \in [Nat \X Seq(A) -> Seq(A)]
         /\ \A n \in 1..Len(seqs), s \in Seq(A) : Joining(seqs, A)[<<n, s>>] = s \o seqs[n]
<1>1. DOMAIN seqs = 1..Len(seqs) /\ Len(seqs) \in Nat /\ \A i \in DOMAIN seqs : seqs[i] \in Seq(A)
  OBVIOUS
<1>2. ASSUME NEW p \in Nat \X Seq(A)
      PROVE  (IF p[1] \in DOMAIN seqs THEN p[2] \o seqs[p[1]] ELSE p[2]) \in Seq(A)
  <2>1. \A s, t \in Seq(A) : s \o t \in Seq(A)
    OBVIOUS
  <2>2. p[2] \in Seq(A)
    OBVIOUS
  <2> QED BY <1>1, <2>1, <2>2
<1>3. Joining(seqs, A) \in [Nat \X Seq(A) -> Seq(A)]
  BY <1>2 DEF Joining
<1>4. ASSUME NEW n \in 1..Len(seqs), NEW s \in Seq(A)
      PROVE  Joining(seqs, A)[<<n, s>>] = s \o seqs[n]
  <2> DEFINE p == <<n, s>>
  <2>1. p \in Nat \X Seq(A) /\ p[1] = n /\ p[2] = s /\ n \in DOMAIN seqs
    BY <1>1
  <2> HIDE DEF p
  <2>2. Joining(seqs, A)[p] = p[2] \o seqs[p[1]]
    BY <2>1, Zenon DEF Joining
  <2> QED BY <2>1, <2>2, Zenon DEF p
<1> QED BY <1>3, <1>4

LEMMA FlattenType ==
  ASSUME NEW A, NEW seqs \in Seq(Seq(A))
  PROVE  FlattenSeq(seqs) \in Seq(A)
<1> DEFINE L == Len(seqs)
           Is(f) == f = [i \in 1..Len(seqs) |-> IF i = 1 THEN seqs[i] ELSE f[i - 1] \o seqs[i]]
           flat == CHOOSE f : Is(f)
<1>1. /\ L \in Nat /\ <<>> \in Seq(A) /\ Joining(seqs, A) \in [Nat \X Seq(A) -> Seq(A)]
      /\ \A i \in 1..L : seqs[i] \in Seq(A)
      /\ \A s, t \in Seq(A) : s \o t \in Seq(A)
  <2>1. <<>> \in Seq(A) /\ \A s, t \in Seq(A) : s \o t \in Seq(A)
    OBVIOUS
  <2>2. Joining(seqs, A) \in [Nat \X Seq(A) -> Seq(A)]
    BY JoiningSteps
  <2>3. L \in Nat /\ \A i \in 1..L : seqs[i] \in Seq(A)
    OBVIOUS
  <2> QED BY <2>1, <2>2, <2>3
<1>2. CASE L = 0
  <2>1. FlattenSeq(seqs) = seqs
    BY <1>2 DEF FlattenSeq
  <2> QED BY <1>2, <2>1
<1>3. CASE L # 0
  <2>1. PICK g \in [0..L -> Seq(A)] : Follows(g, L, <<>>, Joining(seqs, A))
    BY <1>1, RecursionExists
  <2> DEFINE f == [i \in 1..L |-> g[i]]
  <2>2. ASSUME NEW i \in 1..L PROVE g[i - 1] \in Seq(A) /\ g[i] = g[i - 1] \o seqs[i]
    <3>1. i - 1 \in 0..L
      BY <1>1
    <3>2. g[i - 1] \in Seq(A) /\ g[i] = Joining(seqs, A)[<<i, g[i - 1]>>]
      BY <2>1, <3>1 DEF Follows
    <3> QED BY <3>2, JoiningSteps
  <2>3. ASSUME NEW i \in 1..L PROVE f[i] = IF i = 1 THEN seqs[i] ELSE f[i - 1] \o seqs[i]
    <3>1. CASE i = 1
      <4>1. g[0] = <<>> /\ g[1] = <<>> \o seqs[1]
        <5>1. g[0] = <<>>
          BY <2>1 DEF Follows
        <5>2. 1 \in 1..L /\ 1 - 1 = 0
          BY <1>1, <1>3
        <5>3. g[1] = g[1 - 1] \o seqs[1]
          BY <2>2, <5>2
        <5> QED BY <5>1, <5>2, <5>3, Zenon
      <4>2. seqs[1] \in Seq(A)
        BY <1>1, <3>1
      <4>3. <<>> \o seqs[1] = seqs[1]
        BY <4>2
      <4> QED BY <3>1, <4>1, <4>3
    <3>2. CASE i # 1
      <4>1. i - 1 \in 1..L
        BY <1>1, <3>2
      <4> QED BY <2>2, <3>2, <4>1
    <3> QED BY <3>1, <3>2
  <2>4. Is(f)
    <3> HIDE DEF f
    <3>1. f = [i \in 1..L |-> f[i]]
      BY DEF f
    <3> QED BY <2>3, <3>1
  <2>5. Is(flat)
    <3> HIDE DEF Is, f
    <3> QED BY <2>4
  <2>6. FlattenSeq(seqs) = flat[L]
    BY <1>3 DEF FlattenSeq
  <2> HIDE DEF flat
  <2>7. \A i \in 1..L : flat[i] = IF i = 1 THEN seqs[i] ELSE flat[i - 1] \o seqs[i]
    BY <2>5
  <2> DEFINE T == {n \in Nat : n \in 1..L => flat[n] \in Seq(A)}
  <2>8. 0 \in T
    OBVIOUS
  <2>9. ASSUME NEW n \in Nat, n \in T PROVE n + 1 \in T
    <3>1. CASE n + 1 \in 1..L /\ n # 0
      <4>1. flat[n] \in Seq(A) /\ (n + 1) - 1 = n /\ n + 1 # 1
        BY <1>1, <2>9, <3>1
      <4>2. flat[n + 1] = flat[n] \o seqs[n + 1]
        <5>1. flat[n + 1] = IF n + 1 = 1 THEN seqs[n + 1] ELSE flat[(n + 1) - 1] \o seqs[n + 1]
          BY <2>7, <3>1, Zenon
        <5> QED BY <4>1, <5>1, Zenon
      <4>3. seqs[n + 1] \in Seq(A)
        BY <1>1, <3>1
      <4>4. flat[n + 1] \in Seq(A)
        BY <1>1, <4>1, <4>2, <4>3, Zenon
      <4> QED BY <4>4
    <3>2. CASE n + 1 \in 1..L /\ n = 0
      BY <1>1, <2>7, <3>2
    <3>3. CASE n + 1 \notin 1..L
      BY <3>3
    <3> QED BY <3>1, <3>2, <3>3
  <2>10. Nat \subseteq T
    <3> HIDE DEF T
    <3> QED BY <2>8, <2>9, NatSetInduction
  <2>11. L \in 1..L
    BY <1>1, <1>3
  <2> QED BY <1>1, <2>6, <2>10, <2>11
<1> QED BY <1>2, <1>3

LEMMA SetToSeqType ==
  ASSUME NEW S, IsFiniteSet(S)
  PROVE  SetToSeq(S) \in Seq(S)
<1>1. PICK f \in Bijection(1..Cardinality(S), S) : TRUE
  BY FS_CardinalityType DEF ExistsBijection
<1>2. f \in [1..Cardinality(S) -> S] /\ IsInjective(f)
  BY <1>1 DEF Bijection, Injection, IsInjective
<1>3. SetToSeq(S) \in [1..Cardinality(S) -> S]
  BY <1>2 DEF SetToSeq
<1>4. Cardinality(S) \in Nat
  BY FS_CardinalityType
<1> QED BY <1>3, <1>4

(* A run searches cases of its files and questions of its corpus.            *)
LEMMA FileCasesType ==
  ASSUME NEW file \in Seq(Case), NEW tier, tier # "identity"
  PROVE  FileCases(file, tier) \in Seq(SearchCase)
<1> DEFINE one(i) == IF file[i].tier = tier THEN <<file[i]>> ELSE <<>>
           seqs == [i \in DOMAIN file |-> one(i)]
<1>1. DOMAIN file = 1..Len(file) /\ Len(file) \in Nat /\ \A i \in DOMAIN file : file[i] \in Case
  OBVIOUS
<1>2. ASSUME NEW i \in DOMAIN file PROVE one(i) \in Seq(SearchCase)
  <2>1. CASE file[i].tier = tier
    <3>1. file[i] \in SearchCase
      BY <1>1, <2>1 DEF SearchCase
    <3> QED BY <2>1, <3>1
  <2>2. CASE file[i].tier # tier
    BY <2>2
  <2> QED BY <2>1, <2>2
<1>3. seqs \in Seq(Seq(SearchCase))
  <2> HIDE DEF one
  <2> QED BY <1>1, <1>2
<1>4. FlattenSeq(seqs) \in Seq(SearchCase)
  <2> HIDE DEF seqs
  <2> QED BY <1>3, FlattenType
<1> QED BY <1>4 DEF FileCases

LEMMA IdentityCasesType ==
  ASSUME NEW corpus
  PROVE  IdentityCases(corpus) \in Seq(SearchCase)
<1> DEFINE ids == SetToSeq(Indexed(corpus))
<1>1. Indexed(corpus) \subseteq Entries
  BY DEF Indexed
<1>2. IsFiniteSet(Indexed(corpus))
  BY <1>1, EvaluationAssumption, FS_Subset DEF EvaluationAssumption
<1>3. ids \in Seq(Indexed(corpus))
  BY <1>2, SetToSeqType
<1> HIDE DEF ids
<1>4. DOMAIN ids = 1..Len(ids) /\ Len(ids) \in Nat /\ \A i \in DOMAIN ids : ids[i] \in Entries
  BY <1>1, <1>3
<1>5. ASSUME NEW i \in DOMAIN ids
      PROVE  [tier |-> "identity", expected |-> {ids[i]}] \in SearchCase
  BY <1>4 DEF SearchCase, Case, Tiers
<1>6. [i \in DOMAIN ids |-> [tier |-> "identity", expected |-> {ids[i]}]] \in Seq(SearchCase)
  BY <1>4, <1>5
<1> QED BY <1>6 DEF IdentityCases, ids

LEMMA SelectedType ==
  ASSUME NEW q \in Runs, ask[q] \in Asks, ~BadTier(ask[q]),
         release[q] \in [corpus : Corpora, cases : Files], Usable(release[q].cases)
  PROVE  Selected(q) \in Seq(SearchCase)
<1> DEFINE tiers == AskedTiers(ask[q])
           parts == [i \in DOMAIN tiers |-> CasesOf(tiers[i], release[q])]
<1>1. release[q].cases \in Seq(Case)
  BY EvaluationAssumption DEF EvaluationAssumption, Usable
<1>2. DOMAIN tiers = 1..Len(tiers) /\ Len(tiers) \in Nat
  <2>1. ask[q].tiers \in Seq(STRING)
    BY EvaluationAssumption DEF EvaluationAssumption
  <2>2. CASE ask[q].tiers = <<>>
    <3>1. DOMAIN DefaultTiers = 1..3 /\ Len(DefaultTiers) = 3
      BY DEF DefaultTiers
    <3>2. AskedTiers(ask[q]) = DefaultTiers
      BY <2>2, Zenon DEF AskedTiers
    <3>3. DOMAIN AskedTiers(ask[q]) = 1..3 /\ Len(AskedTiers(ask[q])) = 3
      BY <3>1, <3>2, Zenon
    <3> QED BY <3>3
  <2>3. CASE ask[q].tiers # <<>>
    BY <2>1, <2>3 DEF AskedTiers
  <2> QED BY <2>2, <2>3
<1> HIDE DEF tiers
<1>3. ASSUME NEW i \in DOMAIN tiers PROVE CasesOf(tiers[i], release[q]) \in Seq(SearchCase)
  BY <1>1, FileCasesType, IdentityCasesType DEF CasesOf
<1>4. parts \in Seq(Seq(SearchCase))
  BY <1>2, <1>3
<1>5. FlattenSeq(parts) \in Seq(SearchCase)
  <2> HIDE DEF parts
  <2> QED BY <1>4, FlattenType
<1> QED BY <1>5 DEF Selected, tiers

-----------------------------------------------------------------------------
(* What one more row adds.                                                   *)

LEMMA OneMorePlace ==
  ASSUME NEW n \in Nat, NEW S, NEW T, S \subseteq 1..n, T \subseteq 1..(n + 1),
         \A i \in 1..n : i \in T <=> i \in S
  PROVE  /\ IsFiniteSet(S) /\ Cardinality(S) \in Nat
         /\ Cardinality(T) = Cardinality(S) + (IF n + 1 \in T THEN 1 ELSE 0)
<1>1. IsFiniteSet(S) /\ Cardinality(S) \in Nat
  <2>1. IsFiniteSet(1..n)
    BY FS_Interval
  <2>2. IsFiniteSet(S)
    BY <2>1, FS_Subset
  <2> QED BY <2>2, FS_CardinalityType
<1>2. /\ \A i \in 1..(n + 1) : i = n + 1 \/ i \in 1..n
      /\ n + 1 \notin 1..n
  OBVIOUS
<1>3. \A i \in T : i = n + 1 \/ i \in S
  BY <1>2
<1>4. \A i \in S : i \in T
  OBVIOUS
<1>5. CASE n + 1 \in T
  <2>1. T = S \cup {n + 1} /\ n + 1 \notin S
    BY <1>5, <1>2, <1>3, <1>4
  <2> QED BY <1>1, <1>5, <2>1, FS_AddElement
<1>6. CASE n + 1 \notin T
  <2>1. T = S
    BY <1>6, <1>3, <1>4
  <2> QED BY <1>1, <1>6, <2>1
<1> QED BY <1>1, <1>5, <1>6

LEMMA AppendedRows ==
  ASSUME NEW rows \in Seq(SearchRow), NEW row \in SearchRow
  PROVE  /\ Len(rows) \in Nat /\ Len(Append(rows, row)) = Len(rows) + 1
         /\ DOMAIN rows = 1..Len(rows) /\ DOMAIN Append(rows, row) = 1..(Len(rows) + 1)
         /\ \A i \in 1..Len(rows) : rows[i] \in SearchRow /\ Append(rows, row)[i] = rows[i]
         /\ Append(rows, row)[Len(rows) + 1] = row
OBVIOUS

LEMMA CountsAppend ==
  ASSUME NEW rows \in Seq(SearchRow), NEW row \in SearchRow, NEW tier
  PROVE  /\ Cardinality(OfTier(rows, tier)) \in Nat
         /\ Cardinality(OfTier(Append(rows, row), tier)) =
              Cardinality(OfTier(rows, tier)) + (IF row.tier = tier THEN 1 ELSE 0)
<1> DEFINE v == Append(rows, row)
<1>1. /\ Len(rows) \in Nat /\ DOMAIN rows = 1..Len(rows) /\ DOMAIN v = 1..(Len(rows) + 1)
      /\ \A i \in 1..Len(rows) : v[i] = rows[i]
      /\ v[Len(rows) + 1] = row
  BY AppendedRows
<1> HIDE DEF v
<1>2. OfTier(rows, tier) \subseteq 1..Len(rows) /\ OfTier(v, tier) \subseteq 1..(Len(rows) + 1)
  BY <1>1 DEF OfTier
<1>3. \A i \in 1..Len(rows) : i \in OfTier(v, tier) <=> i \in OfTier(rows, tier)
  BY <1>1 DEF OfTier
<1>4. Len(rows) + 1 \in OfTier(v, tier) <=> row.tier = tier
  BY <1>1 DEF OfTier
<1>5. /\ Cardinality(OfTier(rows, tier)) \in Nat
      /\ Cardinality(OfTier(v, tier)) =
           Cardinality(OfTier(rows, tier)) + (IF Len(rows) + 1 \in OfTier(v, tier) THEN 1 ELSE 0)
  BY <1>1, <1>2, <1>3, OneMorePlace
<1> QED BY <1>4, <1>5 DEF v

LEMMA AbstainedAppend ==
  ASSUME NEW rows \in Seq(SearchRow), NEW row \in SearchRow
  PROVE  /\ Cardinality(Abstained(rows)) \in Nat
         /\ Cardinality(Abstained(Append(rows, row))) =
              Cardinality(Abstained(rows))
              + (IF row.tier = "negative" /\ row.results = <<>> THEN 1 ELSE 0)
<1> DEFINE v == Append(rows, row)
<1>1. /\ Len(rows) \in Nat /\ DOMAIN rows = 1..Len(rows) /\ DOMAIN v = 1..(Len(rows) + 1)
      /\ \A i \in 1..Len(rows) : v[i] = rows[i]
      /\ v[Len(rows) + 1] = row
  BY AppendedRows
<1> HIDE DEF v
<1>2. Abstained(rows) \subseteq 1..Len(rows) /\ Abstained(v) \subseteq 1..(Len(rows) + 1)
  BY <1>1 DEF Abstained, OfTier
<1>3. \A i \in 1..Len(rows) : i \in Abstained(v) <=> i \in Abstained(rows)
  BY <1>1 DEF Abstained, OfTier
<1>4. Len(rows) + 1 \in Abstained(v) <=> row.tier = "negative" /\ row.results = <<>>
  BY <1>1 DEF Abstained, OfTier
<1>5. /\ Cardinality(Abstained(rows)) \in Nat
      /\ Cardinality(Abstained(v)) =
           Cardinality(Abstained(rows)) + (IF Len(rows) + 1 \in Abstained(v) THEN 1 ELSE 0)
  BY <1>1, <1>2, <1>3, OneMorePlace
<1> QED BY <1>4, <1>5 DEF v

LEMMA CanariesAppend ==
  ASSUME NEW rows \in Seq(SearchRow), NEW row \in SearchRow
  PROVE  /\ Cardinality(Canaries(rows)) \in Nat
         /\ Cardinality(Canaries(Append(rows, row))) =
              Cardinality(Canaries(rows)) + (IF row.tier = "identity" /\ FirstHit(row) THEN 1 ELSE 0)
<1> DEFINE v == Append(rows, row)
<1>1. /\ Len(rows) \in Nat /\ DOMAIN rows = 1..Len(rows) /\ DOMAIN v = 1..(Len(rows) + 1)
      /\ \A i \in 1..Len(rows) : v[i] = rows[i]
      /\ v[Len(rows) + 1] = row
  BY AppendedRows
<1> HIDE DEF v
<1>2. Canaries(rows) \subseteq 1..Len(rows) /\ Canaries(v) \subseteq 1..(Len(rows) + 1)
  BY <1>1 DEF Canaries, OfTier
<1>3. \A i \in 1..Len(rows) : i \in Canaries(v) <=> i \in Canaries(rows)
  BY <1>1 DEF Canaries, OfTier
<1>4. Len(rows) + 1 \in Canaries(v) <=> row.tier = "identity" /\ FirstHit(row)
  BY <1>1 DEF Canaries, OfTier
<1>5. /\ Cardinality(Canaries(rows)) \in Nat
      /\ Cardinality(Canaries(v)) =
           Cardinality(Canaries(rows)) + (IF Len(rows) + 1 \in Canaries(v) THEN 1 ELSE 0)
  BY <1>1, <1>2, <1>3, OneMorePlace
<1> QED BY <1>4, <1>5 DEF v

LEMMA RowTypes ==
  ASSUME NEW row \in SearchRow
  PROVE  /\ row.tier \in Tiers /\ row.expected \subseteq Entries /\ row.results \in Seq(Entries)
         /\ row.tier = "identity" => \E e \in Entries : row.expected = {e}
         /\ IsFiniteSet(row.expected)
         /\ row.expected # {} => Cardinality(row.expected) \in Nat \ {0}
<1>1. /\ row.tier \in Tiers /\ row.expected \subseteq Entries /\ row.results \in Seq(Entries)
      /\ row.tier = "identity" => \E e \in Entries : row.expected = {e}
  BY DEF SearchRow, FoundRow
<1>2. IsFiniteSet(row.expected)
  BY <1>1, EvaluationAssumption, FS_Subset DEF EvaluationAssumption
<1>3. row.expected # {} => Cardinality(row.expected) \in Nat \ {0}
  BY <1>2, FS_EmptySet, FS_CardinalityType
<1> QED BY <1>1, <1>2, <1>3

LEMMA Quotient ==
  ASSUME NEW a \in Nat, NEW b \in Nat \ {0}
  PROVE  a \div b \in Int
OBVIOUS

LEMMA ShareType ==
  ASSUME NEW row \in SearchRow, NEW k \in Nat
  PROVE  ShareByRank(row, k) \in Int
<1> DEFINE hit == {e \in row.expected : \E i \in 1..k : i \in DOMAIN row.results /\ row.results[i] = e}
<1>1. CASE row.expected = {}
  BY <1>1 DEF ShareByRank
<1>2. CASE row.expected # {}
  <2>1. Cardinality(hit) \in Nat
    <3>1. IsFiniteSet(row.expected) /\ hit \in SUBSET row.expected
      BY RowTypes
    <3> HIDE DEF hit
    <3>2. IsFiniteSet(hit)
      BY <3>1, FS_Subset
    <3> QED BY <3>2, FS_CardinalityType
  <2>2. Cardinality(row.expected) \in Nat \ {0} /\ Scale \in Nat
    BY <1>2, RowTypes, EvaluationAssumption DEF EvaluationAssumption
  <2>3. ShareByRank(row, k) = (Scale * Cardinality(hit)) \div Cardinality(row.expected)
    BY <1>2 DEF ShareByRank
  <2> HIDE DEF hit
  <2>4. Scale * Cardinality(hit) \in Nat
    BY <2>1, <2>2
  <2> QED BY <2>2, <2>3, <2>4, Quotient
<1> QED BY <1>1, <1>2

(* Recall is the share of the expected ids that stand at a rank up to k.     *)
LEMMA RecallIsShare ==
  ASSUME NEW row \in SearchRow, NEW k \in Nat
  PROVE  RecallAtK(row.expected, row.results, k) = ShareByRank(row, k)
<1> DEFINE within == row.expected \cap {row.results[i] : i \in {j \in DOMAIN row.results : j <= k}}
           hit == {e \in row.expected : \E i \in 1..k : i \in DOMAIN row.results /\ row.results[i] = e}
<1>1. row.results \in Seq(Entries)
  BY RowTypes
<1>2. \A i \in DOMAIN row.results : i \in 1..k <=> i <= k
  BY <1>1
<1>3. within = hit
  <2>1. ASSUME NEW e \in within PROVE e \in hit
    BY <1>2
  <2>2. ASSUME NEW e \in hit PROVE e \in within
    BY <1>2
  <2> QED BY <2>1, <2>2
<1>4. RecallAtK(row.expected, row.results, k) =
        IF row.expected = {} THEN 0
        ELSE (Scale * Cardinality(within)) \div Cardinality(row.expected)
  BY DEF RecallAtK, HitsWithin
<1>5. ShareByRank(row, k) =
        IF row.expected = {} THEN 0
        ELSE (Scale * Cardinality(hit)) \div Cardinality(row.expected)
  BY DEF ShareByRank
<1> QED BY <1>3, <1>4, <1>5, Zenon

(* The first rank that is relevant is the only one with none before it.      *)
LEMMA ReciprocalIsByRank ==
  ASSUME NEW row \in SearchRow
  PROVE  /\ Reciprocal(FirstRelevantRank(row.expected, row.results)) = ReciprocalByRank(row)
         /\ FirstRelevantRank(row.expected, row.results) \in Nat \cup {None}
         /\ ReciprocalByRank(row) \in Int
<1> DEFINE ranks == {i \in DOMAIN row.results : row.results[i] \in row.expected}
           first == {i \in DOMAIN row.results : row.results[i] \in row.expected
                                      /\ \A j \in 1..(i - 1) : row.results[j] \notin row.expected}
<1>1. row.results \in Seq(Entries) /\ None \notin Nat /\ Scale \in Nat
  BY RowTypes, EvaluationAssumption DEF EvaluationAssumption
<1>2. DOMAIN row.results = 1..Len(row.results) /\ Len(row.results) \in Nat
  BY <1>1
<1>3. CASE ranks = {}
  <2>1. first = {}
    BY <1>3
  <2>2. FirstRelevantRank(row.expected, row.results) = None
    BY <1>3 DEF FirstRelevantRank
  <2>3. ReciprocalByRank(row) = 0
    BY <2>1 DEF ReciprocalByRank
  <2> QED BY <2>2, <2>3 DEF Reciprocal
<1>4. CASE ranks # {}
  <2>1. ranks \subseteq Nat
    BY <1>2
  <2>2. PICK n \in ranks : \A m \in ranks : n <= m
    BY <1>4, <2>1, LeastNumber
  <2>3. n \in Nat \ {0}
    BY <1>2, <2>2
  <2>4. Min(ranks) = n
    <3>1. Min(ranks) \in ranks /\ \A m \in ranks : Min(ranks) <= m
      <4> HIDE DEF ranks
      <4> QED BY <2>2 DEF Min
    <3> QED BY <2>1, <2>2, <3>1
  <2>5. FirstRelevantRank(row.expected, row.results) = n
    BY <1>4, <2>4 DEF FirstRelevantRank
  <2>6. n \in first
    <3>1. ASSUME NEW j \in 1..(n - 1) PROVE j \notin ranks
      BY <2>2, <2>3
    <3>2. \A j \in 1..(n - 1) : j \in DOMAIN row.results
      BY <1>2, <2>2, <2>3
    <3> QED BY <2>2, <3>1, <3>2
  <2>7. ASSUME NEW m \in first PROVE m = n
    <3>1. m \in ranks /\ m \in Nat /\ n <= m
      BY <2>1, <2>2
    <3>2. ~(n < m)
      <4>1. n < m => n \in 1..(m - 1)
        BY <2>3, <3>1
      <4> QED BY <4>1, <2>2
    <3> QED BY <2>3, <3>1, <3>2
  <2>8. ReciprocalByRank(row) = Scale \div n
    <3>1. (CHOOSE i \in first : TRUE) = n /\ first # {}
      <4> HIDE DEF first
      <4> QED BY <2>6, <2>7
    <3> QED BY <3>1 DEF ReciprocalByRank
  <2>9. Scale \div n \in Int
    BY <1>1, <2>3, Quotient
  <2>10. n # None
    BY <1>1, <2>3
  <2> QED BY <2>3, <2>5, <2>8, <2>9, <2>10 DEF Reciprocal
<1> QED BY <1>3, <1>4

LEMMA IsAppend ==
  ASSUME NEW w \in Seq(Int), NEW x \in Int, NEW u \in [1..(Len(w) + 1) -> Int],
         \A i \in 1..Len(w) : u[i] = w[i], u[Len(w) + 1] = x
  PROVE  u = Append(w, x)
<1> DEFINE a == Append(w, x)
<1>1. /\ a \in Seq(Int) /\ Len(w) \in Nat /\ Len(a) = Len(w) + 1
      /\ \A i \in 1..Len(w) : a[i] = w[i]
      /\ a[Len(w) + 1] = x
  OBVIOUS
<1> HIDE DEF a
<1>2. a \in [1..(Len(w) + 1) -> Int]
  BY <1>1
<1>3. \A i \in 1..(Len(w) + 1) : i \in 1..Len(w) \/ i = Len(w) + 1
  BY <1>1
<1>4. \A i \in 1..(Len(w) + 1) : a[i] = u[i]
  BY <1>1, <1>3
<1>5. a = u
  BY <1>2, <1>4
<1> QED BY <1>5 DEF a

LEMMA SharesAppend ==
  ASSUME NEW rows \in Seq(SearchRow), NEW row \in SearchRow, NEW k \in Nat
  PROVE  /\ Sum(Shares(rows, k)) \in Int
         /\ Sum(Shares(Append(rows, row), k)) =
              Sum(Shares(rows, k)) + (IF row.tier = "paraphrase" THEN ShareByRank(row, k) ELSE 0)
<1> DEFINE v == Append(rows, row)
           x == IF row.tier = "paraphrase" THEN ShareByRank(row, k) ELSE 0
<1>1. /\ Len(rows) \in Nat /\ DOMAIN rows = 1..Len(rows) /\ DOMAIN v = 1..(Len(rows) + 1)
      /\ \A i \in 1..Len(rows) : rows[i] \in SearchRow /\ v[i] = rows[i]
      /\ v[Len(rows) + 1] = row
  BY AppendedRows
<1>2. x \in Int
  BY ShareType
<1>3. \A i \in 1..Len(rows) :
        (IF rows[i].tier = "paraphrase" THEN ShareByRank(rows[i], k) ELSE 0) \in Int
  BY <1>1, ShareType
<1>4. Shares(rows, k) \in Seq(Int) /\ Len(Shares(rows, k)) = Len(rows)
  BY <1>1, <1>3 DEF Shares
<1> HIDE DEF v, x
<1>5. Shares(v, k) = Append(Shares(rows, k), x)
  <2>1. \A i \in 1..Len(rows) : Shares(v, k)[i] = Shares(rows, k)[i]
    BY <1>1 DEF Shares
  <2>2. Shares(v, k)[Len(rows) + 1] = x
    BY <1>1 DEF Shares, x
  <2>3. \A i \in 1..(Len(rows) + 1) : v[i] \in SearchRow
    <3>1. \A i \in 1..(Len(rows) + 1) : i \in 1..Len(rows) \/ i = Len(rows) + 1
      BY <1>1
    <3> QED BY <1>1, <3>1
  <2>4. \A i \in 1..(Len(rows) + 1) : (IF v[i].tier = "paraphrase" THEN ShareByRank(v[i], k) ELSE 0) \in Int
    BY <2>3, ShareType
  <2>5. Shares(v, k) \in [1..(Len(rows) + 1) -> Int]
    BY <1>1, <2>4 DEF Shares
  <2> QED BY <1>2, <1>4, <2>1, <2>2, <2>5, IsAppend
<1> QED BY <1>2, <1>4, <1>5, SumAppend DEF v, x

LEMMA ReciprocalsAppend ==
  ASSUME NEW rows \in Seq(SearchRow), NEW row \in SearchRow
  PROVE  /\ Sum(Reciprocals(rows)) \in Int
         /\ Sum(Reciprocals(Append(rows, row))) =
              Sum(Reciprocals(rows)) + (IF row.tier = "paraphrase" THEN ReciprocalByRank(row) ELSE 0)
<1> DEFINE v == Append(rows, row)
           x == IF row.tier = "paraphrase" THEN ReciprocalByRank(row) ELSE 0
<1>1. /\ Len(rows) \in Nat /\ DOMAIN rows = 1..Len(rows) /\ DOMAIN v = 1..(Len(rows) + 1)
      /\ \A i \in 1..Len(rows) : rows[i] \in SearchRow /\ v[i] = rows[i]
      /\ v[Len(rows) + 1] = row
  BY AppendedRows
<1>2. x \in Int
  BY ReciprocalIsByRank
<1>3. \A i \in 1..Len(rows) :
        (IF rows[i].tier = "paraphrase" THEN ReciprocalByRank(rows[i]) ELSE 0) \in Int
  BY <1>1, ReciprocalIsByRank
<1>4. Reciprocals(rows) \in Seq(Int) /\ Len(Reciprocals(rows)) = Len(rows)
  BY <1>1, <1>3 DEF Reciprocals
<1> HIDE DEF v, x
<1>5. Reciprocals(v) = Append(Reciprocals(rows), x)
  <2>1. \A i \in 1..Len(rows) : Reciprocals(v)[i] = Reciprocals(rows)[i]
    BY <1>1 DEF Reciprocals
  <2>2. Reciprocals(v)[Len(rows) + 1] = x
    BY <1>1 DEF Reciprocals, x
  <2>3. \A i \in 1..(Len(rows) + 1) : v[i] \in SearchRow
    <3>1. \A i \in 1..(Len(rows) + 1) : i \in 1..Len(rows) \/ i = Len(rows) + 1
      BY <1>1
    <3> QED BY <1>1, <3>1
  <2>4. \A i \in 1..(Len(rows) + 1) : (IF v[i].tier = "paraphrase" THEN ReciprocalByRank(v[i]) ELSE 0) \in Int
    BY <2>3, ReciprocalIsByRank
  <2>5. Reciprocals(v) \in [1..(Len(rows) + 1) -> Int]
    BY <1>1, <2>4 DEF Reciprocals
  <2> QED BY <1>2, <1>4, <2>1, <2>2, <2>5, IsAppend
<1> QED BY <1>2, <1>4, <1>5, SumAppend DEF v, x

(* The one id an identity case expects is found whole or not at all.         *)
LEMMA CanaryShare ==
  ASSUME NEW row \in SearchRow, row.tier = "identity"
  PROVE  RecallAtK(row.expected, row.results, 1) = IF FirstHit(row) THEN Scale ELSE 0
<1> DEFINE within == row.expected \cap {row.results[i] : i \in {j \in DOMAIN row.results : j <= 1}}
<1>1. PICK e \in Entries : row.expected = {e}
  BY RowTypes
<1>2. row.results \in Seq(Entries) /\ Scale \in Nat
  BY RowTypes, EvaluationAssumption DEF EvaluationAssumption
<1>3. Cardinality(row.expected) = 1 /\ row.expected # {}
  BY <1>1, FS_Singleton
<1>4. RecallAtK(row.expected, row.results, 1) = (Scale * Cardinality(within)) \div 1
  BY <1>3 DEF RecallAtK, HitsWithin
<1>5. within = IF FirstHit(row) THEN {e} ELSE {}
  <2>1. \A i \in {j \in DOMAIN row.results : j <= 1} : i = 1
    BY <1>2
  <2>2. row.results # <<>> <=> 1 \in DOMAIN row.results
    BY <1>2
  <2>3. CASE FirstHit(row)
    <3>1. row.results[1] = e /\ 1 \in {j \in DOMAIN row.results : j <= 1}
      BY <1>1, <2>2, <2>3 DEF FirstHit
    <3> QED BY <1>1, <2>1, <2>3, <3>1
  <2>4. CASE ~FirstHit(row)
    <3>1. ASSUME NEW x \in within PROVE FALSE
      BY <1>1, <2>1, <2>2, <2>4 DEF FirstHit
    <3> QED BY <2>4, <3>1
  <2> QED BY <2>3, <2>4
<1>6. Cardinality(within) = IF FirstHit(row) THEN 1 ELSE 0
  <2> HIDE DEF within
  <2> QED BY <1>5, FS_Singleton, FS_EmptySet
<1> HIDE DEF within
<1> QED BY <1>2, <1>4, <1>6

(* What a case adds to what is counted is what its row adds to the sums.     *)
LEMMA RowOfCase ==
  ASSUME NEW q \in Runs, Current(q) \in SearchCase, NEW hits \in Seq(Entries)
  PROVE  /\ CaseRow(q, hits) \in SearchRow
         /\ CaseRow(q, hits).tier = Current(q).tier
         /\ CaseRow(q, hits).expected = Current(q).expected
         /\ CaseRow(q, hits).results = hits
<1> DEFINE row == CaseRow(q, hits)
           c == Current(q)
           plain == [tier |-> c.tier, expected |-> c.expected, results |-> hits, first_relevant_rank |-> None]
<1>1. /\ c.tier \in Tiers /\ c.expected \subseteq Entries
      /\ c.tier = "identity" => \E e \in Entries : c.expected = {e}
  BY DEF SearchCase, Case
<1>2. plain \in SearchRow
  BY <1>1 DEF SearchRow, FoundRow
<1>3. FirstRelevantRank(c.expected, hits) \in Nat \cup {None}
  <2>1. plain.expected = c.expected /\ plain.results = hits
    OBVIOUS
  <2> HIDE DEF plain
  <2> QED BY <1>2, <2>1, ReciprocalIsByRank
<1>4. row = [tier |-> c.tier, expected |-> c.expected, results |-> hits,
             first_relevant_rank |-> FirstRelevantRank(c.expected, hits)]
  BY DEF CaseRow
<1> HIDE DEF row, c
<1>5. row \in SearchRow
  BY <1>1, <1>3, <1>4 DEF SearchRow, FoundRow
<1> QED BY <1>4, <1>5 DEF row, c

Added(t, u, row, ks) ==
  /\ u.graded = t.graded + (IF row.tier = "paraphrase" THEN 1 ELSE 0)
  /\ u.negatives = t.negatives + (IF row.tier = "negative" THEN 1 ELSE 0)
  /\ \A k \in 1..MaxK :
       u.recalls[k] = t.recalls[k] + (IF row.tier = "paraphrase" THEN ShareByRank(row, k) ELSE 0)
  /\ u.reciprocals = t.reciprocals + (IF row.tier = "paraphrase" THEN ReciprocalByRank(row) ELSE 0)
  /\ u.abstained = t.abstained + (IF row.tier = "negative" /\ row.results = <<>> THEN 1 ELSE 0)
  /\ 1 \in ks =>
       u.identity = t.identity + (IF row.tier = "identity" /\ FirstHit(row) THEN Scale ELSE 0)

LEMMA CountedCases ==
  ASSUME NEW q \in Runs, Current(q) \in SearchCase, NEW hits \in Seq(Entries), tally[q] \in Tally
  PROVE  Counted(q, hits) \in Tally /\ Added(tally[q], Counted(q, hits), CaseRow(q, hits), Ks(ask[q]))
<1> DEFINE t == tally[q]
           u == Counted(q, hits)
           row == CaseRow(q, hits)
           c == Current(q)
<1>1. /\ row \in SearchRow /\ row.tier = c.tier /\ row.expected = c.expected /\ row.results = hits
      /\ c.tier \in {"paraphrase", "identity", "negative"}
  BY RowOfCase DEF SearchCase, Case, Tiers
<1>2. /\ t \in Tally /\ DOMAIN t.recalls = 1..MaxK /\ \A k \in 1..MaxK : t.recalls[k] \in Int
      /\ t.reciprocals \in Int /\ t.graded \in Int /\ t.identities \in Int /\ t.identity \in Int
      /\ t.negatives \in Int /\ t.abstained \in Int
  BY DEF Tally
<1>3. CASE c.tier = "paraphrase"
  <2>1. u = [t EXCEPT !.recalls = [k \in DOMAIN @ |-> @[k] + RecallAtK(c.expected, hits, k)],
                      !.reciprocals = @ + Reciprocal(FirstRelevantRank(c.expected, hits)),
                      !.graded = @ + 1]
    BY <1>3 DEF Counted
  <2>2. /\ \A k \in 1..MaxK : /\ RecallAtK(c.expected, hits, k) = ShareByRank(row, k)
                              /\ ShareByRank(row, k) \in Int
        /\ Reciprocal(FirstRelevantRank(c.expected, hits)) = ReciprocalByRank(row)
        /\ ReciprocalByRank(row) \in Int
    <3>1. \A k \in 1..MaxK : k \in Nat
      BY EvaluationAssumption DEF EvaluationAssumption
    <3> HIDE DEF row, c
    <3> QED BY <1>1, <3>1, RecallIsShare, ShareType, ReciprocalIsByRank
  <2> HIDE DEF t, u, row, c
  <2>3. [k \in DOMAIN t.recalls |-> t.recalls[k] + RecallAtK(c.expected, hits, k)] \in [1..MaxK -> Int]
    BY <1>2, <2>2
  <2>4. u \in Tally
    <3>1. u = [recalls |-> [k \in DOMAIN t.recalls |-> t.recalls[k] + RecallAtK(c.expected, hits, k)],
               reciprocals |-> t.reciprocals + Reciprocal(FirstRelevantRank(c.expected, hits)),
               graded |-> t.graded + 1, identities |-> t.identities, identity |-> t.identity,
               negatives |-> t.negatives, abstained |-> t.abstained]
      BY <1>2, <2>1 DEF Tally
    <3> QED BY <1>2, <2>2, <2>3, <3>1 DEF Tally
  <2>5. /\ u.graded = t.graded + 1 /\ u.negatives = t.negatives /\ u.abstained = t.abstained
        /\ u.identity = t.identity /\ u.reciprocals = t.reciprocals + ReciprocalByRank(row)
        /\ \A k \in 1..MaxK : u.recalls[k] = t.recalls[k] + ShareByRank(row, k)
    BY <1>2, <2>1, <2>2 DEF Tally
  <2>6. row.tier = "paraphrase"
    BY <1>1, <1>3
  <2>7. u \in Tally /\ Added(t, u, row, Ks(ask[q]))
    BY <1>2, <2>4, <2>5, <2>6 DEF Added
  <2> QED BY <2>7, Zenon DEF t, u, row
<1>4. CASE c.tier = "identity"
  <2>1. u = [t EXCEPT !.identities = @ + 1, !.identity = @ + IdentityRecall(q, hits)]
    BY <1>4 DEF Counted
  <2>2. /\ 1 \in Ks(ask[q]) => IdentityRecall(q, hits) = IF FirstHit(row) THEN Scale ELSE 0
        /\ IdentityRecall(q, hits) \in Int
    <3>1. RecallAtK(c.expected, hits, 1) = IF FirstHit(row) THEN Scale ELSE 0
      <4> HIDE DEF row, c
      <4> QED BY <1>1, <1>4, CanaryShare
    <3>2. Scale \in Int
      BY EvaluationAssumption DEF EvaluationAssumption
    <3> QED BY <3>1, <3>2 DEF IdentityRecall
  <2> HIDE DEF t, u, row, c
  <2>3. u \in Tally
    <3>1. u = [recalls |-> t.recalls, reciprocals |-> t.reciprocals, graded |-> t.graded,
               identities |-> t.identities + 1, identity |-> t.identity + IdentityRecall(q, hits),
               negatives |-> t.negatives, abstained |-> t.abstained]
      BY <1>2, <2>1 DEF Tally
    <3> QED BY <1>2, <2>2, <3>1 DEF Tally
  <2>4. /\ u.graded = t.graded /\ u.negatives = t.negatives /\ u.abstained = t.abstained
        /\ u.identity = t.identity + IdentityRecall(q, hits)
        /\ u.reciprocals = t.reciprocals /\ u.recalls = t.recalls
    BY <1>2, <2>1 DEF Tally
  <2>5. row.tier = "identity"
    BY <1>1, <1>4
  <2>7. u \in Tally /\ Added(t, u, row, Ks(ask[q]))
    BY <1>2, <2>2, <2>3, <2>4, <2>5 DEF Added
  <2> QED BY <2>7, Zenon DEF t, u, row
<1>5. CASE c.tier = "negative"
  <2>1. u = [t EXCEPT !.negatives = @ + 1, !.abstained = @ + (IF hits = <<>> THEN 1 ELSE 0)]
    BY <1>5 DEF Counted
  <2> HIDE DEF t, u, row, c
  <2>2. u \in Tally
    <3>1. u = [recalls |-> t.recalls, reciprocals |-> t.reciprocals, graded |-> t.graded,
               identities |-> t.identities, identity |-> t.identity, negatives |-> t.negatives + 1,
               abstained |-> t.abstained + (IF hits = <<>> THEN 1 ELSE 0)]
      BY <1>2, <2>1 DEF Tally
    <3> QED BY <1>2, <3>1 DEF Tally
  <2>3. /\ u.graded = t.graded /\ u.negatives = t.negatives + 1
        /\ u.abstained = t.abstained + (IF hits = <<>> THEN 1 ELSE 0)
        /\ u.identity = t.identity /\ u.reciprocals = t.reciprocals /\ u.recalls = t.recalls
    BY <1>2, <2>1 DEF Tally
  <2>4. row.tier = "negative" /\ row.results = hits
    BY <1>1, <1>5
  <2>7. u \in Tally /\ Added(t, u, row, Ks(ask[q]))
    BY <1>2, <2>2, <2>3, <2>4 DEF Added
  <2> QED BY <2>7, Zenon DEF t, u, row
<1> QED BY <1>1, <1>3, <1>4, <1>5

LEMMA TalliedAppend ==
  ASSUME NEW rows \in Seq(SearchRow), NEW row \in SearchRow, NEW ks, NEW t, NEW u,
         Tallied(t, rows, ks), Added(t, u, row, ks)
  PROVE  Tallied(u, Append(rows, row), ks)
<1> DEFINE v == Append(rows, row)
<1>1. u.graded = Cardinality(OfTier(v, "paraphrase"))
  BY CountsAppend DEF Tallied, Added
<1>2. u.negatives = Cardinality(OfTier(v, "negative"))
  BY CountsAppend DEF Tallied, Added
<1>3. ASSUME NEW k \in 1..MaxK PROVE u.recalls[k] = Sum(Shares(v, k))
  <2>1. k \in Nat
    BY EvaluationAssumption DEF EvaluationAssumption
  <2> QED BY <2>1, SharesAppend DEF Tallied, Added
<1>4. u.reciprocals = Sum(Reciprocals(v))
  BY ReciprocalsAppend DEF Tallied, Added
<1>5. u.abstained = Cardinality(Abstained(v))
  BY AbstainedAppend DEF Tallied, Added
<1>6. ASSUME 1 \in ks PROVE u.identity = Scale * Cardinality(Canaries(v))
  <2>1. /\ t.identity = Scale * Cardinality(Canaries(rows))
        /\ u.identity = t.identity + (IF row.tier = "identity" /\ FirstHit(row) THEN Scale ELSE 0)
    BY <1>6 DEF Tallied, Added
  <2>2. /\ Cardinality(Canaries(rows)) \in Nat
        /\ Cardinality(Canaries(v)) =
             Cardinality(Canaries(rows)) + (IF row.tier = "identity" /\ FirstHit(row) THEN 1 ELSE 0)
    BY CanariesAppend
  <2>3. Scale \in Nat
    BY EvaluationAssumption DEF EvaluationAssumption
  <2> HIDE DEF v
  <2> QED BY <2>1, <2>2, <2>3
<1> QED BY <1>1, <1>2, <1>3, <1>4, <1>5, <1>6 DEF Tallied

LEMMA TalliedNone ==
  ASSUME NEW ks
  PROVE  Tallied(NoTally, <<>>, ks) /\ NoTally \in Tally
<1>1. \A tier : OfTier(<<>>, tier) = {}
  BY DEF OfTier
<1>2. Abstained(<<>>) = {} /\ Canaries(<<>>) = {}
  BY DEF Abstained, Canaries, OfTier
<1>3. \A k \in 1..MaxK : Shares(<<>>, k) = <<>>
  BY DEF Shares
<1>4. Reciprocals(<<>>) = <<>>
  BY DEF Reciprocals
<1>5. Cardinality({}) = 0 /\ Sum(<<>>) = 0 /\ Scale \in Nat
  BY FS_EmptySet, SumEmpty, EvaluationAssumption DEF EvaluationAssumption
<1>6. NoTally \in Tally
  BY DEF NoTally, Tally
<1>7. /\ NoTally.graded = 0 /\ NoTally.negatives = 0 /\ NoTally.reciprocals = 0
      /\ NoTally.abstained = 0 /\ NoTally.identity = 0
      /\ \A k \in 1..MaxK : NoTally.recalls[k] = 0
  BY DEF NoTally
<1>8. Scale * Cardinality(Canaries(<<>>)) = 0
  <2>1. Cardinality(Canaries(<<>>)) = 0
    BY <1>2, <1>5, Zenon
  <2>2. Scale * 0 = 0
    BY <1>5
  <2> QED BY <2>1, <2>2, Zenon
<1>9. \A k \in 1..MaxK : NoTally.recalls[k] = Sum(Shares(<<>>, k))
  BY <1>3, <1>5, <1>7
<1>10. /\ NoTally.graded = Cardinality(OfTier(<<>>, "paraphrase"))
       /\ NoTally.negatives = Cardinality(OfTier(<<>>, "negative"))
  BY <1>1, <1>5, <1>7, Zenon
<1>11. NoTally.reciprocals = Sum(Reciprocals(<<>>)) /\ NoTally.abstained = Cardinality(Abstained(<<>>))
  BY <1>2, <1>4, <1>5, <1>7, Zenon
<1>12. NoTally.identity = Scale * Cardinality(Canaries(<<>>))
  BY <1>7, <1>8, Zenon
<1> QED BY <1>6, <1>9, <1>10, <1>11, <1>12, Zenon DEF Tallied

LEMMA SameFactor ==
  ASSUME NEW s \in Nat \ {0}, NEW a \in Nat, NEW b \in Nat
  PROVE  s * a = s * b <=> a = b
<1>1. a < b => s * a < s * b
  OBVIOUS
<1>2. b < a => s * b < s * a
  OBVIOUS
<1> QED BY <1>1, <1>2

(* A perfect canary: as many first hits as there are questions.              *)
LEMMA PerfectCanary ==
  ASSUME NEW rows \in Seq(SearchRow)
  PROVE  Scale * Cardinality(Canaries(rows)) = Scale * Cardinality(OfTier(rows, "identity"))
           <=> \A i \in OfTier(rows, "identity") : FirstHit(rows[i])
<1>1. Canaries(rows) \subseteq OfTier(rows, "identity")
  BY DEF Canaries
<1>2. OfTier(rows, "identity") \in SUBSET (1..Len(rows)) /\ Len(rows) \in Int
  BY DEF OfTier
<1>3. IsFiniteSet(OfTier(rows, "identity"))
  BY <1>2, FS_Interval, FS_Subset
<1>4. /\ IsFiniteSet(Canaries(rows)) /\ Cardinality(Canaries(rows)) \in Nat
      /\ Cardinality(OfTier(rows, "identity")) \in Nat
      /\ Cardinality(OfTier(rows, "identity")) = Cardinality(Canaries(rows)) =>
           Canaries(rows) = OfTier(rows, "identity")
  BY <1>1, <1>3, FS_Subset, FS_CardinalityType
<1>5. Canaries(rows) = OfTier(rows, "identity") <=> \A i \in OfTier(rows, "identity") : FirstHit(rows[i])
  BY DEF Canaries
<1>6. Scale \in Nat \ {0}
  BY EvaluationAssumption DEF EvaluationAssumption
<1>7. Scale * Cardinality(Canaries(rows)) = Scale * Cardinality(OfTier(rows, "identity"))
        <=> Cardinality(Canaries(rows)) = Cardinality(OfTier(rows, "identity"))
  BY <1>4, <1>6, SameFactor
<1> QED BY <1>4, <1>5, <1>7

-----------------------------------------------------------------------------
(* The steps of a run.                                                       *)

LEMMA RankingsType ==
  ASSUME NEW q \in Runs, NEW hits \in Rankings(q)
  PROVE  hits \in Seq(Entries)
<1>1. PICK n \in 0..Min({Max(Ks(ask[q])), Cardinality(Indexed(table))}) : hits \in [1..n -> Indexed(table)]
  BY DEF Rankings
<1>2. n \in Nat
  BY <1>1
<1>3. Indexed(table) \subseteq Entries
  BY DEF Indexed
<1> QED BY <1>1, <1>2, <1>3

(* What a step of one run leaves alone of the others.                        *)
LEMMA OtherRuns ==
  ASSUME RunInv, SearchInv, width \in Widths, NEW q \in Runs, Evaluate(q)
  PROVE  /\ release' = release
         /\ ask' \in [Runs -> Asks \cup {None}] /\ queryWidth' \in [Runs -> Widths \cup {None}]
         /\ DOMAIN cases' = Runs /\ DOMAIN found' = Runs /\ DOMAIN tally' = Runs
         /\ \A p \in Runs \ {q} :
              /\ phase'[p] = phase[p] /\ ask'[p] = ask[p]
              /\ cases'[p] = cases[p] /\ found'[p] = found[p] /\ tally'[p] = tally[p]
              /\ runRow'[p] = runRow[p] /\ caseRows'[p] = caseRows[p]
<1> USE DEF SearchInv, Go, Answer, Refuse
<1>1. \A p \in Runs \ {q} : phase'[p] = phase[p] /\ runRow'[p] = runRow[p] /\ caseRows'[p] = caseRows[p]
  BY RunSteps DEF RunInv
<1>2. CASE AskRefused(q) \/ Begin(q)
  BY <1>1, <1>2 DEF AskRefused, Begin
<1>3. CASE EmptyIndex(q) \/ EvalSetUnavailable(q) \/ QueryBreaks(q) \/ Respond(q) \/ RunBreaks(q)
  BY <1>1, <1>3 DEF EmptyIndex, EvalSetUnavailable, QueryBreaks, Respond, RunBreaks
<1>4. CASE SelectCases(q) \/ FailRun(q) \/ SaveRun(q)
  BY <1>1, <1>4 DEF SelectCases, FailRun, SaveRun
<1>5. CASE LookUp(q) \/ LookUpFails(q) \/ EndSearch(q)
  BY <1>1, <1>5 DEF LookUp, LookUpFails, EndSearch
<1>6. CASE Query(q)
  BY <1>1, <1>6 DEF Query
<1> QED BY <1>2, <1>3, <1>4, <1>5, <1>6 DEF Evaluate

(* A run that ends without a row of its own keeps what it had.               *)
LEMMA RefusedRuns ==
  ASSUME RunInv, SearchInv, NEW q \in Runs,
         \/ AskRefused(q) \/ EmptyIndex(q) \/ EvalSetUnavailable(q)
         \/ QueryBreaks(q) \/ Respond(q) \/ RunBreaks(q)
  PROVE  SearchOK(q)'
<1>1. /\ phase'[q] = "done" /\ UNCHANGED <<cases, found, tally, runRow, caseRows>>
      /\ q \in Completed => ask'[q] = ask[q]
  <2>1. CASE AskRefused(q)
    BY <2>1 DEF AskRefused, Refuse, Answer, Go, RunInv, SearchInv, SearchOK
  <2>2. CASE ~AskRefused(q)
    BY <2>2 DEF EmptyIndex, EvalSetUnavailable, QueryBreaks, Respond, RunBreaks, Refuse, Answer, Go, RunInv
  <2> QED BY <2>1, <2>2
<1>2. SearchOK(q)
  BY DEF SearchInv
<1>3. (q \in Completed)' <=> q \in Completed
  BY <1>1 DEF Completed
<1>4. q \in Completed => StoredOK(q)'
  BY <1>1, <1>2 DEF SearchOK, StoredOK
<1> QED BY <1>1, <1>2, <1>3, <1>4 DEF SearchOK

LEMMA BegunRuns ==
  ASSUME RunInv, SearchInv, NEW q \in Runs, Begin(q)
  PROVE  SearchOK(q)'
<1>1. /\ phase[q] = "idle" /\ phase'[q] = "asked" /\ UNCHANGED <<cases, found, tally, runRow, caseRows>>
      /\ ask'[q] \in Asks /\ ~BadTier(ask'[q]) /\ ~BadK(ask'[q])
  BY DEF Begin, Go, RunInv, SearchInv
<1>2. SearchOK(q)
  BY DEF SearchInv
<1>3. (q \in Completed)' <=> q \in Completed
  BY <1>1 DEF Completed
<1> QED BY <1>1, <1>2, <1>3 DEF SearchOK

LEMMA SelectedRuns ==
  ASSUME RunInv, SearchInv, NEW q \in Runs, SelectCases(q)
  PROVE  SearchOK(q)'
<1>1. /\ phase[q] = "asked" /\ phase'[q] = "searching" /\ cases'[q] = Selected(q)
      /\ UNCHANGED <<found, tally, runRow, caseRows, ask>>
  BY DEF SelectCases, Go, RunInv, SearchInv
<1>2. SearchOK(q)
  BY DEF SearchInv
<1>3. Selected(q) \in Seq(SearchCase) /\ Len(Selected(q)) \in Nat
  <2>1. Selected(q) \in Seq(SearchCase)
    BY <1>1, <1>2, SelectedType DEF SelectCases, SearchInv, SearchOK
  <2> QED BY <2>1
<1>4. (q \in Completed)' <=> q \in Completed
  BY <1>1 DEF Completed
<1>5. found[q] = <<>> /\ tally[q] = NoTally /\ q \notin Completed /\ ~BadK(ask[q])
  BY <1>1, <1>2 DEF SearchOK
<1>6. Tallied(tally[q], found[q], Ks(ask[q]))
  BY <1>5, TalliedNone
<1>7. Len(found[q]) = 0
  BY <1>5
<1> QED BY <1>1, <1>2, <1>3, <1>4, <1>5, <1>6, <1>7 DEF SearchOK

LEMMA SearchedRuns ==
  ASSUME RunInv, SearchInv, NEW q \in Runs, LookUp(q) \/ LookUpFails(q) \/ EndSearch(q)
  PROVE  SearchOK(q)'
<1>1. /\ phase[q] = "searching" /\ phase'[q] \in {"querying", "failing", "saving"}
      /\ phase'[q] = "querying" => More(q)
      /\ phase'[q] = "saving" => ~More(q)
      /\ UNCHANGED <<cases, found, tally, runRow, caseRows, ask>>
  BY DEF LookUp, LookUpFails, EndSearch, Go, RunInv
<1>2. SearchOK(q)
  BY DEF SearchInv
<1>3. (q \in Completed)' <=> q \in Completed
  BY <1>1 DEF Completed
<1>4. More(q)' <=> More(q)
  BY <1>1 DEF More
<1>5. StoredOK(q)' <=> StoredOK(q)
  BY <1>1 DEF StoredOK
<1> QED BY <1>1, <1>2, <1>3, <1>4, <1>5 DEF SearchOK

LEMMA QueriedRuns ==
  ASSUME RunInv, SearchInv, NEW q \in Runs, Query(q)
  PROVE  SearchOK(q)'
<1>1. PICK hits \in Rankings(q) :
        /\ found' = [found EXCEPT ![q] = Append(@, CaseRow(q, hits))]
        /\ tally' = [tally EXCEPT ![q] = Counted(q, hits)]
  BY DEF Query
<1> DEFINE row == CaseRow(q, hits)
<1>2. /\ phase[q] = "querying" /\ phase'[q] = "searching"
      /\ found'[q] = Append(found[q], row) /\ tally'[q] = Counted(q, hits)
      /\ UNCHANGED <<cases, runRow, caseRows, ask>>
  BY <1>1 DEF Query, Go, RunInv, SearchInv
<1>3. SearchOK(q)
  BY DEF SearchInv
<1>4. /\ cases[q] \in Seq(SearchCase) /\ found[q] \in Seq(SearchRow) /\ tally[q] \in Tally
      /\ More(q) /\ ~BadK(ask[q]) /\ Tallied(tally[q], found[q], Ks(ask[q]))
  BY <1>2, <1>3 DEF SearchOK
<1>5. q \notin Completed /\ (q \in Completed)' = FALSE
  BY <1>2 DEF RunInv, TraceOK, Completed, NoRow
<1>6. Current(q) \in SearchCase
  BY <1>4 DEF Current, More
<1>7. hits \in Seq(Entries)
  BY RankingsType
<1>8. row \in SearchRow /\ Counted(q, hits) \in Tally /\ Added(tally[q], Counted(q, hits), row, Ks(ask[q]))
  BY <1>4, <1>6, <1>7, RowOfCase, CountedCases
<1> HIDE DEF row
<1>9. Tallied(tally'[q], found'[q], Ks(ask[q]))
  BY <1>2, <1>4, <1>8, TalliedAppend
<1>10. found'[q] \in Seq(SearchRow) /\ Len(found'[q]) <= Len(cases[q])
  BY <1>2, <1>4, <1>8 DEF More
<1> QED BY <1>2, <1>4, <1>5, <1>8, <1>9, <1>10 DEF SearchOK

LEMMA StoredRuns ==
  ASSUME RunInv, SearchInv, NEW q \in Runs, FailRun(q) \/ SaveRun(q)
  PROVE  SearchOK(q)'
<1>1. SearchOK(q)
  BY DEF SearchInv
<1>2. CASE FailRun(q)
  <2>1. /\ phase'[q] = "done" /\ UNCHANGED <<cases, found, tally, ask>> /\ runRow'[q] = FailedRow(q)
    BY <1>2 DEF FailRun, Answer, Go, RunInv
  <2>2. q \notin Completed'
    BY <2>1, RunRows DEF Completed
  <2> QED BY <1>1, <2>1, <2>2 DEF SearchOK
<1>3. CASE SaveRun(q)
  <2>1. /\ phase[q] = "saving" /\ phase'[q] = "saved" /\ UNCHANGED <<cases, found, tally, ask>>
        /\ runRow'[q] = CompletedRow(q) /\ caseRows'[q] = found[q]
    BY <1>3 DEF SaveRun, Go, RunInv
  <2>2. ~More(q) /\ ~BadK(ask[q]) /\ Tallied(tally[q], found[q], Ks(ask[q]))
        /\ cases[q] \in Seq(SearchCase) /\ found[q] \in Seq(SearchRow) /\ Len(found[q]) <= Len(cases[q])
    BY <1>1, <2>1 DEF SearchOK
  <2>3. Len(found[q]) = Len(cases[q])
    BY <2>2 DEF More
  <2>4. StoredOK(q)'
    BY <2>1, <2>3 DEF StoredOK, CompletedRow
  <2> QED BY <1>1, <2>1, <2>2, <2>4 DEF SearchOK
<1> QED BY <1>2, <1>3

LEMMA InitSearchInv == Init => SearchInv
<1> SUFFICES ASSUME Init PROVE SearchInv
  OBVIOUS
<1>1. ASSUME NEW q \in Runs PROVE SearchOK(q)
  <2>1. /\ phase[q] = "idle" /\ cases[q] = <<>> /\ found[q] = <<>> /\ tally[q] = NoTally
        /\ q \notin Completed
    BY DEF Init, Completed, NoRow
  <2>2. NoTally \in Tally /\ <<>> \in Seq(SearchCase) /\ <<>> \in Seq(SearchRow) /\ Len(<<>>) = 0
    BY TalliedNone
  <2> QED BY <2>1, <2>2 DEF SearchOK
<1>2. /\ DOMAIN cases = Runs /\ DOMAIN found = Runs /\ DOMAIN tally = Runs
      /\ release \in [Runs -> [corpus : Corpora, cases : Files]]
      /\ ask \in [Runs -> Asks \cup {None}] /\ queryWidth \in [Runs -> Widths \cup {None}]
  BY DEF Init
<1> QED BY <1>1, <1>2 DEF SearchInv

LEMMA StepSearchInv == RunInv /\ IndexInv /\ SearchInv /\ [Next]_vars => SearchInv'
<1> SUFFICES ASSUME RunInv, IndexInv, SearchInv, [Next]_vars PROVE SearchInv'
  OBVIOUS
<1>1. CASE UNCHANGED evalVars
  <2>1. UNCHANGED <<phase, ask, release, queryWidth, cases, found, tally, runRow, caseRows>>
    BY <1>1 DEF evalVars
  <2>2. ASSUME NEW q \in Runs PROVE SearchOK(q)'
    <3>1. SearchOK(q)
      BY DEF SearchInv
    <3>2. (More(q)' <=> More(q)) /\ (StoredOK(q)' <=> StoredOK(q)) /\ Completed' = Completed
      BY <2>1 DEF More, StoredOK, Completed
    <3> QED BY <2>1, <3>1, <3>2 DEF SearchOK
  <2> QED BY <2>1, <2>2 DEF SearchInv
<1>2. ASSUME NEW q \in Runs, Evaluate(q) PROVE SearchInv'
  <2>1. width \in Widths
    BY DEF IndexInv, IndexTypeOK
  <2>2. SearchOK(q)'
    BY <1>2, RefusedRuns, BegunRuns, SelectedRuns, SearchedRuns, QueriedRuns, StoredRuns, Zenon DEF Evaluate
  <2>3. ASSUME NEW p \in Runs \ {q} PROVE SearchOK(p)'
    <3>1. SearchOK(p)
      BY DEF SearchInv
    <3>2. /\ phase'[p] = phase[p] /\ ask'[p] = ask[p]
          /\ cases'[p] = cases[p] /\ found'[p] = found[p] /\ tally'[p] = tally[p]
          /\ runRow'[p] = runRow[p] /\ caseRows'[p] = caseRows[p]
      BY <1>2, <2>1, OtherRuns
    <3>3. /\ More(p)' <=> More(p)
          /\ StoredOK(p)' <=> StoredOK(p)
          /\ (p \in Completed)' <=> p \in Completed
      BY <3>2 DEF More, StoredOK, Completed
    <3> QED BY <3>1, <3>2, <3>3 DEF SearchOK
  <2> QED BY <1>2, <2>1, <2>2, <2>3, OtherRuns DEF SearchInv
<1>3. UNCHANGED vars => UNCHANGED evalVars
  BY DEF vars
<1> QED BY <1>1, <1>2, <1>3, Steps

LEMMA SearchInvariance == Spec => [](RunInv /\ IndexInv /\ SearchInv)
<1>1. Init => RunInv
  BY RunRows DEF Init, RunInv, TraceOK, RunsLeaveATrace, Completed, Phases, Answers
<1> QED BY <1>1, InitIndexInv, InitSearchInv, StepRunInv, StepIndexInv, StepSearchInv, PTL DEF Spec

-----------------------------------------------------------------------------
(* Rates.                                                                    *)

LEMMA QuotientBounds ==
  ASSUME NEW a \in Nat, NEW b \in Nat \ {0}, NEW c \in Nat, a <= c * b
  PROVE  0 <= a \div b /\ a \div b <= c
OBVIOUS

LEMMA QuotientGrows ==
  ASSUME NEW a \in Nat, NEW d \in Nat, NEW b \in Nat \ {0}, a <= d
  PROVE  a \div b <= d \div b
OBVIOUS

(* The expected ids at a rank up to k, of a row.                             *)
Hits(row, k) == {e \in row.expected : \E i \in 1..k : i \in DOMAIN row.results /\ row.results[i] = e}

LEMMA HitsBounds ==
  ASSUME NEW row \in SearchRow, NEW j \in Nat, NEW k \in Nat, j <= k
  PROVE  /\ Cardinality(Hits(row, j)) \in Nat /\ Cardinality(Hits(row, k)) \in Nat
         /\ Cardinality(Hits(row, j)) <= Cardinality(Hits(row, k))
         /\ Cardinality(Hits(row, k)) <= Cardinality(row.expected)
<1>1. IsFiniteSet(row.expected)
  BY RowTypes
<1>2. Hits(row, j) \subseteq Hits(row, k)
  <2>1. \A i \in 1..j : i \in 1..k
    OBVIOUS
  <2> QED BY <2>1 DEF Hits
<1>3. Hits(row, k) \subseteq row.expected
  BY DEF Hits
<1>4. IsFiniteSet(Hits(row, k)) /\ Cardinality(Hits(row, k)) <= Cardinality(row.expected)
  BY <1>1, <1>3, FS_Subset
<1>5. IsFiniteSet(Hits(row, j)) /\ Cardinality(Hits(row, j)) <= Cardinality(Hits(row, k))
  BY <1>2, <1>4, FS_Subset
<1> QED BY <1>4, <1>5, FS_CardinalityType

(* The share of a row is a fraction and does not fall as k grows.            *)
LEMMA ShareBounds ==
  ASSUME NEW row \in SearchRow, NEW j \in Nat, NEW k \in Nat, j <= k
  PROVE  /\ 0 <= ShareByRank(row, k) /\ ShareByRank(row, k) <= Scale
         /\ ShareByRank(row, j) <= ShareByRank(row, k)
<1> DEFINE few == Cardinality(Hits(row, j))
           many == Cardinality(Hits(row, k))
           all == Cardinality(row.expected)
<1>1. Scale \in Nat
  BY EvaluationAssumption DEF EvaluationAssumption
<1>2. CASE row.expected = {}
  <2>1. ShareByRank(row, j) = 0 /\ ShareByRank(row, k) = 0
    BY <1>2 DEF ShareByRank
  <2> QED BY <1>1, <2>1
<1>3. CASE row.expected # {}
  <2>1. few \in Nat /\ many \in Nat /\ few <= many /\ many <= all
    BY HitsBounds
  <2>2. all \in Nat \ {0}
    BY <1>3, RowTypes
  <2>3. ShareByRank(row, j) = (Scale * few) \div all /\ ShareByRank(row, k) = (Scale * many) \div all
    BY <1>3 DEF ShareByRank, Hits
  <2> HIDE DEF few, many, all
  <2>4. Scale * few \in Nat /\ Scale * many \in Nat /\ Scale * few <= Scale * many
        /\ Scale * many <= Scale * all
    <3>1. \A m, n \in Nat : m <= n => Scale * m \in Nat /\ Scale * n \in Nat /\ Scale * m <= Scale * n
      BY <1>1
    <3> QED BY <2>1, <2>2, <3>1
  <2>5. 0 <= (Scale * many) \div all /\ (Scale * many) \div all <= Scale
    BY <1>1, <2>2, <2>4, QuotientBounds
  <2>6. (Scale * few) \div all <= (Scale * many) \div all
    BY <2>2, <2>4, QuotientGrows
  <2> QED BY <2>3, <2>5, <2>6
<1> QED BY <1>2, <1>3

LEMMA ReciprocalBounds ==
  ASSUME NEW row \in SearchRow
  PROVE  0 <= ReciprocalByRank(row) /\ ReciprocalByRank(row) <= Scale
<1> DEFINE first == {i \in DOMAIN row.results : row.results[i] \in row.expected
                                      /\ \A j \in 1..(i - 1) : row.results[j] \notin row.expected}
<1>1. Scale \in Nat /\ row.results \in Seq(Entries)
  BY RowTypes, EvaluationAssumption DEF EvaluationAssumption
<1>2. \A i \in first : i \in Nat \ {0}
  BY <1>1
<1>3. ReciprocalByRank(row) = IF first = {} THEN 0 ELSE Scale \div (CHOOSE i \in first : TRUE)
  BY DEF ReciprocalByRank
<1> HIDE DEF first
<1>4. CASE first = {}
  BY <1>1, <1>3, <1>4
<1>5. CASE first # {}
  <2>1. PICK n \in first : n = CHOOSE i \in first : TRUE
    BY <1>5
  <2>2. n \in Nat \ {0}
    BY <1>2
  <2>3. Scale <= Scale * n
    BY <1>1, <2>2
  <2>4. 0 <= Scale \div n /\ Scale \div n <= Scale
    BY <1>1, <2>2, <2>3, QuotientBounds
  <2> QED BY <1>3, <1>5, <2>1, <2>4
<1> QED BY <1>4, <1>5

(* A row more keeps rates what they are.                                     *)
LEMMA RatesAdd ==
  ASSUME NEW row \in SearchRow, NEW t \in Tally, NEW u \in Tally, NEW ks,
         RatesOK(t), Added(t, u, row, ks)
  PROVE  RatesOK(u)
<1>1. /\ Scale \in Nat /\ \A k \in 1..MaxK : k \in Nat
  BY EvaluationAssumption DEF EvaluationAssumption
<1>2. /\ t.graded \in Int /\ t.reciprocals \in Int /\ t.abstained \in Int /\ t.negatives \in Int
      /\ \A k \in 1..MaxK : t.recalls[k] \in Int
  BY DEF Tally
<1>3. ReciprocalByRank(row) \in Int /\ \A k \in 1..MaxK : ShareByRank(row, k) \in Int
  BY <1>1, ShareType, ReciprocalIsByRank
<1>4. CASE row.tier = "paraphrase"
  <2>1. /\ u.graded = t.graded + 1 /\ u.reciprocals = t.reciprocals + ReciprocalByRank(row)
        /\ u.abstained = t.abstained /\ u.negatives = t.negatives
        /\ \A k \in 1..MaxK : u.recalls[k] = t.recalls[k] + ShareByRank(row, k)
    BY <1>2, <1>4 DEF Added
  <2>2. Scale * u.graded = Scale * t.graded + Scale /\ Scale * t.graded \in Int
    BY <1>1, <1>2, <2>1
  <2>3. ASSUME NEW k \in 1..MaxK PROVE 0 <= u.recalls[k] /\ u.recalls[k] <= Scale * u.graded
    <3>1. 0 <= ShareByRank(row, k) /\ ShareByRank(row, k) <= Scale
      BY <1>1, ShareBounds
    <3>2. 0 <= t.recalls[k] /\ t.recalls[k] <= Scale * t.graded
      BY DEF RatesOK
    <3> QED BY <1>1, <1>2, <1>3, <2>1, <2>2, <3>1, <3>2
  <2>4. ASSUME NEW j \in 1..MaxK, NEW k \in 1..MaxK, j <= k PROVE u.recalls[j] <= u.recalls[k]
    <3>1. ShareByRank(row, j) <= ShareByRank(row, k)
      BY <1>1, <2>4, ShareBounds
    <3>2. t.recalls[j] <= t.recalls[k]
      BY <2>4 DEF RatesOK
    <3> QED BY <1>2, <1>3, <2>1, <3>1, <3>2
  <2>5. 0 <= u.reciprocals /\ u.reciprocals <= Scale * u.graded
    <3>1. 0 <= t.reciprocals /\ t.reciprocals <= Scale * t.graded
      BY DEF RatesOK
    <3> QED BY <1>1, <1>2, <1>3, <2>1, <2>2, <3>1, ReciprocalBounds
  <2> QED BY <2>1, <2>3, <2>4, <2>5 DEF RatesOK
<1>5. CASE row.tier # "paraphrase"
  <2>1. /\ u.graded = t.graded /\ u.reciprocals = t.reciprocals
        /\ \A k \in 1..MaxK : u.recalls[k] = t.recalls[k]
    BY <1>2, <1>5 DEF Added
  <2>2. 0 <= u.abstained /\ u.abstained <= u.negatives
    <3>1. \/ u.negatives = t.negatives /\ u.abstained = t.abstained
          \/ u.negatives = t.negatives + 1 /\ u.abstained \in {t.abstained, t.abstained + 1}
      BY <1>2 DEF Added
    <3> QED BY <1>2, <3>1 DEF RatesOK
  <2> QED BY <2>1, <2>2 DEF RatesOK
<1> QED BY <1>4, <1>5

(* What is counted changes only by a row that is found.                      *)
LEMMA TallySteps ==
  ASSUME RunInv, IndexInv, SearchInv, [Next]_vars, NEW q \in Runs
  PROVE  \/ tally'[q] = tally[q]
         \/ tally'[q] \in Tally /\ \E row \in SearchRow : Added(tally[q], tally'[q], row, Ks(ask[q]))
<1>1. CASE UNCHANGED evalVars
  BY <1>1 DEF evalVars
<1>2. ASSUME NEW p \in Runs, Evaluate(p), p # q PROVE tally'[q] = tally[q]
  BY <1>2, OtherRuns DEF IndexInv, IndexTypeOK
<1>3. CASE Query(q)
  <2>1. PICK hits \in Rankings(q) : tally'[q] = Counted(q, hits)
    BY <1>3 DEF Query, SearchInv
  <2>2. SearchOK(q) /\ phase[q] = "querying"
    BY <1>3 DEF Query, SearchInv
  <2>3. cases[q] \in Seq(SearchCase) /\ found[q] \in Seq(SearchRow) /\ tally[q] \in Tally /\ More(q)
    BY <2>2 DEF SearchOK
  <2>4. Current(q) \in SearchCase
    BY <2>3 DEF Current, More
  <2>5. hits \in Seq(Entries)
    BY RankingsType
  <2> QED BY <2>1, <2>3, <2>4, <2>5, RowOfCase, CountedCases
<1>4. CASE Evaluate(q) /\ ~Query(q)
  BY <1>4 DEF Evaluate, AskRefused, Begin, EmptyIndex, EvalSetUnavailable, SelectCases, LookUp,
              LookUpFails, QueryBreaks, FailRun, EndSearch, SaveRun, Respond, RunBreaks, Refuse
<1>5. UNCHANGED vars => UNCHANGED evalVars
  BY DEF vars
<1> QED BY <1>1, <1>2, <1>3, <1>4, <1>5, Steps

LEMMA RatesInvariance == Spec => []RatesInv
<1>1. Init => RatesInv
  <2>1. Scale \in Nat
    BY EvaluationAssumption DEF EvaluationAssumption
  <2>2. RatesOK(NoTally)
    BY <2>1 DEF RatesOK, NoTally
  <2> QED BY <2>2 DEF Init, RatesInv
<1>2. RunInv /\ IndexInv /\ SearchInv /\ RatesInv /\ [Next]_vars => RatesInv'
  <2> SUFFICES ASSUME RunInv, IndexInv, SearchInv, RatesInv, [Next]_vars, NEW q \in Runs
               PROVE  RatesOK(tally[q])'
    BY DEF RatesInv
  <2>1. RatesOK(tally[q]) /\ tally[q] \in Tally
    BY DEF RatesInv, SearchInv, SearchOK
  <2>2. CASE tally'[q] = tally[q]
    BY <2>1, <2>2 DEF RatesOK
  <2>3. CASE tally'[q] # tally[q]
    <3>1. tally'[q] \in Tally
      BY <2>3, TallySteps
    <3>2. PICK row \in SearchRow : Added(tally[q], tally'[q], row, Ks(ask[q]))
      BY <2>3, TallySteps
    <3>3. RatesOK(tally'[q])
      BY <2>1, <3>1, <3>2, RatesAdd
    <3> QED BY <3>3 DEF RatesOK
  <2> QED BY <2>2, <2>3
<1> QED BY <1>1, <1>2, SearchInvariance, PTL DEF Spec

-----------------------------------------------------------------------------
(* Theorems.                                                                 *)

(* The variables of a run are of their types, and no run has searched or     *)
(* stored more cases than it has selected.                                   *)
THEOREM EvaluationTypes == Spec => []TypeOK
<1>1. RunInv /\ IndexInv /\ SearchInv => TypeOK
  <2> SUFFICES ASSUME RunInv, IndexInv, SearchInv PROVE TypeOK
    OBVIOUS
  <2>1. ASSUME NEW q \in Runs
        PROVE  Len(found[q]) <= Len(cases[q]) /\ Len(caseRows[q]) <= Len(cases[q])
    <3>1. SearchOK(q) /\ TraceOK(q)
      BY DEF SearchInv, RunInv
    <3>2. Len(<<>>) = 0 /\ Len(cases[q]) \in Nat /\ Len(found[q]) <= Len(cases[q])
      BY <3>1 DEF SearchOK
    <3>3. CASE q \in Completed
      BY <3>1, <3>2, <3>3 DEF SearchOK, StoredOK
    <3>4. CASE q \notin Completed
      <4>1. caseRows[q] = <<>>
        BY <3>1, <3>4 DEF TraceOK, Completed
      <4> QED BY <3>2, <4>1
    <3> QED BY <3>3, <3>4
  <2> QED BY <2>1 DEF RunInv, IndexInv, SearchInv, TypeOK
<1> QED BY <1>1, SearchInvariance, PTL

(* The numbers of a completed run can be found again from its stored cases,  *)
(* for any file, any tiers and any k's that are asked for.                   *)
THEOREM NumbersAreOfCases == Spec => []NumbersFollowFromCases
<1>1. SearchInv => NumbersFollowFromCases
  <2> SUFFICES ASSUME SearchInv, NEW q \in Completed
               PROVE  LET t == runRow[q].tally
                          rows == caseRows[q]
                          own == OfTier(rows, "identity")
                      IN  /\ Len(rows) = runRow[q].case_count
                          /\ t.graded = Cardinality(OfTier(rows, "paraphrase"))
                          /\ t.negatives = Cardinality(OfTier(rows, "negative"))
                          /\ \A k \in Ks(ask[q]) : t.recalls[k] = Sum(Shares(rows, k))
                          /\ t.reciprocals = Sum(Reciprocals(rows))
                          /\ t.abstained = Cardinality(Abstained(rows))
                          /\ 1 \in Ks(ask[q]) =>
                               (t.identity = Scale * Cardinality(own) <=>
                                  \A i \in own : FirstHit(rows[i]))
    BY Zenon DEF NumbersFollowFromCases
  <2>1. /\ runRow[q].tally = tally[q] /\ caseRows[q] = found[q]
        /\ Len(found[q]) = runRow[q].case_count
        /\ found[q] \in Seq(SearchRow) /\ ~BadK(ask[q]) /\ Tallied(tally[q], found[q], Ks(ask[q]))
    BY DEF SearchInv, SearchOK, StoredOK, Completed
  <2>2. \A k \in Ks(ask[q]) : k \in 1..MaxK
    BY <2>1 DEF BadK
  <2>3. 1 \in Ks(ask[q]) => tally[q].identity = Scale * Cardinality(Canaries(found[q]))
    BY <2>1 DEF Tallied
  <2>4. Scale * Cardinality(Canaries(found[q])) = Scale * Cardinality(OfTier(found[q], "identity"))
          <=> \A i \in OfTier(found[q], "identity") : FirstHit(found[q][i])
    BY <2>1, PerfectCanary
  <2> QED BY <2>1, <2>2, <2>3, <2>4 DEF Tallied
<1> QED BY <1>1, SearchInvariance, PTL

(* The recalls, the mean reciprocal rank and the share of abstentions that a *)
(* completed run reports lie between zero and one, and recall does not fall  *)
(* as k grows, for any ranking the index may give.                           *)
THEOREM RatesLieInRange == Spec => []RatesAreRates
<1>1. SearchInv /\ RatesInv => RatesAreRates
  BY DEF SearchInv, RatesInv, RatesAreRates, SearchOK, StoredOK, Completed
<1> QED BY <1>1, SearchInvariance, RatesInvariance, PTL
=============================================================================
