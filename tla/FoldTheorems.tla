---------------------------- MODULE FoldTheorems ----------------------------
(* Induction over the natural numbers, derived from the well-foundedness of   *)
(* their order, and with it what the sum of a sequence is: the fold that the  *)
(* specifications write it with is well defined, and a window that slides     *)
(* over a sequence of durations gains the new one and loses the oldest; what  *)
(* a flattened sequence is; that any fold goes on with what is appended; and  *)
(* that a fold with an operation is one with the function that agrees with it.*)
EXTENDS SequencesExt, SequenceTheorems, WellFoundedInduction, TLAPS

LEMMA MinimalElement ==
  ASSUME NEW R, IsWellFoundedOn(R, Nat), NEW T \in SUBSET Nat, T # {}
  PROVE  \E x \in T : \A y \in T : ~ (<<y, x>> \in R)
  BY WFMin

LEMMA LeastByRelation ==
  ASSUME NEW R, IsWellFoundedOn(R, Nat), \A x, y \in Nat : x < y => <<x, y>> \in R,
         NEW T \in SUBSET Nat, T # {}
  PROVE  \E x \in T : \A y \in T : ~ (y < x)
<1>1. PICK x \in T : \A y \in T : ~ (<<y, x>> \in R)
  BY MinimalElement
<1>2. \A y \in T : ~ (y < x)
  BY <1>1
<1>. QED
  BY <1>2

LEMMA LeastNatural ==
  ASSUME NEW T \in SUBSET Nat, T # {}
  PROVE  \E x \in T : \A y \in T : x =< y
<1>1. IsWellFoundedOn(OpToRel(<, Nat), Nat)
  BY NatLessThanWellFounded
<1>2. \A x, y \in Nat : x < y => <<x, y>> \in OpToRel(<, Nat)
  BY DEF OpToRel
<1>3. \E x \in T : \A y \in T : ~ (y < x)
  BY <1>1, <1>2, LeastByRelation
<1>. QED
  BY <1>3

\* Induction up to n, over a set where the other theorems have a predicate.
LEMMA InductionUpTo ==
  ASSUME NEW n \in Nat, NEW T,
         0 \in T, \A k \in 0..n - 1 : k \in T => k + 1 \in T
  PROVE  0..n \subseteq T
<1>. SUFFICES ASSUME (0..n) \ T # {} PROVE FALSE
  OBVIOUS
<1>1. PICK x \in (0..n) \ T : \A y \in (0..n) \ T : x =< y
  <2>1. (0..n) \ T \in SUBSET Nat
    OBVIOUS
  <2>. QED
    BY <2>1, LeastNatural
<1>2. x # 0 /\ x - 1 \in 0..n - 1
  BY <1>1
<1>3. x - 1 \in T
  BY <1>1, <1>2
<1>. QED
  BY <1>1, <1>2, <1>3

---------------------------------------------------------------------------
\* The sum of the elements of a sequence.
Total(seq) == FoldLeft(LAMBDA a, b : a + b, 0, seq)

\* The function that MapThenFoldSet chooses: it adds the last of a set of places.
IsSum(f, seq) ==
  f = [s \in SUBSET (DOMAIN seq) |->
         IF s = {} THEN 0 ELSE f[s \ {Max(s)}] + seq[Max(s)]]

LEMMA TotalIsChosen ==
  ASSUME NEW seq
  PROVE  Total(seq) = (CHOOSE f : IsSum(f, seq))[DOMAIN seq]
  BY DEF Total, FoldLeft, MapThenFoldSet, IsSum

LEMMA MaxIsLast ==
  ASSUME NEW k \in Nat, NEW s \in SUBSET (1..k + 1), k + 1 \in s
  PROVE  Max(s) = k + 1
<1>1. \A y \in s : k + 1 >= y
  OBVIOUS
<1>2. \A x \in s : (\A y \in s : x >= y) => x = k + 1
  OBVIOUS
<1>. QED
  BY <1>1, <1>2 DEF Max

SumUpTo(f, seq, k) ==
  f = [s \in SUBSET (1..k) |->
         IF s = {} THEN 0 ELSE f[s \ {Max(s)}] + seq[Max(s)]]

LEMMA SumExists ==
  ASSUME NEW n \in Nat, NEW seq
  PROVE  \E f : SumUpTo(f, seq, n)
<1>. DEFINE T == {k \in 0..n : \E f : SumUpTo(f, seq, k)}
<1>1. 0 \in T
  <2>1. SumUpTo([s \in SUBSET (1..0) |-> 0], seq, 0)
    BY 1..0 = {} DEF SumUpTo
  <2>. QED
    BY <2>1
<1>2. ASSUME NEW k \in 0..n - 1, k \in T PROVE k + 1 \in T
  <2>1. PICK f : SumUpTo(f, seq, k)
    BY <1>2
  <2>. DEFINE g == [s \in SUBSET (1..k + 1) |->
                      IF k + 1 \in s THEN f[s \ {k + 1}] + seq[k + 1] ELSE f[s]]
  <2>2. ASSUME NEW s \in SUBSET (1..k + 1)
        PROVE  g[s] = IF s = {} THEN 0 ELSE g[s \ {Max(s)}] + seq[Max(s)]
    <3>1. CASE k + 1 \in s
      <4>1. Max(s) = k + 1
        BY <3>1, MaxIsLast
      <4>2. s \ {k + 1} \in SUBSET (1..k + 1) /\ k + 1 \notin s \ {k + 1}
        OBVIOUS
      <4>3. g[s \ {k + 1}] = f[s \ {k + 1}]
        BY <4>2
      <4>4. g[s] = f[s \ {k + 1}] + seq[k + 1]
        BY <3>1
      <4>. QED
        BY <3>1, <4>1, <4>3, <4>4
    <3>2. CASE k + 1 \notin s
      <4>1. s \in SUBSET (1..k)
        <5>1. \A x \in s : x \in 1..k + 1 /\ x # k + 1
          BY <3>2
        <5>. QED
          BY <5>1
      <4>2. g[s] = f[s]
        BY <3>2
      <4>3. g[s \ {Max(s)}] = f[s \ {Max(s)}]
        <5>1. s \ {Max(s)} \in SUBSET (1..k + 1) /\ k + 1 \notin s \ {Max(s)}
          BY <3>2
        <5>. QED
          BY <5>1
      <4>4. f[s] = IF s = {} THEN 0 ELSE f[s \ {Max(s)}] + seq[Max(s)]
        BY <2>1, <4>1 DEF SumUpTo
      <4>. QED
        BY <4>2, <4>3, <4>4
    <3>. QED
      BY <3>1, <3>2
  <2>3. g = [s \in SUBSET (1..k + 1) |-> g[s]]
    OBVIOUS
  <2>. HIDE DEF g
  <2>4. SumUpTo(g, seq, k + 1)
    BY <2>2, <2>3 DEF SumUpTo
  <2>. QED
    BY <2>4
<1>3. 0..n \subseteq T
  <2>. HIDE DEF T
  <2>. QED
    BY <1>1, <1>2, InductionUpTo
<1>. QED
  BY <1>3

LEMMA PrefixIsInt ==
  ASSUME NEW n \in Nat, NEW p, NEW seq \in [1..n -> Int],
         p[0] = 0, \A k \in 1..n : p[k] = p[k - 1] + seq[k]
  PROVE  \A k \in 0..n : p[k] \in Int
<1>. DEFINE T == {k \in 0..n : p[k] \in Int}
<1>1. 0 \in T
  OBVIOUS
<1>2. \A k \in 0..n - 1 : k \in T => k + 1 \in T
  OBVIOUS
<1>3. 0..n \subseteq T
  <2>. HIDE DEF T
  <2>. QED
    BY <1>1, <1>2, InductionUpTo
<1>. QED
  BY <1>3

\* The total is the last of the sums of the beginnings of the sequence.
IsPrefixSum(p, seq) ==
  /\ p[0] = 0
  /\ \A k \in 1..Len(seq) : p[k] = p[k - 1] + seq[k]
  /\ \A k \in 0..Len(seq) : p[k] \in Int
  /\ Total(seq) = p[Len(seq)]

LEMMA TotalIsPrefixSum ==
  ASSUME NEW seq \in Seq(Int)
  PROVE  \E p : IsPrefixSum(p, seq)
<1>. DEFINE n == Len(seq)
            f == CHOOSE g : IsSum(g, seq)
            p == [k \in 0..n |-> f[1..k]]
<1>1. n \in Nat /\ DOMAIN seq = 1..n /\ seq \in [1..n -> Int]
  OBVIOUS
<1>2. \A g : IsSum(g, seq) <=> SumUpTo(g, seq, n)
  BY <1>1 DEF IsSum, SumUpTo
<1>3. \E g : IsSum(g, seq)
  BY <1>1, <1>2, SumExists
<1>4. IsSum(f, seq)
  BY <1>3
<1>5. Total(seq) = f[1..n]
  BY <1>1, TotalIsChosen
<1>. HIDE DEF f, n
<1>6. \A s \in SUBSET (1..n) : f[s] = IF s = {} THEN 0 ELSE f[s \ {Max(s)}] + seq[Max(s)]
  BY <1>2, <1>4 DEF SumUpTo
<1>7. f[1..0] = 0
  <2>1. 1..0 = {} /\ {} \in SUBSET (1..n)
    OBVIOUS
  <2>. QED
    BY <1>6, <2>1
<1>8. ASSUME NEW k \in 1..n PROVE f[1..k] = f[1..k - 1] + seq[k]
  <2>1. 1..k \in SUBSET (1..n) /\ 1..k # {}
    <3>1. k \in 1..k /\ \A x \in 1..k : x \in 1..n
      BY <1>1
    <3>. QED
      BY <3>1
  <2>2. 1..k = 1..(k - 1) + 1
    BY <1>1
  <2>3. Max(1..k) = k
    <3>1. k - 1 \in Nat /\ k = (k - 1) + 1 /\ k \in 1..k
      BY <1>1
    <3>. QED
      BY <3>1, MaxIsLast
  <2>4. (1..k) \ {k} = 1..k - 1
    BY <1>1
  <2>. QED
    BY <1>6, <2>1, <2>3, <2>4
<1>9. p[0] = 0 /\ \A k \in 1..n : p[k] = p[k - 1] + seq[k]
  BY <1>1, <1>7, <1>8
<1>10. p[n] = f[1..n]
  BY <1>1
<1>. HIDE DEF p
<1>11. \A k \in 0..n : p[k] \in Int
  BY <1>1, <1>9, PrefixIsInt
<1>12. IsPrefixSum(p, seq)
  BY <1>5, <1>9, <1>10, <1>11 DEF IsPrefixSum, n
<1>. QED
  BY <1>12

LEMMA TotalIsInt ==
  ASSUME NEW seq \in Seq(Int)
  PROVE  Total(seq) \in Int
<1>1. PICK p : IsPrefixSum(p, seq)
  BY TotalIsPrefixSum
<1>2. Len(seq) \in 0..Len(seq)
  OBVIOUS
<1>. QED
  BY <1>1, <1>2 DEF IsPrefixSum

LEMMA TotalOfAppend ==
  ASSUME NEW seq \in Seq(Int), NEW d \in Int
  PROVE  Total(Append(seq, d)) = Total(seq) + d
<1>. DEFINE n == Len(seq)
            more == Append(seq, d)
<1>1. more \in Seq(Int) /\ Len(more) = n + 1 /\ n \in Nat
  OBVIOUS
<1>2. more[n + 1] = d /\ \A k \in 1..n : more[k] = seq[k]
  OBVIOUS
<1>. HIDE DEF n, more
<1>3. PICK p : IsPrefixSum(p, seq)
  BY TotalIsPrefixSum
<1>4. PICK q : IsPrefixSum(q, more)
  BY <1>1, TotalIsPrefixSum
<1>. DEFINE T == {k \in 0..n : q[k] = p[k]}
<1>5. 0 \in T
  BY <1>1, <1>3, <1>4 DEF IsPrefixSum
<1>6. ASSUME NEW k \in 0..n - 1, k \in T PROVE k + 1 \in T
  <2>1. k + 1 \in 1..n /\ k + 1 \in 1..n + 1 /\ (k + 1) - 1 = k
    BY <1>1
  <2>2. p[k + 1] = p[k] + seq[k + 1] /\ q[k + 1] = q[k] + more[k + 1]
    BY <1>1, <1>3, <1>4, <2>1 DEF IsPrefixSum, n
  <2>. QED
    BY <1>2, <1>6, <2>1, <2>2
<1>7. q[n] = p[n]
  <2>. HIDE DEF T
  <2>1. 0..n \subseteq T
    BY <1>1, <1>5, <1>6, InductionUpTo
  <2>. QED
    BY <1>1, <2>1 DEF T
<1>8. q[n + 1] = q[n] + d
  <2>1. n + 1 \in 1..n + 1 /\ (n + 1) - 1 = n
    BY <1>1
  <2>. QED
    BY <1>1, <1>2, <1>4, <2>1 DEF IsPrefixSum
<1>9. Total(seq) = p[n] /\ Total(more) = q[n + 1]
  BY <1>1, <1>3, <1>4 DEF IsPrefixSum, n
<1>. QED
  BY <1>7, <1>8, <1>9 DEF more

LEMMA TotalOfTail ==
  ASSUME NEW seq \in Seq(Int), seq # << >>
  PROVE  Total(Tail(seq)) = Total(seq) - Head(seq)
<1>. DEFINE n == Len(seq) - 1
            rest == Tail(seq)
<1>1. rest \in Seq(Int) /\ Len(rest) = n /\ n \in Nat /\ Len(seq) = n + 1
  OBVIOUS
<1>2. Head(seq) = seq[1] /\ seq[1] \in Int /\ \A k \in 1..n : rest[k] = seq[k + 1]
  OBVIOUS
<1>. HIDE DEF n, rest
<1>3. PICK p : IsPrefixSum(p, seq)
  BY TotalIsPrefixSum
<1>4. PICK q : IsPrefixSum(q, rest)
  BY <1>1, TotalIsPrefixSum
<1>5. p[1] = seq[1]
  <2>1. 1 \in 1..n + 1 /\ 1 - 1 = 0
    BY <1>1
  <2>2. p[1] = p[0] + seq[1] /\ p[0] = 0
    BY <1>1, <1>3, <2>1 DEF IsPrefixSum
  <2>. QED
    BY <1>2, <2>2
<1>. DEFINE T == {k \in 0..n : p[k + 1] = q[k] + seq[1]}
<1>6. 0 \in T
  BY <1>1, <1>2, <1>4, <1>5 DEF IsPrefixSum
<1>7. ASSUME NEW k \in 0..n - 1, k \in T PROVE k + 1 \in T
  <2>1. k + 1 \in 1..n /\ (k + 1) + 1 \in 1..n + 1 /\ ((k + 1) + 1) - 1 = k + 1
        /\ (k + 1) - 1 = k /\ k \in 0..n
    BY <1>1
  <2>2. p[(k + 1) + 1] = p[k + 1] + seq[(k + 1) + 1]
    BY <1>1, <1>3, <2>1 DEF IsPrefixSum
  <2>3. q[k + 1] = q[k] + rest[k + 1] /\ q[k] \in Int
    BY <1>1, <1>4, <2>1 DEF IsPrefixSum
  <2>4. rest[k + 1] = seq[(k + 1) + 1] /\ rest[k + 1] \in Int
    BY <1>1, <1>2, <2>1
  <2>. QED
    BY <1>2, <1>7, <2>1, <2>2, <2>3, <2>4
<1>8. p[n + 1] = q[n] + seq[1]
  <2>. HIDE DEF T
  <2>1. 0..n \subseteq T
    BY <1>1, <1>6, <1>7, InductionUpTo
  <2>. QED
    BY <1>1, <2>1 DEF T
<1>9. Total(seq) = p[n + 1] /\ Total(rest) = q[n] /\ q[n] \in Int
  <2>1. n \in 0..n
    BY <1>1
  <2>. QED
    BY <1>1, <1>3, <1>4, <2>1 DEF IsPrefixSum
<1>. QED
  BY <1>2, <1>8, <1>9 DEF rest

\* A window that slides over a sequence: the oldest one out, the new one in.
LEMMA TotalOfWindow ==
  ASSUME NEW seq \in Seq(Int), seq # << >>, NEW d \in Int
  PROVE  Total(Append(Tail(seq), d)) = Total(seq) - Head(seq) + d
<1>1. Tail(seq) \in Seq(Int)
  OBVIOUS
<1>. QED
  BY <1>1, TotalOfAppend, TotalOfTail

LEMMA TotalOfConstant ==
  ASSUME NEW n \in Nat, NEW c \in Int
  PROVE  Total([i \in 1..n |-> c]) = c * n
<1>. DEFINE seq == [i \in 1..n |-> c]
<1>1. seq \in Seq(Int) /\ Len(seq) = n /\ \A k \in 1..n : seq[k] = c
  OBVIOUS
<1>. HIDE DEF seq
<1>2. PICK p : IsPrefixSum(p, seq)
  BY <1>1, TotalIsPrefixSum
<1>. DEFINE T == {k \in 0..n : p[k] = c * k}
<1>3. 0 \in T
  BY <1>1, <1>2 DEF IsPrefixSum
<1>4. ASSUME NEW k \in 0..n - 1, k \in T PROVE k + 1 \in T
  <2>1. k + 1 \in 1..n /\ (k + 1) - 1 = k
    OBVIOUS
  <2>2. p[k + 1] = p[k] + c
    BY <1>1, <1>2, <2>1 DEF IsPrefixSum
  <2>3. c * (k + 1) = c * k + c
    OBVIOUS
  <2>. QED
    BY <1>4, <2>1, <2>2, <2>3
<1>5. p[n] = c * n
  <2>. HIDE DEF T
  <2>1. 0..n \subseteq T
    BY <1>3, <1>4, InductionUpTo
  <2>. QED
    BY <2>1 DEF T
<1>. QED
  BY <1>1, <1>2, <1>5 DEF IsPrefixSum, seq

-----------------------------------------------------------------------------
(* What a sequence of sequences makes when it is flattened.                   *)

\* The function that FlattenSeq chooses: what the beginnings of seqs make.
IsFlatten(f, seqs) ==
  f = [i \in 1..Len(seqs) |-> IF i = 1 THEN seqs[i] ELSE f[i - 1] \o seqs[i]]

LEMMA FlattenIsChosen ==
  ASSUME NEW seqs
  PROVE  FlattenSeq(seqs) = IF Len(seqs) = 0 THEN seqs
                            ELSE (CHOOSE f : IsFlatten(f, seqs))[Len(seqs)]
  BY DEF FlattenSeq, IsFlatten

FlattenUpTo(f, seqs, k) ==
  f = [i \in 1..k |-> IF i = 1 THEN seqs[i] ELSE f[i - 1] \o seqs[i]]

LEMMA FlattenExists ==
  ASSUME NEW n \in Nat, NEW seqs
  PROVE  \E f : FlattenUpTo(f, seqs, n)
<1>. DEFINE T == {k \in 0..n : \E f : FlattenUpTo(f, seqs, k)}
<1>1. 0 \in T
  <2>1. FlattenUpTo([i \in 1..0 |-> 0], seqs, 0)
    BY 1..0 = {} DEF FlattenUpTo
  <2>. QED
    BY <2>1
<1>2. ASSUME NEW k \in 0..n - 1, k \in T PROVE k + 1 \in T
  <2>1. PICK f : FlattenUpTo(f, seqs, k)
    BY <1>2
  <2>. DEFINE new == IF k = 0 THEN seqs[k + 1] ELSE f[k] \o seqs[k + 1]
              g == [i \in 1..k + 1 |-> IF i = k + 1 THEN new ELSE f[i]]
  <2>2. ASSUME NEW i \in 1..k + 1
        PROVE  g[i] = IF i = 1 THEN seqs[i] ELSE g[i - 1] \o seqs[i]
    <3>1. CASE i = k + 1
      <4>1. g[i] = new
        BY <3>1
      <4>2. k # 0 => k \in 1..k + 1 /\ k # k + 1 /\ g[k] = f[k]
        OBVIOUS
      <4>3. k = i - 1 /\ (i = 1 <=> k = 0)
        BY <3>1
      <4>. HIDE DEF g
      <4>. QED
        BY <3>1, <4>1, <4>2, <4>3
    <3>2. CASE i # k + 1
      <4>1. i \in 1..k /\ g[i] = f[i]
        BY <3>2
      <4>2. i # 1 => i - 1 \in 1..k + 1 /\ i - 1 # k + 1 /\ g[i - 1] = f[i - 1]
        BY <4>1
      <4>3. f[i] = IF i = 1 THEN seqs[i] ELSE f[i - 1] \o seqs[i]
        BY <2>1, <4>1 DEF FlattenUpTo
      <4>. HIDE DEF g
      <4>. QED
        BY <4>1, <4>2, <4>3
    <3>. QED
      BY <3>1, <3>2
  <2>3. g = [i \in 1..k + 1 |-> g[i]]
    OBVIOUS
  <2>. HIDE DEF g
  <2>4. FlattenUpTo(g, seqs, k + 1)
    BY <2>2, <2>3 DEF FlattenUpTo
  <2>. QED
    BY <2>4
<1>3. 0..n \subseteq T
  <2>. HIDE DEF T
  <2>. QED
    BY <1>1, <1>2, InductionUpTo
<1>. QED
  BY <1>3

\* What a sequence of sequences makes is the last of what its beginnings make.
IsFlattened(p, seqs) ==
  /\ p[0] = << >>
  /\ \A k \in 1..Len(seqs) : p[k] = p[k - 1] \o seqs[k]
  /\ FlattenSeq(seqs) = p[Len(seqs)]

LEMMA FlattenIsFlattened ==
  ASSUME NEW S, NEW seqs \in Seq(Seq(S))
  PROVE  \E p : IsFlattened(p, seqs) /\ \A k \in 0..Len(seqs) : p[k] \in Seq(S)
<1>. DEFINE n == Len(seqs)
            f == CHOOSE g : IsFlatten(g, seqs)
            p == [k \in 0..n |-> IF k = 0 THEN << >> ELSE f[k]]
<1>1. n \in Nat /\ \A k \in 1..n : seqs[k] \in Seq(S)
  OBVIOUS
<1>2. \A g : IsFlatten(g, seqs) <=> FlattenUpTo(g, seqs, n)
  BY DEF IsFlatten, FlattenUpTo
<1>3. IsFlatten(f, seqs)
  BY <1>1, <1>2, FlattenExists
<1>4. FlattenSeq(seqs) = IF n = 0 THEN seqs ELSE f[n]
  BY FlattenIsChosen
<1>5. n = 0 => seqs = << >>
  OBVIOUS
<1>. HIDE DEF f, n
<1>6. \A k \in 1..n : f[k] = IF k = 1 THEN seqs[k] ELSE f[k - 1] \o seqs[k]
  <2>. DEFINE made == [i \in 1..n |-> IF i = 1 THEN seqs[i] ELSE f[i - 1] \o seqs[i]]
  <2>1. f = made
    BY <1>2, <1>3, Zenon DEF FlattenUpTo
  <2>2. \A k \in 1..n : made[k] = IF k = 1 THEN seqs[k] ELSE f[k - 1] \o seqs[k]
    OBVIOUS
  <2>. HIDE DEF made
  <2>. QED
    BY <2>1, <2>2, Zenon
<1>7. p[0] = << >>
  BY <1>1
<1>8. ASSUME NEW k \in 1..n PROVE p[k] = p[k - 1] \o seqs[k]
  <2>1. p[k] = f[k] /\ (k # 1 => p[k - 1] = f[k - 1])
    BY <1>1
  <2>2. k = 1 => p[k - 1] = << >> /\ << >> \o seqs[k] = seqs[k]
    BY <1>1
  <2>. HIDE DEF p
  <2>. QED
    BY <1>6, <2>1, <2>2
<1>9. FlattenSeq(seqs) = p[n]
  BY <1>1, <1>4, <1>5
<1>. HIDE DEF p
<1>10. \A k \in 0..n : p[k] \in Seq(S)
  <2>. DEFINE T == {k \in 0..n : p[k] \in Seq(S)}
  <2>1. 0 \in T
    <3>1. << >> \in Seq(S) /\ 0 \in 0..n
      BY <1>1
    <3>. QED
      BY <1>7, <3>1
  <2>2. ASSUME NEW k \in 0..n - 1, k \in T PROVE k + 1 \in T
    <3>1. k + 1 \in 1..n /\ (k + 1) - 1 = k
      BY <1>1
    <3>2. p[k] \in Seq(S) /\ seqs[k + 1] \in Seq(S)
      BY <1>1, <2>2, <3>1
    <3>3. p[k] \o seqs[k + 1] \in Seq(S)
      BY <3>2
    <3>4. p[k + 1] = p[k] \o seqs[k + 1]
      BY <1>8, <3>1
    <3>5. k + 1 \in 0..n
      BY <1>1
    <3>. QED
      BY <3>3, <3>4, <3>5
  <2>3. 0..n \subseteq T
    <3>. HIDE DEF T
    <3>. QED
      BY <1>1, <2>1, <2>2, InductionUpTo
  <2>. QED
    BY <2>3
<1>. QED
  BY <1>7, <1>8, <1>9, <1>10 DEF IsFlattened, n

LEMMA FlattenedIsSequence ==
  ASSUME NEW S, NEW seqs \in Seq(Seq(S))
  PROVE  FlattenSeq(seqs) \in Seq(S)
<1>1. PICK p : IsFlattened(p, seqs) /\ \A k \in 0..Len(seqs) : p[k] \in Seq(S)
  BY FlattenIsFlattened
<1>2. Len(seqs) \in 0..Len(seqs)
  OBVIOUS
<1>. QED
  BY <1>1, <1>2 DEF IsFlattened

\* Beginnings that agree make the same, whatever follows them.
LEMMA FlattenedAgree ==
  ASSUME NEW S, NEW s \in Seq(Seq(S)), NEW t \in Seq(Seq(S)), NEW p, NEW q,
         IsFlattened(p, s), IsFlattened(q, t),
         NEW n \in Nat, n <= Len(s), n <= Len(t), \A k \in 1..n : s[k] = t[k]
  PROVE  p[n] = q[n]
<1>. DEFINE T == {k \in 0..n : p[k] = q[k]}
<1>1. 0 \in T
  BY DEF IsFlattened
<1>2. ASSUME NEW k \in 0..n - 1, k \in T PROVE k + 1 \in T
  <2>1. k + 1 \in 1..n /\ k + 1 \in 1..Len(s) /\ k + 1 \in 1..Len(t) /\ (k + 1) - 1 = k
    OBVIOUS
  <2>2. p[k + 1] = p[k] \o s[k + 1] /\ q[k + 1] = q[k] \o t[k + 1]
    BY <2>1 DEF IsFlattened
  <2>3. p[k] = q[k] /\ s[k + 1] = t[k + 1]
    BY <1>2, <2>1
  <2>4. p[k + 1] = q[k + 1]
    BY <2>2, <2>3, Zenon
  <2>. QED
    BY <2>1, <2>4
<1>3. 0..n \subseteq T
  <2>. HIDE DEF T
  <2>. QED
    BY <1>1, <1>2, InductionUpTo
<1>. QED
  BY <1>3

LEMMA FlattenOfAppend ==
  ASSUME NEW S, NEW seqs \in Seq(Seq(S)), NEW t \in Seq(S)
  PROVE  FlattenSeq(Append(seqs, t)) = FlattenSeq(seqs) \o t
<1>. DEFINE n == Len(seqs)
            more == Append(seqs, t)
<1>1. more \in Seq(Seq(S)) /\ Len(more) = n + 1 /\ n \in Nat
  OBVIOUS
<1>2. more[n + 1] = t /\ \A k \in 1..n : more[k] = seqs[k]
  OBVIOUS
<1>. HIDE DEF more
<1>3. PICK p : IsFlattened(p, seqs)
  BY FlattenIsFlattened
<1>4. PICK q : IsFlattened(q, more)
  BY <1>1, FlattenIsFlattened
<1>5. p[n] = q[n]
  <2>1. n <= Len(seqs) /\ n <= Len(more)
    BY <1>1
  <2>2. \A k \in 1..n : seqs[k] = more[k]
    BY <1>2
  <2>. HIDE DEF n
  <2>. QED
    BY <1>1, <1>3, <1>4, <2>1, <2>2, FlattenedAgree
<1>6. q[n + 1] = q[n] \o t
  <2>1. n + 1 \in 1..Len(more) /\ (n + 1) - 1 = n
    BY <1>1
  <2>2. q[n + 1] = q[(n + 1) - 1] \o more[n + 1]
    BY <1>4, <2>1 DEF IsFlattened
  <2>. QED
    BY <1>2, <2>1, <2>2
<1>7. FlattenSeq(seqs) = p[n] /\ FlattenSeq(more) = q[n + 1]
  BY <1>1, <1>3, <1>4 DEF IsFlattened
<1>. QED
  BY <1>5, <1>6, <1>7 DEF more

LEMMA FlattenOfNothing ==
  FlattenSeq(<< >>) = << >>
  BY DEF FlattenSeq

\* Folds with a function, of which all others are instances.
FoldOf(F, base, seq) == FoldLeft(LAMBDA a, b : F[<<a, b>>], base, seq)

IsFoldOf(f, F, base, seq) ==
  f = [s \in SUBSET (DOMAIN seq) |->
         IF s = {} THEN base ELSE F[<<f[s \ {Max(s)}], seq[Max(s)]>>]]

LEMMA FoldIsChosen ==
  ASSUME NEW F, NEW base, NEW seq
  PROVE  FoldOf(F, base, seq) = (CHOOSE f : IsFoldOf(f, F, base, seq))[DOMAIN seq]
  BY DEF FoldOf, FoldLeft, MapThenFoldSet, IsFoldOf

FoldUpTo(f, F, base, seq, k) ==
  f = [s \in SUBSET (1..k) |->
         IF s = {} THEN base ELSE F[<<f[s \ {Max(s)}], seq[Max(s)]>>]]

LEMMA FoldExists ==
  ASSUME NEW n \in Nat, NEW F, NEW base, NEW seq
  PROVE  \E f : FoldUpTo(f, F, base, seq, n)
<1>. DEFINE T == {k \in 0..n : \E f : FoldUpTo(f, F, base, seq, k)}
<1>1. 0 \in T
  <2>1. FoldUpTo([s \in SUBSET (1..0) |-> base], F, base, seq, 0)
    BY 1..0 = {} DEF FoldUpTo
  <2>. QED
    BY <2>1
<1>2. ASSUME NEW k \in 0..n - 1, k \in T PROVE k + 1 \in T
  <2>1. PICK f : FoldUpTo(f, F, base, seq, k)
    BY <1>2
  <2>. DEFINE g == [s \in SUBSET (1..k + 1) |->
                      IF k + 1 \in s THEN F[<<f[s \ {k + 1}], seq[k + 1]>>] ELSE f[s]]
  <2>2. ASSUME NEW s \in SUBSET (1..k + 1)
        PROVE  g[s] = IF s = {} THEN base ELSE F[<<g[s \ {Max(s)}], seq[Max(s)]>>]
    <3>1. CASE k + 1 \in s
      <4>1. Max(s) = k + 1
        BY <3>1, MaxIsLast
      <4>2. s \ {k + 1} \in SUBSET (1..k + 1) /\ k + 1 \notin s \ {k + 1}
        OBVIOUS
      <4>3. g[s \ {k + 1}] = f[s \ {k + 1}]
        BY <4>2
      <4>4. g[s] = F[<<f[s \ {k + 1}], seq[k + 1]>>]
        BY <3>1
      <4>. QED
        BY <3>1, <4>1, <4>3, <4>4
    <3>2. CASE k + 1 \notin s
      <4>1. s \in SUBSET (1..k)
        <5>1. \A x \in s : x \in 1..k + 1 /\ x # k + 1
          BY <3>2
        <5>. QED
          BY <5>1
      <4>2. g[s] = f[s]
        BY <3>2
      <4>3. g[s \ {Max(s)}] = f[s \ {Max(s)}]
        <5>1. s \ {Max(s)} \in SUBSET (1..k + 1) /\ k + 1 \notin s \ {Max(s)}
          BY <3>2
        <5>. QED
          BY <5>1
      <4>4. f[s] = IF s = {} THEN base ELSE F[<<f[s \ {Max(s)}], seq[Max(s)]>>]
        BY <2>1, <4>1 DEF FoldUpTo
      <4>. QED
        BY <4>2, <4>3, <4>4
    <3>. QED
      BY <3>1, <3>2
  <2>3. g = [s \in SUBSET (1..k + 1) |-> g[s]]
    OBVIOUS
  <2>. HIDE DEF g
  <2>4. FoldUpTo(g, F, base, seq, k + 1)
    BY <2>2, <2>3 DEF FoldUpTo
  <2>. QED
    BY <2>4
<1>3. 0..n \subseteq T
  <2>. HIDE DEF T
  <2>. QED
    BY <1>1, <1>2, InductionUpTo
<1>. QED
  BY <1>3

\* F makes elements of A of elements of A and B.
StaysIn(F, A, B) == \A a \in A : \A b \in B : F[<<a, b>>] \in A

\* What the fold makes of each set of places.
Chosen(F, base, seq) == CHOOSE f : IsFoldOf(f, F, base, seq)

LEMMA ChosenIsFold ==
  ASSUME NEW B, NEW F, NEW base, NEW seq \in Seq(B)
  PROVE  IsFoldOf(Chosen(F, base, seq), F, base, seq)
<1>1. Len(seq) \in Nat /\ DOMAIN seq = 1..Len(seq)
  OBVIOUS
<1>2. PICK f : FoldUpTo(f, F, base, seq, Len(seq))
  BY <1>1, FoldExists
<1>3. IsFoldOf(f, F, base, seq)
  BY <1>1, <1>2 DEF IsFoldOf, FoldUpTo
<1>. QED
  BY <1>3, Zenon DEF Chosen

ChoiceFolds(f, F, A, base, seq) ==
  /\ FoldOf(F, base, seq) = f[1..Len(seq)]
  /\ f[{}] = base
  /\ \A k \in 1..Len(seq) : \A s \in SUBSET (1..k) : k \in s => f[s] = F[<<f[s \ {k}], seq[k]>>]
  /\ \A s \in SUBSET (1..Len(seq)) : f[s] \in A

LEMMA ChosenFolds ==
  ASSUME NEW A, NEW B, NEW F, StaysIn(F, A, B), NEW base \in A, NEW seq \in Seq(B)
  PROVE  ChoiceFolds(Chosen(F, base, seq), F, A, base, seq)
<1>. DEFINE n == Len(seq)
            f == Chosen(F, base, seq)
<1>1. n \in Nat /\ DOMAIN seq = 1..n /\ \A k \in 1..n : seq[k] \in B
  OBVIOUS
<1>2. \A g : IsFoldOf(g, F, base, seq) <=> FoldUpTo(g, F, base, seq, n)
  BY <1>1 DEF IsFoldOf, FoldUpTo
<1>. HIDE DEF n
<1>4. IsFoldOf(f, F, base, seq)
  BY ChosenIsFold
<1>. HIDE DEF f
<1>5. FoldOf(F, base, seq) = f[1..n]
  BY <1>1, FoldIsChosen DEF f, Chosen
<1>6. \A s \in SUBSET (1..n) : f[s] = IF s = {} THEN base ELSE F[<<f[s \ {Max(s)}], seq[Max(s)]>>]
  BY <1>2, <1>4 DEF FoldUpTo
<1>7. f[{}] = base
  BY <1>6
<1>8. ASSUME NEW k \in 1..n, NEW s \in SUBSET (1..k), k \in s
      PROVE  f[s] = F[<<f[s \ {k}], seq[k]>>]
  <2>1. Max(s) = k
    <3>1. k - 1 \in Nat /\ (k - 1) + 1 = k
      BY <1>1
    <3>. QED
      BY <1>8, <3>1, MaxIsLast
  <2>2. s \in SUBSET (1..n) /\ s # {}
    <3>1. \A x \in 1..k : x \in 1..n
      BY <1>1
    <3>. QED
      BY <1>8, <3>1
  <2>. QED
    BY <1>6, <2>1, <2>2
<1>9. \A s \in SUBSET (1..n) : f[s] \in A
  <2>. DEFINE T == {k \in 0..n : \A s \in SUBSET (1..k) : f[s] \in A}
  <2>1. 0 \in T
    <3>1. ASSUME NEW s \in SUBSET (1..0) PROVE f[s] \in A
      <4>1. s = {}
        OBVIOUS
      <4>. QED
        BY <1>7, <4>1
    <3>2. 0 \in 0..n
      BY <1>1
    <3>. QED
      BY <3>1, <3>2, Zenon
  <2>2. ASSUME NEW k \in 0..n - 1, k \in T PROVE k + 1 \in T
    <3>1. ASSUME NEW s \in SUBSET (1..k + 1) PROVE f[s] \in A
      <4>1. s \ {k + 1} \in SUBSET (1..k) /\ k + 1 \in 1..n
        BY <1>1
      <4>2. f[s \ {k + 1}] \in A /\ seq[k + 1] \in B
        BY <1>1, <2>2, <4>1
      <4>3. CASE k + 1 \in s
        <5>1. f[s] = F[<<f[s \ {k + 1}], seq[k + 1]>>]
          BY <1>8, <4>1, <4>3
        <5>. QED
          BY <4>2, <5>1 DEF StaysIn
      <4>4. CASE k + 1 \notin s
        <5>1. s \ {k + 1} = s
          BY <4>4
        <5>. QED
          BY <4>2, <5>1
      <4>. QED
        BY <4>3, <4>4
    <3>2. k + 1 \in 0..n
      BY <1>1
    <3>. QED
      BY <3>1, <3>2
  <2>3. 0..n \subseteq T
    <3>. HIDE DEF T
    <3>. QED
      BY <1>1, <2>1, <2>2, InductionUpTo
  <2>4. n \in T
    BY <1>1, <2>3
  <2>. QED
    BY <2>4
<1>. QED
  BY <1>5, <1>7, <1>8, <1>9 DEF ChoiceFolds, f, n

\* The fold goes over the beginnings of a sequence.
FoldsAlong(p, F, base, seq) ==
  /\ p[0] = base
  /\ \A k \in 1..Len(seq) : p[k] = F[<<p[k - 1], seq[k]>>]
  /\ FoldOf(F, base, seq) = p[Len(seq)]

LEMMA FoldGoesAlong ==
  ASSUME NEW A, NEW B, NEW F, StaysIn(F, A, B), NEW base \in A, NEW seq \in Seq(B)
  PROVE  \E p : FoldsAlong(p, F, base, seq) /\ \A k \in 0..Len(seq) : p[k] \in A
<1>. DEFINE n == Len(seq)
            f == Chosen(F, base, seq)
            p == [k \in 0..n |-> f[1..k]]
<1>1. n \in Nat
  OBVIOUS
<1>2. /\ FoldOf(F, base, seq) = f[1..n] /\ f[{}] = base
      /\ \A k \in 1..n : \A s \in SUBSET (1..k) : k \in s => f[s] = F[<<f[s \ {k}], seq[k]>>]
      /\ \A s \in SUBSET (1..n) : f[s] \in A
  <2>1. ChoiceFolds(Chosen(F, base, seq), F, A, base, seq)
    BY ChosenFolds
  <2>. QED
    BY <2>1, Zenon DEF ChoiceFolds
<1>. HIDE DEF f, n
<1>3. p[0] = base
  <2>1. 1..0 = {} /\ 0 \in 0..n
    BY <1>1
  <2>. QED
    BY <1>2, <2>1
<1>4. ASSUME NEW k \in 1..n PROVE p[k] = F[<<p[k - 1], seq[k]>>]
  <2>1. k \in 1..k /\ 1..k \in SUBSET (1..k) /\ k \in 0..n /\ k - 1 \in 0..n
    BY <1>1
  <2>2. (1..k) \ {k} = 1..k - 1
    BY <1>1
  <2>3. f[1..k] = F[<<f[(1..k) \ {k}], seq[k]>>]
    BY <1>2, <2>1
  <2>. QED
    BY <2>1, <2>2, <2>3
<1>5. ASSUME NEW k \in 0..n PROVE p[k] \in A
  <2>1. 1..k \in SUBSET (1..n)
    BY <1>1
  <2>. QED
    BY <1>2, <2>1
<1>6. FoldOf(F, base, seq) = p[n]
  BY <1>1, <1>2
<1>. HIDE DEF p
<1>. QED
  BY <1>3, <1>4, <1>5, <1>6 DEF FoldsAlong, n

LEMMA FoldInRange ==
  ASSUME NEW A, NEW B, NEW F, StaysIn(F, A, B), NEW base \in A, NEW seq \in Seq(B)
  PROVE  FoldOf(F, base, seq) \in A
<1>1. PICK p : FoldsAlong(p, F, base, seq) /\ \A k \in 0..Len(seq) : p[k] \in A
  BY FoldGoesAlong
<1>2. Len(seq) \in 0..Len(seq)
  OBVIOUS
<1>. QED
  BY <1>1, <1>2 DEF FoldsAlong

LEMMA FoldOfNothing ==
  ASSUME NEW A, NEW B, NEW F, StaysIn(F, A, B), NEW base \in A
  PROVE  FoldOf(F, base, << >>) = base
<1>1. << >> \in Seq(B) /\ Len(<< >>) = 0
  OBVIOUS
<1>2. PICK p : FoldsAlong(p, F, base, << >>)
  BY <1>1, FoldGoesAlong
<1>. QED
  BY <1>1, <1>2 DEF FoldsAlong

\* It may stop in between and go on from what it has made.
LEMMA FoldGoesOn ==
  ASSUME NEW A, NEW B, NEW F, StaysIn(F, A, B), NEW base \in A, NEW s \in Seq(B), NEW t \in Seq(B)
  PROVE  FoldOf(F, base, s \o t) = FoldOf(F, FoldOf(F, base, s), t)
<1>. DEFINE m == Len(s)
            n == Len(t)
            all == s \o t
            middle == FoldOf(F, base, s)
<1>1. /\ m \in Nat /\ n \in Nat /\ all \in Seq(B) /\ Len(all) = m + n
      /\ \A k \in 1..m : all[k] = s[k]
      /\ \A k \in 1..n : all[m + k] = t[k]
  <2>1. m \in Nat /\ n \in Nat /\ all \in Seq(B) /\ Len(all) = m + n
    OBVIOUS
  <2>2. \A k \in 1..m : all[k] = s[k]
    OBVIOUS
  <2>3. \A k \in 1..n : all[m + k] = t[k]
    OBVIOUS
  <2>. QED
    BY <2>1, <2>2, <2>3, Zenon
<1>2. middle \in A
  BY FoldInRange
<1>3. PICK p : FoldsAlong(p, F, base, s)
  BY FoldGoesAlong
<1>. HIDE DEF middle, all
<1>4. PICK q : FoldsAlong(q, F, middle, t)
  BY <1>2, FoldGoesAlong
<1>5. PICK r : FoldsAlong(r, F, base, all)
  BY <1>1, FoldGoesAlong
<1>. HIDE DEF m, n
<1>6. r[m] = p[m]
  <2>. DEFINE T == {k \in 0..m : r[k] = p[k]}
  <2>1. 0 \in T
    BY <1>1, <1>3, <1>5 DEF FoldsAlong
  <2>2. ASSUME NEW k \in 0..m - 1, k \in T PROVE k + 1 \in T
    <3>1. k + 1 \in 1..m /\ k + 1 \in 1..m + n /\ (k + 1) - 1 = k /\ k + 1 \in 0..m
      BY <1>1
    <3>2. r[k + 1] = F[<<r[k], all[k + 1]>>] /\ p[k + 1] = F[<<p[k], s[k + 1]>>]
      BY <1>1, <1>3, <1>5, <3>1 DEF FoldsAlong, m
    <3>3. r[k] = p[k] /\ all[k + 1] = s[k + 1]
      BY <1>1, <2>2, <3>1
    <3>4. r[k + 1] = p[k + 1]
      BY <3>2, <3>3, Zenon
    <3>. QED
      BY <3>1, <3>4
  <2>3. 0..m \subseteq T
    <3>. HIDE DEF T
    <3>. QED
      BY <1>1, <2>1, <2>2, InductionUpTo
  <2>. QED
    BY <1>1, <2>3
<1>7. r[m + n] = q[n]
  <2>. DEFINE T == {k \in 0..n : r[m + k] = q[k]}
  <2>1. 0 \in T
    <3>1. m + 0 = m /\ 0 \in 0..n
      BY <1>1
    <3>2. q[0] = middle /\ p[m] = middle
      BY <1>3, <1>4 DEF FoldsAlong, middle, m
    <3>3. r[m + 0] = q[0]
      BY <1>6, <3>1, <3>2, Zenon
    <3>. QED
      BY <3>1, <3>3
  <2>2. ASSUME NEW k \in 0..n - 1, k \in T PROVE k + 1 \in T
    <3>1. /\ k + 1 \in 1..n /\ m + (k + 1) \in 1..m + n /\ (m + (k + 1)) - 1 = m + k
          /\ (k + 1) - 1 = k /\ k + 1 \in 0..n
      BY <1>1
    <3>2. r[m + (k + 1)] = F[<<r[m + k], all[m + (k + 1)]>>]
      BY <1>1, <1>5, <3>1 DEF FoldsAlong
    <3>3. q[k + 1] = F[<<q[k], t[k + 1]>>]
      BY <1>4, <3>1 DEF FoldsAlong, n
    <3>4. r[m + k] = q[k] /\ all[m + (k + 1)] = t[k + 1]
      BY <1>1, <2>2, <3>1
    <3>5. r[m + (k + 1)] = q[k + 1]
      BY <3>2, <3>3, <3>4, Zenon
    <3>. QED
      BY <3>1, <3>5
  <2>3. 0..n \subseteq T
    <3>. HIDE DEF T
    <3>. QED
      BY <1>1, <2>1, <2>2, InductionUpTo
  <2>. QED
    BY <1>1, <2>3
<1>8. FoldOf(F, base, all) = r[m + n] /\ FoldOf(F, middle, t) = q[n]
  BY <1>1, <1>4, <1>5 DEF FoldsAlong, n
<1>. QED
  BY <1>7, <1>8 DEF middle, all

LEMMA FoldOfOne ==
  ASSUME NEW A, NEW B, NEW F, StaysIn(F, A, B), NEW base \in A, NEW x \in B
  PROVE  FoldOf(F, base, <<x>>) = F[<<base, x>>]
<1>1. <<x>> \in Seq(B) /\ Len(<<x>>) = 1 /\ <<x>>[1] = x /\ 1 \in 1..1 /\ 1 - 1 = 0
  OBVIOUS
<1>. DEFINE seq == <<x>>
<1>. HIDE DEF seq
<1>2. PICK p : FoldsAlong(p, F, base, seq)
  BY <1>1, FoldGoesAlong DEF seq
<1>3. p[1] = F[<<p[0], x>>] /\ p[0] = base /\ FoldOf(F, base, seq) = p[1]
  BY <1>1, <1>2 DEF FoldsAlong, seq
<1>. QED
  BY <1>3 DEF seq

LEMMA FoldOfAppend ==
  ASSUME NEW A, NEW B, NEW F, StaysIn(F, A, B), NEW base \in A, NEW seq \in Seq(B), NEW x \in B
  PROVE  FoldOf(F, base, Append(seq, x)) = F[<<FoldOf(F, base, seq), x>>]
<1>. DEFINE one == <<x>>
<1>1. Append(seq, x) = seq \o one /\ one \in Seq(B)
  OBVIOUS
<1>2. FoldOf(F, base, seq) \in A
  BY FoldInRange
<1>3. FoldOf(F, base, seq \o one) = FoldOf(F, FoldOf(F, base, seq), one)
  <2>. HIDE DEF one
  <2>. QED
    BY <1>1, FoldGoesOn
<1>4. FoldOf(F, FoldOf(F, base, seq), <<x>>) = F[<<FoldOf(F, base, seq), x>>]
  <2>. DEFINE made == FoldOf(F, base, seq)
  <2>. HIDE DEF made
  <2>1. made \in A
    BY <1>2 DEF made
  <2>2. FoldOf(F, made, <<x>>) = F[<<made, x>>]
    BY <2>1, FoldOfOne
  <2>. QED
    BY <2>2 DEF made
<1>. QED
  BY <1>1, <1>3, <1>4

AlsoFolds(f, F, A, base, seq) ==
  /\ f[{}] = base
  /\ \A k \in 1..Len(seq) : \A s \in SUBSET (1..k) :
        k \in s /\ f[s \ {k}] \in A => f[s] = F[<<f[s \ {k}], seq[k]>>]

\* A function that is chosen as a fold with another operation, which agrees
\* with F wherever F is defined, makes the same of each set of places.
LEMMA SameFold ==
  ASSUME NEW A, NEW B, NEW F, StaysIn(F, A, B), NEW base \in A, NEW seq \in Seq(B), NEW f,
         AlsoFolds(f, F, A, base, seq)
  PROVE  f[1..Len(seq)] = FoldOf(F, base, seq)
<1>. DEFINE n == Len(seq)
            g == Chosen(F, base, seq)
            T == {k \in 0..n : \A s \in SUBSET (1..k) : f[s] = g[s]}
<1>1. n \in Nat
  OBVIOUS
<1>2. /\ FoldOf(F, base, seq) = g[1..n] /\ g[{}] = base
      /\ \A k \in 1..n : \A s \in SUBSET (1..k) : k \in s => g[s] = F[<<g[s \ {k}], seq[k]>>]
      /\ \A s \in SUBSET (1..n) : g[s] \in A
  <2>1. ChoiceFolds(Chosen(F, base, seq), F, A, base, seq)
    BY ChosenFolds
  <2>. QED
    BY <2>1, Zenon DEF ChoiceFolds
<1>3. \A k \in 1..n : \A s \in SUBSET (1..k) :
         k \in s /\ f[s \ {k}] \in A => f[s] = F[<<f[s \ {k}], seq[k]>>]
  BY Zenon DEF AlsoFolds
<1>. HIDE DEF g, n
<1>4. 0 \in T
  <2>1. ASSUME NEW s \in SUBSET (1..0) PROVE f[s] = g[s]
    <3>1. s = {}
      OBVIOUS
    <3>2. f[{}] = base
      BY DEF AlsoFolds
    <3>. QED
      BY <1>2, <3>1, <3>2
  <2>2. 0 \in 0..n
    BY <1>1
  <2>. QED
    BY <2>1, <2>2, Zenon
<1>5. ASSUME NEW k \in 0..n - 1, k \in T PROVE k + 1 \in T
  <2>1. ASSUME NEW s \in SUBSET (1..k + 1) PROVE f[s] = g[s]
    <3>1. s \ {k + 1} \in SUBSET (1..k) /\ k + 1 \in 1..n /\ s \ {k + 1} \in SUBSET (1..n)
      BY <1>1
    <3>2. f[s \ {k + 1}] = g[s \ {k + 1}] /\ g[s \ {k + 1}] \in A
      BY <1>2, <1>5, <3>1
    <3>3. CASE k + 1 \in s
      <4>1. g[s] = F[<<g[s \ {k + 1}], seq[k + 1]>>]
        BY <1>2, <3>1, <3>3
      <4>2. f[s] = F[<<f[s \ {k + 1}], seq[k + 1]>>]
        BY <1>3, <3>1, <3>2, <3>3
      <4>. QED
        BY <3>2, <4>1, <4>2
    <3>4. CASE k + 1 \notin s
      <4>1. s \ {k + 1} = s
        BY <3>4
      <4>. QED
        BY <3>2, <4>1
    <3>. QED
      BY <3>3, <3>4
  <2>2. k + 1 \in 0..n
    BY <1>1
  <2>. QED
    BY <2>1, <2>2
<1>6. 0..n \subseteq T
  <2>. HIDE DEF T
  <2>. QED
    BY <1>1, <1>4, <1>5, InductionUpTo
<1>7. n \in T
  <2>1. n \in 0..n
    BY <1>1
  <2>. HIDE DEF T
  <2>. QED
    BY <1>6, <2>1
<1>. QED
  BY <1>2, <1>7 DEF n

LEMMA MaxIsMember ==
  ASSUME NEW n \in Nat, NEW s \in SUBSET (1..n), s # {}
  PROVE  Max(s) \in s /\ Max(s) \in 1..n /\ s \in SUBSET (1..Max(s))
<1>. DEFINE T == {n - x : x \in s}
<1>1. T \in SUBSET Nat /\ T # {}
  <2>1. \A x \in s : x \in 1..n /\ n - x \in Nat
    OBVIOUS
  <2>2. PICK x : x \in s
    OBVIOUS
  <2>3. n - x \in T
    BY <2>2
  <2>. QED
    BY <2>1, <2>3
<1>2. PICK t \in T : \A u \in T : t <= u
  <2>. HIDE DEF T
  <2>. QED
    BY <1>1, LeastNatural
<1>3. PICK x \in s : t = n - x
  OBVIOUS
<1>4. \A y \in s : x >= y
  <2>1. \A y \in s : n - x <= n - y
    BY <1>2, <1>3
  <2>. QED
    BY <2>1
<1>5. Max(s) \in s /\ \A y \in s : Max(s) >= y
  BY <1>3, <1>4 DEF Max
<1>. DEFINE m == Max(s)
<1>. HIDE DEF m
<1>6. m \in s /\ \A y \in s : m >= y
  BY <1>5 DEF m
<1>7. m \in 1..n /\ s \in SUBSET (1..m)
  <2>1. \A y \in s : y \in 1..n
    OBVIOUS
  <2>. QED
    BY <1>6, <2>1
<1>. QED
  BY <1>6, <1>7 DEF m

LEMMA AppendedToConcat ==
  ASSUME NEW S, NEW p \in Seq(S), NEW q \in Seq(S), NEW y \in S
  PROVE  p \o Append(q, y) = Append(p \o q, y)
  OBVIOUS

LEMMA OnlyConcatenated ==
  ASSUME NEW S
  PROVE  \A p, q, r \in Seq(S) : (p \o q) \o r = p \o (q \o r)
<1>. TAKE p, q, r \in Seq(S)
<1>. QED
  BY ConcatAssociative, SMTT(30)

LEMMA FlattenOfConcat ==
  ASSUME NEW S, NEW a \in Seq(Seq(S)), NEW b \in Seq(Seq(S))
  PROVE  FlattenSeq(a \o b) = FlattenSeq(a) \o FlattenSeq(b)
<1>. DEFINE upTo(k) == SubSeq(b, 1, k)
            T == {k \in 0..Len(b) : FlattenSeq(a \o upTo(k)) = FlattenSeq(a) \o FlattenSeq(upTo(k))}
<1>1. \A k \in 0..Len(b) : upTo(k) \in Seq(Seq(S))
  OBVIOUS
<1>2. 0 \in T
  <2>1. upTo(0) = << >> /\ 0 \in 0..Len(b)
    OBVIOUS
  <2>2. FlattenSeq(a) \in Seq(S)
    BY FlattenedIsSequence
  <2>3. FlattenSeq(a) \o << >> = FlattenSeq(a) /\ a \o << >> = a
    BY <2>2
  <2>. QED
    BY <2>1, <2>3, FlattenOfNothing
<1>3. ASSUME NEW k \in 0..Len(b) - 1, k \in T PROVE k + 1 \in T
  <2>1. /\ upTo(k + 1) = Append(upTo(k), b[k + 1]) /\ b[k + 1] \in Seq(S)
        /\ k + 1 \in 0..Len(b) /\ k \in 0..Len(b)
    <3>1. Len(b) \in Nat /\ k \in Nat /\ k + 1 \in 1..Len(b)
      OBVIOUS
    <3>2. upTo(k + 1) = Append(upTo(k), b[k + 1])
      <4>1. \A q \in Seq(Seq(S)), j \in Nat :
               j + 1 \in 1..Len(q) => SubSeq(q, 1, j + 1) = Append(SubSeq(q, 1, j), q[j + 1])
        OBVIOUS
      <4>. QED
        BY <3>1, <4>1
    <3>3. b[k + 1] \in Seq(S)
      BY <3>1
    <3>. QED
      BY <3>1, <3>2, <3>3
  <2>. DEFINE u == upTo(k)
              x == b[k + 1]
  <2>2. u \in Seq(Seq(S)) /\ x \in Seq(S)
    BY <1>1, <2>1
  <2>3. FlattenSeq(a \o u) = FlattenSeq(a) \o FlattenSeq(u)
    BY <1>3
  <2>. HIDE DEF u, x
  <2>4. a \o Append(u, x) = Append(a \o u, x) /\ a \o u \in Seq(Seq(S))
    <3>. DEFINE SS == Seq(S)
    <3>1. a \in Seq(SS) /\ u \in Seq(SS) /\ x \in SS
      BY <2>2
    <3>. HIDE DEF SS
    <3>2. a \o Append(u, x) = Append(a \o u, x)
      BY <3>1, AppendedToConcat
    <3>3. a \o u \in Seq(SS)
      BY <3>1, ConcatProperties
    <3>. QED
      BY <3>2, <3>3 DEF SS
  <2>5. FlattenSeq(Append(a \o u, x)) = FlattenSeq(a \o u) \o x
    BY <2>2, <2>4, FlattenOfAppend
  <2>6. FlattenSeq(Append(u, x)) = FlattenSeq(u) \o x
    BY <2>2, FlattenOfAppend
  <2>7. (FlattenSeq(a) \o FlattenSeq(u)) \o x = FlattenSeq(a) \o (FlattenSeq(u) \o x)
    <3>. DEFINE fa == FlattenSeq(a)
                fu == FlattenSeq(u)
    <3>1. fa \in Seq(S) /\ fu \in Seq(S)
      BY <2>2, FlattenedIsSequence
    <3>. HIDE DEF fa, fu
    <3>2. x \in Seq(S)
      BY <2>2
    <3>3. (fa \o fu) \o x = fa \o (fu \o x)
      <4>1. \A p, q, r \in Seq(S) : (p \o q) \o r = p \o (q \o r)
        BY OnlyConcatenated, SMTT(30)
      <4>. QED
        BY <3>1, <3>2, <4>1, Zenon
    <3>. QED
      BY <3>3 DEF fa, fu
  <2>8. FlattenSeq(a \o Append(u, x)) = FlattenSeq(a) \o FlattenSeq(Append(u, x))
    BY <2>3, <2>4, <2>5, <2>6, <2>7, Zenon
  <2>9. upTo(k + 1) = Append(u, x)
    BY <2>1 DEF u, x
  <2>. QED
    BY <2>1, <2>8, <2>9
<1>4. 0..Len(b) \subseteq T
  <2>1. Len(b) \in Nat
    OBVIOUS
  <2>. HIDE DEF T
  <2>. QED
    BY <1>2, <1>3, <2>1, InductionUpTo
<1>5. upTo(Len(b)) = b /\ Len(b) \in 0..Len(b)
  OBVIOUS
<1>. QED
  BY <1>4, <1>5

\* A function that is chosen as a fold with an operation, of which O are the
\* results; and that they are those of F wherever F is defined.
Operates(f, O, base, seq) == f = [s \in SUBSET (DOMAIN seq) |-> IF s = {} THEN base ELSE O[s]]
AgreesWith(O, f, F, A, seq) ==
  \A s \in SUBSET (DOMAIN seq) :
     s # {} /\ f[s \ {Max(s)}] \in A => O[s] = F[<<f[s \ {Max(s)}], seq[Max(s)]>>]

LEMMA OperationFolds ==
  ASSUME NEW A, NEW B, NEW F, StaysIn(F, A, B), NEW base \in A, NEW seq \in Seq(B),
         NEW f, NEW O, Operates(f, O, base, seq), AgreesWith(O, f, F, A, seq)
  PROVE  f[DOMAIN seq] = FoldOf(F, base, seq)
<1>. DEFINE n == Len(seq)
<1>1. n \in Nat /\ DOMAIN seq = 1..n
  OBVIOUS
<1>. HIDE DEF n
<1>2. \A s \in SUBSET (1..n) : f[s] = IF s = {} THEN base ELSE O[s]
  <2>. DEFINE h == [s \in SUBSET (1..n) |-> IF s = {} THEN base ELSE O[s]]
  <2>1. f = h
    BY <1>1, Zenon DEF Operates
  <2>2. \A s \in SUBSET (1..n) : h[s] = IF s = {} THEN base ELSE O[s]
    OBVIOUS
  <2>. HIDE DEF h
  <2>. QED
    BY <2>1, <2>2, Zenon
<1>3. f[{}] = base
  <2>1. {} \in SUBSET (1..n)
    OBVIOUS
  <2>. QED
    BY <1>2, <2>1
<1>4. ASSUME NEW k \in 1..n, NEW s \in SUBSET (1..k), k \in s, f[s \ {k}] \in A
      PROVE  f[s] = F[<<f[s \ {k}], seq[k]>>]
  <2>1. Max(s) = k
    <3>1. k - 1 \in Nat /\ (k - 1) + 1 = k
      BY <1>1
    <3>. QED
      BY <1>4, <3>1, MaxIsLast
  <2>2. s \in SUBSET (1..n) /\ s # {}
    <3>1. \A x \in 1..k : x \in 1..n
      BY <1>1
    <3>. QED
      BY <1>4, <3>1
  <2>3. f[s] = O[s]
    BY <1>2, <2>2
  <2>4. O[s] = F[<<f[s \ {k}], seq[k]>>]
    BY <1>1, <1>4, <2>1, <2>2 DEF AgreesWith
  <2>. QED
    BY <2>3, <2>4
<1>5. AlsoFolds(f, F, A, base, seq)
  BY <1>3, <1>4 DEF AlsoFolds, n
<1>6. f[1..Len(seq)] = FoldOf(F, base, seq)
  BY <1>5, SameFold
<1>. QED
  BY <1>1, <1>6 DEF n

\* The function chosen for F, and that its values are in its range.
ChosenStays(g, F, A, B, base, seq) ==
  /\ g = [s \in SUBSET (DOMAIN seq) |-> IF s = {} THEN base ELSE F[<<g[s \ {Max(s)}], seq[Max(s)]>>]]
  /\ \A s \in SUBSET (DOMAIN seq) : s # {} => g[s \ {Max(s)}] \in A /\ seq[Max(s)] \in B

LEMMA ChosenInRange ==
  ASSUME NEW A, NEW B, NEW F, StaysIn(F, A, B), NEW base \in A, NEW seq \in Seq(B)
  PROVE  ChosenStays(Chosen(F, base, seq), F, A, B, base, seq)
<1>. DEFINE n == Len(seq)
            g == Chosen(F, base, seq)
<1>1. n \in Nat /\ DOMAIN seq = 1..n /\ \A k \in 1..n : seq[k] \in B
  OBVIOUS
<1>2. IsFoldOf(g, F, base, seq)
  BY ChosenIsFold
<1>3. ChoiceFolds(g, F, A, base, seq)
  BY ChosenFolds
<1>. HIDE DEF g, n
<1>4. ASSUME NEW s \in SUBSET (1..n), s # {} PROVE g[s \ {Max(s)}] \in A /\ seq[Max(s)] \in B
  <2>1. Max(s) \in 1..n
    BY <1>1, <1>4, MaxIsMember
  <2>2. s \ {Max(s)} \in SUBSET (1..n)
    OBVIOUS
  <2>. QED
    BY <1>1, <1>3, <2>1, <2>2 DEF ChoiceFolds, n
<1>. QED
  BY <1>1, <1>2, <1>4, Zenon DEF ChosenStays, IsFoldOf, g

\* A sequence after a header, and between what follows it and what is last.
InFrame(h, e, q, l) == <<h, e>> \o q \o <<l, e>>
InRest(e, q, l) == <<e>> \o q \o <<l, e>>

LEMMA Framed ==
  ASSUME NEW S, NEW h \in S, NEW e \in S, NEW l \in S, NEW q \in Seq(S)
  PROVE  InFrame(h, e, q, l) = <<h>> \o InRest(e, q, l)
<1>. DEFINE a == <<h>>
            b == <<e>>
            c == <<l, e>>
<1>1. a \in Seq(S) /\ b \in Seq(S) /\ c \in Seq(S)
  OBVIOUS
<1>a. <<h, e>> = a \o b
  <2>1. <<h, e>> = Append(<<h>>, e)
    OBVIOUS
  <2>2. \A x \in Seq(S) : x \o <<e>> = Append(x, e)
    OBVIOUS
  <2>. QED
    BY <1>1, <2>1, <2>2, Zenon
<1>b. \A x, y, z \in Seq(S) : (x \o y) \o z = x \o (y \o z)
  BY OnlyConcatenated
<1>2. b \o q \in Seq(S)
  BY <1>1
<1>. HIDE DEF a, b, c
<1>3. ((a \o b) \o q) \o c = a \o ((b \o q) \o c)
  <2>1. (a \o b) \o q = a \o (b \o q)
    BY <1>1, <1>b, ZenonT(30)
  <2>2. (a \o (b \o q)) \o c = a \o ((b \o q) \o c)
    BY <1>1, <1>2, <1>b, ZenonT(30)
  <2>. QED
    BY <2>1, <2>2, Zenon
<1>. QED
  BY <1>a, <1>3, Zenon DEF a, b, c, InFrame, InRest

LEMMA FlattenOfFramed ==
  ASSUME NEW S, NEW q \in Seq(Seq(S)), NEW l \in Seq(S)
  PROVE  /\ << << >> >> \o q \o <<l, << >> >> \in Seq(Seq(S))
         /\ FlattenSeq(<< << >> >> \o q \o <<l, << >> >>) = FlattenSeq(q) \o l
<1>. DEFINE SS == Seq(S)
            none == << >>
            b == <<none>>
            bq == b \o q
            flat == FlattenSeq(q)
<1>1. none \in SS
  OBVIOUS
<1>2. q \in Seq(SS) /\ l \in SS
  OBVIOUS
<1>3. b = Append(none, none) /\ none \in Seq(SS)
  OBVIOUS
<1>4. FlattenSeq(Append(none, none)) = FlattenSeq(none) \o none
  BY <1>1, <1>3, FlattenOfAppend DEF SS
<1>5. FlattenSeq(none) = none /\ none \o none = none
  <2>1. FlattenSeq(none) = none
    BY FlattenOfNothing
  <2>2. none \o none = none
    BY <1>3
  <2>. QED
    BY <2>1, <2>2
<1>6. FlattenSeq(b) = none
  BY <1>3, <1>4, <1>5, Zenon
<1>7. flat \in SS
  BY FlattenedIsSequence
<1>8. none \o flat = flat
  BY <1>7
<1>. HIDE DEF none, SS, flat
<1>9. b \in Seq(SS)
  BY <1>1
<1>. HIDE DEF b
<1>10. bq \in Seq(SS)
  BY <1>2, <1>9
<1>11. FlattenSeq(bq) = flat
  <2>1. FlattenSeq(bq) = FlattenSeq(b) \o flat
    BY <1>2, <1>9, FlattenOfConcat DEF SS, flat
  <2>. QED
    BY <1>6, <1>8, <2>1, Zenon
<1>. HIDE DEF bq
<1>12. /\ bq \o <<l, none>> = Append(Append(bq, l), none)
       /\ Append(bq, l) \in Seq(SS) /\ bq \o <<l, none>> \in Seq(SS)
  <2>1. \A x \in Seq(SS), y, z \in SS : x \o <<y, z>> = Append(Append(x, y), z)
    OBVIOUS
  <2>2. Append(bq, l) \in Seq(SS)
    BY <1>2, <1>10
  <2>3. Append(Append(bq, l), none) \in Seq(SS)
    BY <1>1, <2>2
  <2>. QED
    BY <1>1, <1>2, <1>10, <2>1, <2>2, <2>3
<1>13. FlattenSeq(Append(Append(bq, l), none)) = FlattenSeq(Append(bq, l)) \o none
  BY <1>1, <1>12, FlattenOfAppend DEF SS
<1>14. FlattenSeq(Append(bq, l)) = flat \o l
  BY <1>2, <1>10, <1>11, FlattenOfAppend DEF SS
<1>15. (flat \o l) \o none = flat \o l
  BY <1>2, <1>7 DEF SS, none
<1>. QED
  BY <1>12, <1>13, <1>14, <1>15, Zenon DEF bq, b, none, SS, flat
=============================================================================
