----------------------------- MODULE FoldLemmas -----------------------------
(***************************************************************************)
(* What the proofs need to know of numbers, finite sets and folds.  A fold *)
(* of the community modules chooses a function that satisfies its          *)
(* equation: FoldExists shows that there is one, by a least counterexample *)
(* instead of an induction, and FoldSteps unfolds a fold over 1..n into    *)
(* the states it goes through.  TakenApart is for folds over sets.         *)
(***************************************************************************)
EXTENDS Integers, SequencesExt, FiniteSetTheorems, SequenceTheorems, WellFoundedInduction, TLAPS

-----------------------------------------------------------------------------
(* Numbers and finite sets. *)

(* Any set of numbers has a least one.                                     *)
LEMMA LeastNumber ==
    ASSUME NEW T, T \subseteq Nat, T # {} PROVE \E k \in T : \A j \in T : k <= j
<1> DEFINE less == OpToRel(<, Nat)
<1>1. \A x \in Nat, y \in Nat : y < x => <<y, x>> \in less
  BY DEF OpToRel
<1>2. IsWellFoundedOn(less, Nat)
  BY NatLessThanWellFounded
<1> HIDE DEF less
<1>3. PICK x \in T : \A y \in T : ~(<<y, x>> \in less)
  BY <1>2, WFMin
<1>4. ASSUME NEW y \in T PROVE x <= y
  <2>1. x \in Nat /\ y \in Nat /\ ~(y < x)
    BY <1>1, <1>3
  <2> QED
    BY <2>1
<1> QED
  BY <1>4

(* The first of some positions is one of them. *)
LEMMA MinIsMember ==
    ASSUME NEW S, S \subseteq Nat, S # {} PROVE Min(S) \in S /\ \A y \in S : Min(S) <= y
<1>1. PICK k \in S : \A j \in S : k <= j
  BY LeastNumber
<1> QED
  BY <1>1 DEF Min

(* The greatest of the first numbers.                                      *)
LEMMA MaxOfFirst ==
    ASSUME NEW n \in Nat, NEW s \in SUBSET (1..n), s # {}
    PROVE  Max(s) \in s /\ \A y \in s : y <= Max(s)
<1> DEFINE far == {n - x : x \in s}
<1>1. far \subseteq Nat /\ far # {}
  <2>1. \A x \in s : x \in 1..n /\ n - x \in Nat
    OBVIOUS
  <2> QED
    BY <2>1
<1>2. PICK k \in far : \A j \in far : k <= j
  <2> HIDE DEF far
  <2> QED
    BY <1>1, LeastNumber
<1>3. PICK x \in s : k = n - x
  BY <1>2
<1>4. ASSUME NEW y \in s PROVE x >= y
  <2>1. x \in 1..n /\ y \in 1..n /\ n - y \in far
    OBVIOUS
  <2>2. n - x <= n - y
    BY <1>2, <1>3, <2>1
  <2> QED
    BY <2>1, <2>2
<1> QED
  BY <1>4 DEF Max

(* Counting up from 0 reaches every number. *)
LEMMA CountUp ==
    ASSUME NEW n \in Nat, NEW S, 0 \in S, \A k \in 1..n : k - 1 \in S => k \in S
    PROVE  \A k \in 0..n : k \in S
<1> DEFINE Bad == {k \in 0..n : k \notin S}
<1>1. CASE Bad # {}
  <2>1. PICK k \in Bad : \A j \in Bad : k <= j
    <3>1. Bad \subseteq Nat
      OBVIOUS
    <3> HIDE DEF Bad
    <3> QED
      BY <1>1, <3>1, LeastNumber
  <2>2. k \in 1..n /\ k - 1 \in 0..n
    BY <2>1
  <2>3. k - 1 \in S
    BY <2>1, <2>2
  <2> QED
    BY <2>1, <2>2, <2>3
<1> QED
  BY <1>1

(* Of some subsets of a finite set, one contains no other of them.         *)
LEMMA SmallestSubset ==
    ASSUME NEW D, IsFiniteSet(D), NEW T, T \subseteq SUBSET D, T # {}
    PROVE  \E u \in T : \A w \in T : w \subseteq u => w = u
<1> DEFINE sizes == {Cardinality(u) : u \in T}
<1>1. \A u \in T : IsFiniteSet(u) /\ Cardinality(u) \in Nat
  BY FS_Subset, FS_CardinalityType
<1>2. PICK k \in sizes : \A j \in sizes : k <= j
  <2>1. sizes \subseteq Nat /\ sizes # {}
    BY <1>1
  <2> HIDE DEF sizes
  <2> QED
    BY <2>1, LeastNumber
<1>3. PICK u \in T : Cardinality(u) = k
  BY <1>2
<1>4. ASSUME NEW w \in T, w \subseteq u PROVE w = u
  <2>1. Cardinality(u) <= Cardinality(w)
    BY <1>2, <1>3
  <2> QED
    BY <1>1, <1>4, <2>1, FS_Subset
<1> QED
  BY <1>4

(* What holds of the empty set, and of a set if it holds once one of its   *)
(* elements is taken out, holds of every finite set.                       *)
LEMMA TakenApart ==
    ASSUME NEW D, IsFiniteSet(D), NEW T, {} \in T,
           \A s \in SUBSET D : s # {} => \E x \in s : s \ {x} \in T => s \in T
    PROVE  D \in T
<1> DEFINE Bad == {s \in SUBSET D : s \notin T}
<1>1. CASE Bad # {}
  <2>1. PICK s \in Bad : \A w \in Bad : w \subseteq s => w = s
    <3>1. Bad \subseteq SUBSET D
      OBVIOUS
    <3> HIDE DEF Bad
    <3> QED
      BY <1>1, <3>1, SmallestSubset
  <2>2. s \in SUBSET D /\ s # {} /\ s \notin T
    BY <2>1
  <2>3. PICK x \in s : s \ {x} \in T => s \in T
    BY <2>2
  <2>4. s \ {x} \in Bad /\ s \ {x} \subseteq s /\ s \ {x} # s
    BY <2>2, <2>3
  <2> HIDE DEF Bad
  <2> QED
    BY <2>1, <2>4
<1> QED
  BY <1>1

-----------------------------------------------------------------------------
(* Sequences and folds. *)

(* A function on the first n numbers is a sequence. *)
LEMMA TableIsSeq ==
    ASSUME NEW S, NEW n \in Nat, NEW f \in [1..n -> S] PROVE f \in Seq(S) /\ Len(f) = n
  OBVIOUS

(* Steps F[1] .. F[n] on the states P, from base. *)
Stepping(P, base, n, F) ==
    base \in P /\ n \in Nat /\ \A k \in 1..n : F[k] \in [P -> P]

(* What the recursion of a fold over 1..n says of its values w, *)
Walked(P, base, n, F, w) ==
    \A s \in SUBSET (1..n) : w[s] = IF s = {} THEN base ELSE F[Max(s)][w[s \ {Max(s)}]]

(* as far as they are known to be states, *)
Retraced(P, base, n, F, w) ==
    \A s \in SUBSET (1..n) :
        /\ s = {} => w[s] = base
        /\ s # {} /\ w[s \ {Max(s)}] \in P => w[s] = F[Max(s)][w[s \ {Max(s)}]]

(* and the states one after the other. *)
Sequenced(P, base, n, F, st) ==
    /\ st \in [0..n -> P] /\ st[0] = base
    /\ \A k \in 1..n : st[k] = F[k][st[k - 1]]

(* Such values exist, and they are states, *)
LEMMA FoldExists ==
    ASSUME NEW P, NEW base, NEW n, NEW F, Stepping(P, base, n, F)
    PROVE  \E w \in [SUBSET (1..n) -> P] : Walked(P, base, n, F, w)
<1>0. base \in P /\ n \in Nat /\ \A k \in 1..n : F[k] \in [P -> P]
  BY DEF Stepping
<1> USE <1>0
<1> DEFINE Walk(w, m) ==
              /\ w \in [SUBSET (1..m) -> P]
              /\ \A s \in SUBSET (1..m) :
                    w[s] = IF s = {} THEN base ELSE F[Max(s)][w[s \ {Max(s)}]]
           Bad == {m \in 0..n : ~\E w : Walk(w, m)}
<1>1. ASSUME Bad # {} PROVE FALSE
  <2>1. PICK m \in Bad : \A j \in Bad : m <= j
    <3>1. Bad \subseteq Nat
      OBVIOUS
    <3> HIDE DEF Bad
    <3> QED
      BY <1>1, <3>1, LeastNumber
  <2>2. m \in 0..n /\ ~(\E w : Walk(w, m)) /\ m - 1 < m
    <3> HIDE DEF Walk
    <3> QED
      BY <2>1
  <2>3. CASE m = 0
    <3> DEFINE w == [s \in SUBSET (1..m) |-> base]
    <3>1. Walk(w, m)
      BY <2>3
    <3> HIDE DEF w, Walk
    <3> QED
      BY <2>2, <3>1
  <2>4. CASE m # 0
    <3>1. m - 1 \in 0..n /\ m - 1 \notin Bad /\ m \in 1..n
      <4>1. m - 1 \in 0..n /\ m \in 1..n
        BY <2>2, <2>4
      <4>2. \A j \in Bad : m <= j
        BY <2>1
      <4> HIDE DEF Bad
      <4> QED
        BY <4>1, <4>2
    <3>2. PICK v : Walk(v, m - 1)
      BY <3>1
    <3> DEFINE w == [s \in SUBSET (1..m) |->
                        IF m \in s THEN F[m][v[s \ {m}]] ELSE v[s]]
    <3>3. \A s \in SUBSET (1..m) : s \ {m} \in SUBSET (1..(m - 1))
      BY <3>1
    <3>4. \A s \in SUBSET (1..m) : m \notin s => s \in SUBSET (1..(m - 1))
      BY <3>1
    <3>5. w \in [SUBSET (1..m) -> P]
      BY <3>1, <3>2, <3>3, <3>4
    <3>6. ASSUME NEW s \in SUBSET (1..m)
          PROVE  w[s] = IF s = {} THEN base ELSE F[Max(s)][w[s \ {Max(s)}]]
      <4>1. CASE m \in s
        <5>1. Max(s) = m
          <6>1. m \in Nat /\ s # {}
            BY <3>1, <4>1
          <6>2. Max(s) \in s /\ m <= Max(s)
            BY <4>1, <6>1, MaxOfFirst
          <6>3. Max(s) \in 1..m
            BY <6>2
          <6> QED
            BY <6>1, <6>2, <6>3
        <5>2. w[s \ {m}] = v[s \ {m}]
          BY <3>3
        <5> QED
          BY <4>1, <5>1, <5>2
      <4>2. CASE m \notin s
        <5>1. s \in SUBSET (1..(m - 1)) /\ w[s] = v[s]
          BY <3>4, <4>2
        <5>2. v[s] = IF s = {} THEN base ELSE F[Max(s)][v[s \ {Max(s)}]]
          BY <3>2, <5>1
        <5>3. w[s \ {Max(s)}] = v[s \ {Max(s)}]
          BY <4>2
        <5> QED
          BY <5>1, <5>2, <5>3
      <4> QED
        BY <4>1, <4>2
    <3>7. Walk(w, m)
      BY <3>5, <3>6
    <3> HIDE DEF w, Walk
    <3> QED
      BY <2>2, <3>7
  <2> QED
    BY <2>3, <2>4
<1>2. n \notin Bad
  BY <1>1
<1>3. PICK w : Walk(w, n)
  <2> HIDE DEF Walk
  <2> QED
    BY <1>2
<1> QED
  BY <1>3 DEF Walked

(* so that the fold ends where its steps lead. *)
LEMMA FoldSteps ==
    ASSUME NEW P, NEW base, NEW n, NEW F, Stepping(P, base, n, F),
           NEW iter, Retraced(P, base, n, F, iter)
    PROVE  \E st : Sequenced(P, base, n, F, st) /\ st[n] = iter[1..n]
<1>0. base \in P /\ n \in Nat /\ \A k \in 1..n : F[k] \in [P -> P]
  BY DEF Stepping
<1> USE <1>0
<1> DEFINE st == [k \in 0..n |-> iter[1..k]]
           S == {k \in 0..n : iter[1..k] \in P}
<1>1. \A k \in 0..n : 1..k \in SUBSET (1..n)
  OBVIOUS
<1>2. iter[1..0] = base
  <2>1. 1..0 = {} /\ 1..0 \in SUBSET (1..n)
    BY <1>1
  <2> QED
    BY <2>1 DEF Retraced
<1>3. ASSUME NEW k \in 1..n, iter[1..(k - 1)] \in P
      PROVE  iter[1..k] = F[k][iter[1..(k - 1)]]
  <2>1. 1..k \in SUBSET (1..n) /\ 1..k # {} /\ k \in 1..k
    OBVIOUS
  <2>2. Max(1..k) = k
    <3>1. Max(1..k) \in 1..k /\ k <= Max(1..k)
      BY <2>1, MaxOfFirst
    <3> QED
      BY <3>1
  <2>3. (1..k) \ {k} = 1..(k - 1)
    OBVIOUS
  <2> QED
    BY <1>3, <2>1, <2>2, <2>3 DEF Retraced
<1>4. \A k \in 0..n : k \in S
  <2>1. 0 \in S
    BY <1>2
  <2>2. ASSUME NEW k \in 1..n, k - 1 \in S PROVE k \in S
    <3>1. iter[1..(k - 1)] \in P /\ k \in 0..n
      BY <2>2
    <3> QED
      BY <1>3, <3>1
  <2> HIDE DEF S
  <2> QED
    BY <2>1, <2>2, CountUp
<1>5. st \in [0..n -> P]
  BY <1>4
<1>6. \A k \in 1..n : st[k] = F[k][st[k - 1]]
  <2>1. ASSUME NEW k \in 1..n PROVE st[k] = F[k][st[k - 1]]
    <3>1. k - 1 \in 0..n /\ k \in 0..n
      OBVIOUS
    <3> QED
      BY <1>3, <1>5, <3>1
  <2> QED
    BY <2>1
<1>7. st[0] = base /\ st[n] = iter[1..n]
  BY <1>2
<1> HIDE DEF st
<1> QED
  BY <1>5, <1>6, <1>7 DEF Sequenced

(* A table whose every row is computed from the one before exists. *)
LEMMA LevelsExist ==
    ASSUME NEW P, NEW base, NEW n, NEW F, Stepping(P, base, n, F)
    PROVE  \E st : Sequenced(P, base, n, F, st)
<1>1. PICK w \in [SUBSET (1..n) -> P] : Walked(P, base, n, F, w)
  BY FoldExists
<1>2. Retraced(P, base, n, F, w)
  BY <1>1 DEF Walked, Retraced
<1> QED
  BY <1>2, FoldSteps

(* A sequence of texts joined, one after the other. *)
Flattened(T, seqs, st) ==
    /\ st \in [0..Len(seqs) -> Seq(T)]
    /\ st[0] = <<>> /\ st[Len(seqs)] = FlattenSeq(seqs)
    /\ \A k \in 1..Len(seqs) : st[k] = st[k - 1] \o seqs[k]

(* FlattenSeq goes through such joins. *)
LEMMA FlattenSteps ==
    ASSUME NEW T, NEW seqs \in Seq(Seq(T)) PROVE \E st : Flattened(T, seqs, st)
<1> DEFINE n == Len(seqs)
           P == Seq(T)
           F == [k \in 1..n |-> [p \in P |-> p \o seqs[k]]]
           body(w) == [i \in 1..n |-> IF i = 1 THEN seqs[i] ELSE w[i - 1] \o seqs[i]]
           iter == CHOOSE w : w = body(w)
<1>1. n \in Nat /\ \A k \in 1..n : seqs[k] \in P
  BY LenProperties, ElementOfSeq
<1>2. <<>> \in P
  BY EmptySeq
<1>3. Stepping(P, <<>>, n, F)
  <2>1. ASSUME NEW k \in 1..n, NEW p \in P PROVE p \o seqs[k] \in P
    BY <1>1, <2>1, ConcatProperties
  <2> HIDE DEF P
  <2> QED
    BY <1>1, <1>2, <2>1 DEF Stepping
<1>4. CASE n = 0
  <2>1. FlattenSeq(seqs) = <<>> /\ seqs = <<>>
    BY <1>4, EmptySeq DEF FlattenSeq
  <2> DEFINE st == [k \in 0..n |-> <<>>]
  <2>2. st \in [0..n -> P] /\ st[0] = <<>> /\ st[n] = FlattenSeq(seqs)
    BY <1>2, <1>4, <2>1
  <2>3. 1..n = {}
    BY <1>4
  <2>4. Flattened(T, seqs, st)
    BY <2>2, <2>3 DEF Flattened
  <2> QED
    BY <2>4
<1>5. CASE n # 0
  <2>1. FlattenSeq(seqs) = iter[n]
    BY <1>5, Zenon DEF FlattenSeq
  <2>2. PICK w \in [SUBSET (1..n) -> P] : Walked(P, <<>>, n, F, w)
    <3> HIDE DEF F, n, P
    <3> QED
      BY <1>3, FoldExists
  <2>3. Retraced(P, <<>>, n, F, w)
    BY <2>2 DEF Walked, Retraced
  <2>4. PICK st : Sequenced(P, <<>>, n, F, st)
    <3> HIDE DEF F, n, P
    <3> QED
      BY <1>3, <2>3, FoldSteps
  <2>5. /\ st \in [0..n -> P] /\ st[0] = <<>>
        /\ \A k \in 1..n : st[k] = st[k - 1] \o seqs[k]
    <3>1. \A k \in 1..n : k - 1 \in 0..n
      BY <1>1
    <3> HIDE DEF P
    <3> QED
      BY <2>4, <3>1 DEF Sequenced
  <2>6. st[1] = seqs[1] /\ 1 \in 1..n
    <3>1. 1 \in 1..n /\ 1 - 1 = 0
      BY <1>1, <1>5
    <3>2. st[1] = <<>> \o seqs[1]
      BY <2>5, <3>1
    <3> QED
      BY <1>1, <3>1, <3>2, ConcatEmptySeq
  <2>7. iter = body(iter)
    <3> DEFINE u == [i \in 1..n |-> st[i]]
    <3>1. ASSUME NEW i \in 1..n
          PROVE  u[i] = IF i = 1 THEN seqs[i] ELSE u[i - 1] \o seqs[i]
      <4>1. i # 1 => i - 1 \in 1..n
        BY <1>1
      <4> QED
        BY <2>5, <2>6, <4>1
    <3>2. u = body(u)
      BY <3>1
    <3> HIDE DEF body
    <3> QED
      BY <3>2
  <2>8. \A i \in 1..n : iter[i] = IF i = 1 THEN seqs[i] ELSE iter[i - 1] \o seqs[i]
    <3> HIDE DEF iter
    <3> QED
      BY <2>7
  <2> HIDE DEF iter
  <2>9. iter[n] = st[n]
    <3> DEFINE Apart == {k \in 1..n : iter[k] # st[k]}
    <3>1. CASE Apart # {}
      <4>1. PICK k \in Apart : \A j \in Apart : k <= j
        <5>1. Apart \subseteq Nat
          OBVIOUS
        <5> HIDE DEF Apart
        <5> QED
          BY <3>1, <5>1, LeastNumber
      <4>2. k # 1
        BY <2>6, <2>8, <4>1
      <4>3. k - 1 \in 1..n /\ k \in 1..n
        BY <1>1, <4>1, <4>2
      <4>4. iter[k - 1] = st[k - 1]
        BY <4>1, <4>3
      <4> QED
        BY <2>5, <2>8, <4>1, <4>2, <4>3, <4>4
    <3>2. n \in 1..n
      BY <1>1, <1>5
    <3> QED
      BY <3>1, <3>2
  <2>10. Flattened(T, seqs, st)
    BY <2>1, <2>5, <2>9 DEF Flattened
  <2> QED
    BY <2>10
<1> QED
  BY <1>4, <1>5
=============================================================================
