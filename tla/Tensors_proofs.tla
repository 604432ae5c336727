---------------------------- MODULE Tensors_proofs ----------------------------
(*****************************************************************************)
(* What the operators of Tensors answer, entry by entry, for tensors of      *)
(* every rank and every sizes: which coordinates there are, the place of     *)
(* each in row-major order, and where each operator finds the entry it puts  *)
(* there.                                                                    *)
(*****************************************************************************)
EXTENDS NxOperations, SequenceTheorems, WellFoundedInduction, TLAPS

-----------------------------------------------------------------------------
(* Induction, over sets.                                                   *)

(* A set of numbers has a least element.                                   *)
LEMMA LeastNumber ==
  ASSUME NEW T \in SUBSET Nat, T # {}
  PROVE  \E x \in T : \A y \in T : x <= y
<1> DEFINE R == OpToRel(<, Nat)
<1>1. IsWellFoundedOn(R, Nat)
  BY NatLessThanWellFounded
<1>2. \A x, y \in Nat : x < y => <<x, y>> \in R
  BY DEF OpToRel
<1> HIDE DEF R
<1>3. PICK x \in T : \A y \in T : ~ (<<y, x>> \in R)
  BY <1>1, WFMin
<1>4. \A y \in T : ~(y < x)
  BY <1>2, <1>3
<1> QED
  BY <1>4

(* What holds first, and from each number to the next, holds up to n.      *)
LEMMA UpTo ==
  ASSUME NEW n \in Nat, NEW A, 0 \in A,
         \A i \in 0 .. n : i \in A /\ i < n => i + 1 \in A
  PROVE  0 .. n \subseteq A
<1> DEFINE T == (0 .. n) \ A
<1> SUFFICES ASSUME T # {} PROVE FALSE
  OBVIOUS
<1>1. T \in SUBSET Nat
  OBVIOUS
<1> HIDE DEF T
<1>2. PICK x \in T : \A y \in T : x <= y
  BY <1>1, LeastNumber
<1>3. x \in 0 .. n /\ x \notin A /\ x # 0
  BY <1>2 DEF T
<1>4. x - 1 \in 0 .. n /\ x - 1 \notin T /\ x - 1 < n
  BY <1>1, <1>2, <1>3
<1>5. x - 1 \in A
  BY <1>4 DEF T
<1> QED
  BY <1>3, <1>4, <1>5

-----------------------------------------------------------------------------
(* Folds.                                                                  *)

(* A set of indices has a greatest.                                        *)
LEMMA MaxIs ==
  ASSUME NEW n \in Nat, NEW s \in SUBSET (1 .. n), s # {}
  PROVE  Max(s) \in s /\ \A y \in s : y <= Max(s)
<1> DEFINE T == {m \in Nat : n - m \in s}
<1>0. PICK z0 \in s : TRUE
  OBVIOUS
<1>1. T \in SUBSET Nat /\ n - z0 \in T
  OBVIOUS
<1>2. PICK x \in T : \A y \in T : x <= y
  <2> HIDE DEF T
  <2> QED
    BY ONLY <1>1, LeastNumber
<1>3. n - x \in s /\ \A y \in s : n - y \in T
  OBVIOUS
<1>4. ASSUME NEW y \in s PROVE y <= n - x
  <2>1. y \in Int /\ x \in Nat /\ x <= n - y
    BY <1>2, <1>3
  <2> HIDE DEF T
  <2> QED
    BY ONLY <2>1, n \in Nat
<1>6. \E m \in s : \A y \in s : m >= y
  BY <1>3, <1>4
<1>7. Max(s) \in s /\ \A y \in s : Max(s) >= y
  BY ONLY <1>6, Zenon DEF Max
<1> QED
  BY <1>7

(* What is left below the greatest.                                        *)
LEMMA BelowMax ==
  ASSUME NEW n \in Nat, NEW s \in SUBSET (1 .. n + 1), s # {}
  PROVE  Max(s) \in 1 .. n + 1 /\ s \ {Max(s)} \in SUBSET (1 .. n)
<1>1. Max(s) \in s /\ \A y \in s : y <= Max(s)
  BY n + 1 \in Nat, MaxIs
<1>2. ASSUME NEW y \in s, y # Max(s) PROVE y \in 1 .. n
  <2>1. y \in 1 .. n + 1 /\ Max(s) \in 1 .. n + 1 /\ y <= Max(s)
    BY <1>1
  <2> QED
    BY ONLY <1>2, <2>1, n \in Nat
<1> QED
  BY <1>1, <1>2

(* Of the first indices, the last is the greatest.                         *)
LEMMA MaxOfFirst ==
  ASSUME NEW n \in Nat
  PROVE  Max(1 .. n + 1) = n + 1 /\ (1 .. n + 1) \ {n + 1} = 1 .. n
<1>1. Max(1 .. n + 1) \in 1 .. n + 1 /\ \A y \in 1 .. n + 1 : y <= Max(1 .. n + 1)
  BY n + 1 \in Nat, 1 .. n + 1 # {}, MaxIs
<1> QED
  BY <1>1

(* f is the fold of the functions of G from base, over sets of indices.    *)
Folds(f, k, V, base, G) ==
  /\ f \in [SUBSET (1 .. k) -> V]
  /\ \A s \in SUBSET (1 .. k) :
       f[s] = IF s = {} THEN base ELSE G[Max(s)][f[s \ {Max(s)}]]

(* A fold by functions has a value for every set of indices.               *)
LEMMA FoldExists ==
  ASSUME NEW n \in Nat, NEW V, NEW base \in V, NEW G \in [1 .. n -> [V -> V]]
  PROVE  \E f : Folds(f, n, V, base, G)
<1> USE DEF Folds
<1> DEFINE Q(f, k) == Folds(f, k, V, base, G)
           A == {k \in 0 .. n : \E f : Q(f, k)}
<1>1. 0 \in A
  <2> DEFINE f == [s \in SUBSET (1 .. 0) |-> base]
  <2>1. \A s \in SUBSET (1 .. 0) : s = {}
    OBVIOUS
  <2>2. Q(f, 0)
    BY <2>1
  <2> HIDE DEF f, Q
  <2>3. 0 \in 0 .. n /\ \E g : Q(g, 0)
    BY <2>2
  <2> QED
    BY <2>3
<1>2. ASSUME NEW k \in 0 .. n, k \in A, k < n PROVE k + 1 \in A
  <2>1. PICK f : Q(f, k)
    BY <1>2
  <2> DEFINE h == [s \in SUBSET (1 .. k + 1) |->
                     IF s = {} THEN base ELSE G[Max(s)][f[s \ {Max(s)}]]]
  <2>2. ASSUME NEW s \in SUBSET (1 .. k + 1), s # {}
        PROVE  Max(s) \in 1 .. n /\ s \ {Max(s)} \in SUBSET (1 .. k) 
    BY <1>2, <2>2, BelowMax
  <2>3. h \in [SUBSET (1 .. k + 1) -> V]
    <3>1. ASSUME NEW s \in SUBSET (1 .. k + 1), s # {} PROVE h[s] \in V
      <4>1. f[s \ {Max(s)}] \in V
        BY <2>1, <2>2, <3>1
      <4>2. G[Max(s)] \in [V -> V]
        BY <2>2, <3>1
      <4> QED
        BY <3>1, <4>1, <4>2
    <3> QED
      BY <3>1
  <2>4. ASSUME NEW s \in SUBSET (1 .. k)
        PROVE  s \in SUBSET (1 .. k + 1) /\ h[s] = f[s]
    <3>1. s \in SUBSET (1 .. k + 1)
      OBVIOUS
    <3>2. h[s] = IF s = {} THEN base ELSE G[Max(s)][f[s \ {Max(s)}]]
      BY ONLY <3>1
    <3> QED
      BY ONLY <2>1, <3>1, <3>2
  <2>5. \A s \in SUBSET (1 .. k + 1) :
           h[s] = IF s = {} THEN base ELSE G[Max(s)][h[s \ {Max(s)}]]
    <3> TAKE s \in SUBSET (1 .. k + 1)
    <3>1. CASE s = {}
      BY <3>1
    <3>2. CASE s # {}
      <4>1. s \ {Max(s)} \in SUBSET (1 .. k)
        BY <2>2, <3>2
      <4>2. h[s \ {Max(s)}] = f[s \ {Max(s)}]
        BY ONLY <2>4, <4>1
      <4>3. h[s] = G[Max(s)][f[s \ {Max(s)}]]
        BY <3>2
      <4> QED
        BY ONLY <3>2, <4>2, <4>3
    <3> QED
      BY <3>1, <3>2
  <2> HIDE DEF h
  <2>6. Q(h, k + 1)
    BY <2>3, <2>5
  <2> HIDE DEF Q
  <2>7. k + 1 \in 0 .. n /\ \E g : Q(g, k + 1)
    BY <1>2, <2>6
  <2> QED
    BY <2>7
<1> HIDE DEF A
<1>3. n \in A
  <2>1. 0 .. n \subseteq A
    BY ONLY <1>1, <1>2, UpTo, n \in Nat
  <2> QED
    BY <2>1
<1> QED
  BY <1>3 DEF A

(* Nor has it two.                                                         *)
LEMMA FoldSame ==
  ASSUME NEW n \in Nat, NEW f, NEW g,
         \A s \in SUBSET (1 .. n) :
            (s # {} => g[s \ {Max(s)}] = f[s \ {Max(s)}]) => g[s] = f[s]
  PROVE  g[1 .. n] = f[1 .. n]
<1> DEFINE A == {k \in 0 .. n : \A s \in SUBSET (1 .. k) : g[s] = f[s]}
<1>1. 0 \in A
  <2>1. \A s \in SUBSET (1 .. 0) : s = {} /\ s \in SUBSET (1 .. n)
    OBVIOUS
  <2>2. {} \in SUBSET (1 .. n)
    OBVIOUS
  <2>3. g[{}] = f[{}]
    BY <2>2
  <2>4. \A s \in SUBSET (1 .. 0) : g[s] = f[s]
    BY <2>1, <2>3
  <2>5. 0 \in 0 .. n
    OBVIOUS
  <2> QED
    BY ONLY <2>4, <2>5
<1>2. ASSUME NEW k \in 0 .. n, k \in A, k < n PROVE k + 1 \in A
  <2>1. ASSUME NEW s \in SUBSET (1 .. k + 1) PROVE g[s] = f[s]
    <3>1. s \in SUBSET (1 .. n)
      BY <1>2
    <3>2. s # {} => s \ {Max(s)} \in SUBSET (1 .. k)
      BY BelowMax, k \in Nat
    <3>3. s # {} => g[s \ {Max(s)}] = f[s \ {Max(s)}]
      BY <1>2, <3>2
    <3> QED
      BY <3>1, <3>3
  <2> QED
    BY <1>2, <2>1
<1> HIDE DEF A
<1>3. 0 .. n \subseteq A
  BY ONLY <1>1, <1>2, UpTo, n \in Nat
<1>4. n \in A
  BY <1>3
<1> QED
  BY <1>4 DEF A

(* w goes from base through the functions of G, one after the other.       *)
Along(w, n, V, base, G) ==
  /\ w \in [0 .. n -> V] /\ w[0] = base
  /\ \A k \in 0 .. n - 1 : w[k + 1] = G[k + 1][w[k]]

(* The fold goes along the indices from the first to the last.             *)
LEMMA FoldAlong ==
  ASSUME NEW n \in Nat, NEW V, NEW base, NEW G, NEW f, Folds(f, n, V, base, G)
  PROVE  \E w : Along(w, n, V, base, G) /\ f[1 .. n] = w[n]
<1> DEFINE w == [k \in 0 .. n |-> f[1 .. k]]
<1>1. \A k \in 0 .. n : 1 .. k \in SUBSET (1 .. n)
  OBVIOUS
<1>2. w \in [0 .. n -> V]
  BY <1>1 DEF Folds
<1>3. w[0] = base /\ f[1 .. n] = w[n]
  <2>1. 1 .. 0 = {} /\ 0 \in 0 .. n /\ n \in 0 .. n
    OBVIOUS
  <2>2. f[{}] = base
    BY DEF Folds
  <2> QED
    BY <2>1, <2>2
<1>4. ASSUME NEW k \in 0 .. n - 1 PROVE w[k + 1] = G[k + 1][w[k]]
  <2>1. k \in Nat /\ k + 1 \in 0 .. n /\ k \in 0 .. n /\ 1 .. k + 1 # {}
    OBVIOUS
  <2>2. Max(1 .. k + 1) = k + 1 /\ (1 .. k + 1) \ {k + 1} = 1 .. k
    BY ONLY <2>1, MaxOfFirst
  <2>3. f[1 .. k + 1] = G[k + 1][f[1 .. k]]
    BY <1>1, <2>1, <2>2 DEF Folds
  <2> QED
    BY <2>1, <2>3
<1> HIDE DEF w
<1>5. Along(w, n, V, base, G)
  BY <1>2, <1>3, <1>4 DEF Along
<1> QED
  BY <1>3, <1>5

-----------------------------------------------------------------------------
(* Sequences, as functions.                                                *)

(* A function on the first indices is a sequence of that length.           *)
LEMMA SeqIs ==
  ASSUME NEW n \in Nat, NEW S, NEW c \in [1 .. n -> S]
  PROVE  c \in Seq(S) /\ Len(c) = n
<1>1. c \in Seq(S)
  BY SeqDef
<1>2. Len(c) \in Nat /\ DOMAIN c = 1 .. Len(c) /\ DOMAIN c = 1 .. n
  BY <1>1, LenProperties
<1>3. Len(c) = n
  <2>1. ASSUME NEW m \in Nat, 1 .. m = 1 .. n PROVE m = n
    <3>1. m # 0 => m \in 1 .. n
      BY <2>1
    <3>2. n # 0 => n \in 1 .. m
      BY <2>1
    <3> QED
      BY <3>1, <3>2
  <2> QED
    BY <1>2, <2>1
<1> QED
  BY <1>1, <1>3

(* One more entry at the end.                                              *)
LEMMA AppendIs ==
  ASSUME NEW n \in Nat, NEW S, NEW c \in [1 .. n -> S], NEW x
  PROVE  Append(c, x) = [j \in 1 .. n + 1 |-> IF j = n + 1 THEN x ELSE c[j]]
<1>1. c \in Seq(S \cup {x}) /\ Len(c) = n /\ x \in S \cup {x}
  <2>1. c \in [1 .. n -> S \cup {x}]
    OBVIOUS
  <2> QED
    BY ONLY <2>1, n \in Nat, SeqIs
<1> DEFINE T == S \cup {x}
           d == [j \in 1 .. n + 1 |-> IF j = n + 1 THEN x ELSE c[j]]
<1>2. \A j \in 1 .. n + 1 : j # n + 1 => j \in 1 .. n
  OBVIOUS
<1>3. d \in [1 .. n + 1 -> T]
  BY <1>2
<1>4. Append(c, x) \in Seq(T) /\ Len(Append(c, x)) = n + 1
  BY ONLY <1>1, n \in Nat
<1>5. Append(c, x) \in [1 .. n + 1 -> T]
  BY ONLY <1>4, LenProperties
<1>6. ASSUME NEW j \in 1 .. n + 1 PROVE Append(c, x)[j] = d[j]
  <2>1. CASE j = n + 1
    BY ONLY <1>1, <2>1, n \in Nat, j \in 1 .. n + 1
  <2>2. CASE j # n + 1
    <3>1. j \in 1 .. n
      BY <1>2, <2>2
    <3>2. Append(c, x)[j] = c[j]
      BY ONLY <1>1, <3>1, n \in Nat
    <3> QED
      BY <3>2, <2>2
  <2> QED
    BY <2>1, <2>2
<1> HIDE DEF d, T
<1>7. Append(c, x) = d
  BY ONLY <1>3, <1>5, <1>6
<1> QED
  BY <1>7 DEF d

(* All but the last entry, and the last.                                   *)
LEMMA FrontIs ==
  ASSUME NEW n \in Nat, NEW S, NEW c \in [1 .. n + 1 -> S]
  PROVE  Front(c) = [j \in 1 .. n |-> c[j]] /\ Last(c) = c[n + 1]
<1>1. c \in Seq(S) /\ Len(c) = n + 1
  BY ONLY c \in [1 .. n + 1 -> S], n + 1 \in Nat, n \in Nat, SeqIs
<1>2. SubSeq(c, 1, n) = [j \in 1 .. n |-> c[j]]
  BY <1>1
<1> QED
  BY <1>1, <1>2 DEF Front, Last

(* A part of a sequence.                                                   *)
LEMMA SubSeqIs ==
  ASSUME NEW n \in Nat, NEW S, NEW c \in [1 .. n -> S],
         NEW a \in 1 .. n + 1, NEW b \in 0 .. n, a <= b + 1
  PROVE  SubSeq(c, a, b) = [j \in 1 .. b - a + 1 |-> c[a + j - 1]]
<1>1. c \in Seq(S) /\ Len(c) = n
  BY SeqIs
<1> QED
  BY <1>1

-----------------------------------------------------------------------------
(* Sizes, coordinates and offsets.                                         *)

(* The fold that Size is.                                                  *)
LEMMA SizeIsChosen ==
  ASSUME NEW shape, NEW f,
         f = [s \in SUBSET (DOMAIN shape) |->
                IF s = {} THEN 1 ELSE f[s \ {Max(s)}] * shape[Max(s)]]
  PROVE  \E g : /\ g = [s \in SUBSET (DOMAIN shape) |->
                          IF s = {} THEN 1 ELSE g[s \ {Max(s)}] * shape[Max(s)]]
                /\ Size(shape) = g[DOMAIN shape]
  BY ZenonT(30) DEF Size, FoldLeft, MapThenFoldSet

(* A size is the product of its axes, one after the other.                 *)
LEMMA SizeFold ==
  ASSUME NEW n \in Nat, NEW shape \in [1 .. n -> Int]
  PROVE  \E w \in [0 .. n -> Int] :
           /\ w[0] = 1 /\ Size(shape) = w[n]
           /\ \A k \in 0 .. n - 1 : w[k + 1] = w[k] * shape[k + 1]
<1> DEFINE G == [i \in 1 .. n |-> [v \in Int |-> v * shape[i]]]
<1>1. G \in [1 .. n -> [Int -> Int]]
  OBVIOUS
<1>2. \A i \in 1 .. n, v \in Int : G[i][v] = v * shape[i]
  OBVIOUS
<1> HIDE DEF G
<1>3. PICK f : Folds(f, n, Int, 1, G)
  BY ONLY <1>1, n \in Nat, 1 \in Int, FoldExists
<1>4. \A s \in SUBSET (1 .. n) :
        f[s] = IF s = {} THEN 1 ELSE f[s \ {Max(s)}] * shape[Max(s)]
  <2>1. ASSUME NEW s \in SUBSET (1 .. n), s # {}
        PROVE  f[s] = f[s \ {Max(s)}] * shape[Max(s)]
    <3>1. Max(s) \in 1 .. n /\ s \ {Max(s)} \in SUBSET (1 .. n)
      BY <2>1, MaxIs
    <3> QED
      BY <1>2, <1>3, <2>1, <3>1 DEF Folds
  <2> QED
    BY <1>3, <2>1 DEF Folds
<1>5. PICK g : /\ g = [s \in SUBSET (DOMAIN shape) |->
                         IF s = {} THEN 1 ELSE g[s \ {Max(s)}] * shape[Max(s)]]
               /\ Size(shape) = g[DOMAIN shape]
  <2>1. f = [s \in SUBSET (DOMAIN shape) |->
             IF s = {} THEN 1 ELSE f[s \ {Max(s)}] * shape[Max(s)]]
    BY <1>3, <1>4 DEF Folds
  <2> QED
    BY ONLY <2>1, SizeIsChosen
<1>6. g[1 .. n] = f[1 .. n]
  <2>1. \A s \in SUBSET (1 .. n) :
            (s # {} => g[s \ {Max(s)}] = f[s \ {Max(s)}]) => g[s] = f[s]
    BY <1>4, <1>5
  <2> QED
    BY ONLY <2>1, n \in Nat, FoldSame
<1>7. PICK w : Along(w, n, Int, 1, G) /\ f[1 .. n] = w[n]
  BY ONLY <1>3, n \in Nat, FoldAlong
<1>8. ASSUME NEW k \in 0 .. n - 1 PROVE w[k + 1] = w[k] * shape[k + 1]
  <2>1. k + 1 \in 1 .. n /\ w[k] \in Int
    BY <1>7 DEF Along
  <2> QED
    BY <1>2, <1>7, <2>1 DEF Along
<1>9. DOMAIN shape = 1 .. n
  OBVIOUS
<1> QED
  BY <1>5, <1>6, <1>7, <1>8, <1>9 DEF Along

(* The fold that SumOf is.                                                 *)
LEMMA SumIsChosen ==
  ASSUME NEW v, NEW f,
         f = [s \in SUBSET (DOMAIN v) |->
                IF s = {} THEN 0 ELSE f[s \ {Max(s)}] + v[Max(s)]]
  PROVE  \E g : /\ g = [s \in SUBSET (DOMAIN v) |->
                          IF s = {} THEN 0 ELSE g[s \ {Max(s)}] + v[Max(s)]]
                /\ SumOf(v) = g[DOMAIN v]
  BY ZenonT(30) DEF SumOf, FoldLeft, MapThenFoldSet

(* A sum is taken one term after the other.                                *)
LEMMA SumFold ==
  ASSUME NEW n \in Nat, NEW v \in [1 .. n -> Int]
  PROVE  \E w \in [0 .. n -> Int] :
           /\ w[0] = 0 /\ SumOf(v) = w[n]
           /\ \A k \in 0 .. n - 1 : w[k + 1] = w[k] + v[k + 1]
<1> DEFINE G == [i \in 1 .. n |-> [x \in Int |-> x + v[i]]]
<1>1. G \in [1 .. n -> [Int -> Int]]
  OBVIOUS
<1>2. \A i \in 1 .. n, x \in Int : G[i][x] = x + v[i]
  OBVIOUS
<1> HIDE DEF G
<1>3. PICK f : Folds(f, n, Int, 0, G)
  BY ONLY <1>1, n \in Nat, 0 \in Int, FoldExists
<1>4. \A s \in SUBSET (1 .. n) :
        f[s] = IF s = {} THEN 0 ELSE f[s \ {Max(s)}] + v[Max(s)]
  <2>1. ASSUME NEW s \in SUBSET (1 .. n), s # {}
        PROVE  f[s] = f[s \ {Max(s)}] + v[Max(s)]
    <3>1. Max(s) \in 1 .. n /\ s \ {Max(s)} \in SUBSET (1 .. n)
      BY <2>1, MaxIs
    <3> QED
      BY <1>2, <1>3, <2>1, <3>1 DEF Folds
  <2> QED
    BY <1>3, <2>1 DEF Folds
<1>5. PICK g : /\ g = [s \in SUBSET (DOMAIN v) |->
                         IF s = {} THEN 0 ELSE g[s \ {Max(s)}] + v[Max(s)]]
               /\ SumOf(v) = g[DOMAIN v]
  <2>1. f = [s \in SUBSET (DOMAIN v) |->
             IF s = {} THEN 0 ELSE f[s \ {Max(s)}] + v[Max(s)]]
    BY <1>3, <1>4 DEF Folds
  <2> QED
    BY ONLY <2>1, SumIsChosen
<1>6. g[1 .. n] = f[1 .. n]
  <2>1. \A s \in SUBSET (1 .. n) :
            (s # {} => g[s \ {Max(s)}] = f[s \ {Max(s)}]) => g[s] = f[s]
    BY <1>4, <1>5
  <2> QED
    BY ONLY <2>1, n \in Nat, FoldSame
<1>7. PICK w : Along(w, n, Int, 0, G) /\ f[1 .. n] = w[n]
  BY ONLY <1>3, n \in Nat, FoldAlong
<1>8. ASSUME NEW k \in 0 .. n - 1 PROVE w[k + 1] = w[k] + v[k + 1]
  <2>1. k + 1 \in 1 .. n /\ w[k] \in Int
    BY <1>7 DEF Along
  <2> QED
    BY <1>2, <1>7, <2>1 DEF Along
<1>9. DOMAIN v = 1 .. n
  OBVIOUS
<1> QED
  BY <1>5, <1>6, <1>7, <1>8, <1>9 DEF Along

(* The fold that Offset is.                                                *)
LEMMA OffsetIsChosen ==
  ASSUME NEW shape, NEW c, NEW f,
         f = [s \in SUBSET (DOMAIN AxesOf(shape)) |->
                IF s = {} THEN 0
                ELSE f[s \ {Max(s)}] * shape[AxesOf(shape)[Max(s)]]
                        + c[AxesOf(shape)[Max(s)]]]
  PROVE  \E g : /\ g = [s \in SUBSET (DOMAIN AxesOf(shape)) |->
                          IF s = {} THEN 0
                          ELSE g[s \ {Max(s)}] * shape[AxesOf(shape)[Max(s)]]
                                  + c[AxesOf(shape)[Max(s)]]]
                /\ Offset(shape, c) = g[DOMAIN AxesOf(shape)]
  BY ZenonT(30) DEF Offset, FoldLeft, MapThenFoldSet

(* An offset is taken one axis after the other.                            *)
LEMMA OffsetFold ==
  ASSUME NEW n \in Nat, NEW shape \in [1 .. n -> Int], NEW c \in [1 .. n -> Int]
  PROVE  \E w \in [0 .. n -> Int] :
           /\ w[0] = 0 /\ Offset(shape, c) = w[n]
           /\ \A k \in 0 .. n - 1 : w[k + 1] = w[k] * shape[k + 1] + c[k + 1]
<1> DEFINE G == [i \in 1 .. n |-> [x \in Int |-> x * shape[i] + c[i]]]
           q == AxesOf(shape)
<1>1. G \in [1 .. n -> [Int -> Int]]
  OBVIOUS
<1>2. \A i \in 1 .. n, x \in Int : G[i][x] = x * shape[i] + c[i]
  OBVIOUS
<1> HIDE DEF G
<1>3. PICK f : Folds(f, n, Int, 0, G)
  BY ONLY <1>1, n \in Nat, 0 \in Int, FoldExists
<1>0. DOMAIN q = 1 .. n /\ \A a \in 1 .. n : q[a] = a
  BY DEF AxesOf
<1>4. \A s \in SUBSET (1 .. n) :
        f[s] = IF s = {} THEN 0
               ELSE f[s \ {Max(s)}] * shape[q[Max(s)]] + c[q[Max(s)]]
  <2>1. ASSUME NEW s \in SUBSET (1 .. n), s # {}
        PROVE  f[s] = f[s \ {Max(s)}] * shape[q[Max(s)]] + c[q[Max(s)]]
    <3>1. Max(s) \in 1 .. n /\ s \ {Max(s)} \in SUBSET (1 .. n)
      BY <2>1, MaxIs
    <3>2. q[Max(s)] = Max(s)
      BY <3>1, <1>0
    <3> HIDE DEF q
    <3> QED
      BY <1>2, <1>3, <2>1, <3>1, <3>2 DEF Folds
  <2> QED
    BY <1>3, <2>1 DEF Folds
<1>5. PICK g : /\ g = [s \in SUBSET (DOMAIN q) |->
                         IF s = {} THEN 0
                         ELSE g[s \ {Max(s)}] * shape[q[Max(s)]] + c[q[Max(s)]]]
               /\ Offset(shape, c) = g[DOMAIN q]
  <2>1. f = [s \in SUBSET (DOMAIN q) |->
               IF s = {} THEN 0
               ELSE f[s \ {Max(s)}] * shape[q[Max(s)]] + c[q[Max(s)]]]
    <3> HIDE DEF q
    <3> QED
      BY <1>0, <1>3, <1>4 DEF Folds
  <2> QED
    BY ONLY <2>1, OffsetIsChosen, Zenon
<1> HIDE DEF q
<1>6. g[1 .. n] = f[1 .. n]
  <2>1. \A s \in SUBSET (1 .. n) :
            (s # {} => g[s \ {Max(s)}] = f[s \ {Max(s)}]) => g[s] = f[s]
    BY <1>0, <1>4, <1>5
  <2> QED
    BY ONLY <2>1, n \in Nat, FoldSame
<1>7. PICK w : Along(w, n, Int, 0, G) /\ f[1 .. n] = w[n]
  BY ONLY <1>3, n \in Nat, FoldAlong
<1>8. ASSUME NEW k \in 0 .. n - 1 PROVE w[k + 1] = w[k] * shape[k + 1] + c[k + 1]
  <2>1. k + 1 \in 1 .. n /\ w[k] \in Int
    BY <1>7 DEF Along
  <2> QED
    BY <1>2, <1>7, <2>1 DEF Along
<1> QED
  <2>1. w \in [0 .. n -> Int] /\ w[0] = 0
    BY <1>7 DEF Along
  <2>2. Offset(shape, c) = w[n]
    BY <1>0, <1>5, <1>6, <1>7
  <2> QED
    BY <1>8, <2>1, <2>2

(* The fold that Coords is.                                                *)
LEMMA CoordsIsChosen ==
  ASSUME NEW shape, NEW f,
         f = [s \in SUBSET (DOMAIN shape) |->
                IF s = {} THEN {<<>>} ELSE Extended(f[s \ {Max(s)}], shape[Max(s)])]
  PROVE  \E g : /\ g = [s \in SUBSET (DOMAIN shape) |->
                          IF s = {} THEN {<<>>}
                          ELSE Extended(g[s \ {Max(s)}], shape[Max(s)])]
                /\ Coords(shape) = g[DOMAIN shape]
  BY ZenonT(30) DEF Coords, FoldLeft, MapThenFoldSet

(* What has one more axis.                                                 *)
LEMMA ExtendedIs ==
  ASSUME NEW cs, NEW d \in Int, NEW x
  PROVE  x \in Extended(cs, d) <=> \E c \in cs, i \in 0 .. (d - 1) : x = Append(c, i)
  BY DEF Extended

(* Coordinates are extended axis by axis.                                  *)
LEMMA CoordsFold ==
  ASSUME NEW n \in Nat, NEW shape \in [1 .. n -> Nat]
  PROVE  \E w : /\ w[0] = {<<>>} /\ Coords(shape) = w[n]
                /\ \A k \in 0 .. n - 1 : w[k + 1] = Extended(w[k], shape[k + 1])
<1> DEFINE V == SUBSET Seq(Nat)
           G == [i \in 1 .. n |-> [x \in V |-> Extended(x, shape[i])]]
<1>1. G \in [1 .. n -> [V -> V]]
  <2>1. ASSUME NEW i \in 1 .. n, NEW x \in V PROVE Extended(x, shape[i]) \in V
    <3>1. ASSUME NEW c \in x, NEW j \in 0 .. (shape[i] - 1)
          PROVE  Append(c, j) \in Seq(Nat)
      OBVIOUS
    <3>2. Extended(x, shape[i]) \subseteq Seq(Nat)
      BY SMTT(30), <3>1, shape[i] \in Int, ExtendedIs
    <3> QED
      BY ONLY <3>2
  <2> QED
    BY <2>1
<1>2. \A i \in 1 .. n, x \in V : G[i][x] = Extended(x, shape[i])
  OBVIOUS
<1>0. {<<>>} \in V
  OBVIOUS
<1> HIDE DEF G, V
<1>3. PICK f : Folds(f, n, V, {<<>>}, G)
  BY ONLY <1>0, <1>1, n \in Nat, FoldExists
<1>4. \A s \in SUBSET (1 .. n) :
        f[s] = IF s = {} THEN {<<>>} ELSE Extended(f[s \ {Max(s)}], shape[Max(s)])
  <2>1. ASSUME NEW s \in SUBSET (1 .. n), s # {}
        PROVE  f[s] = Extended(f[s \ {Max(s)}], shape[Max(s)])
    <3>1. Max(s) \in 1 .. n /\ s \ {Max(s)} \in SUBSET (1 .. n)
      BY <2>1, MaxIs
    <3> QED
      BY <1>2, <1>3, <2>1, <3>1 DEF Folds
  <2> QED
    BY <1>3, <2>1 DEF Folds
<1>5. PICK g : /\ g = [s \in SUBSET (DOMAIN shape) |->
                         IF s = {} THEN {<<>>} ELSE Extended(g[s \ {Max(s)}], shape[Max(s)])]
               /\ Coords(shape) = g[DOMAIN shape]
  <2>1. f = [s \in SUBSET (DOMAIN shape) |->
             IF s = {} THEN {<<>>} ELSE Extended(f[s \ {Max(s)}], shape[Max(s)])]
    BY <1>3, <1>4 DEF Folds
  <2> QED
    BY ONLY <2>1, CoordsIsChosen
<1>6. g[1 .. n] = f[1 .. n]
  <2>1. \A s \in SUBSET (1 .. n) :
            (s # {} => g[s \ {Max(s)}] = f[s \ {Max(s)}]) => g[s] = f[s]
    BY <1>4, <1>5
  <2> QED
    BY ONLY <2>1, n \in Nat, FoldSame
<1>7. PICK w : Along(w, n, V, {<<>>}, G) /\ f[1 .. n] = w[n]
  BY ONLY <1>3, n \in Nat, FoldAlong
<1>8. ASSUME NEW k \in 0 .. n - 1 PROVE w[k + 1] = Extended(w[k], shape[k + 1])
  <2>1. k + 1 \in 1 .. n /\ w[k] \in V
    BY <1>7 DEF Along
  <2> QED
    BY <1>2, <1>7, <2>1 DEF Along
<1>9. DOMAIN shape = 1 .. n
  OBVIOUS
<1>10. w[0] = {<<>>} /\ Coords(shape) = w[n]
  BY <1>5, <1>6, <1>7, <1>9 DEF Along
<1> QED
  BY ONLY <1>8, <1>10

(* The places of the first k axes.                                         *)
Cells(shape, k) == {c \in [1 .. k -> Nat] : \A a \in 1 .. k : c[a] < shape[a]}

(* One more axis.                                                          *)
LEMMA CellsExtended ==
  ASSUME NEW n \in Nat, NEW shape \in [1 .. n -> Nat], NEW k \in 0 .. n - 1
  PROVE  Extended(Cells(shape, k), shape[k + 1]) = Cells(shape, k + 1)
<1>0. k \in Nat /\ k + 1 \in 1 .. n /\ shape[k + 1] \in Nat
  OBVIOUS
<1>1. ASSUME NEW c \in Cells(shape, k), NEW i \in 0 .. (shape[k + 1] - 1)
      PROVE  Append(c, i) \in Cells(shape, k + 1)
  <2>1. c \in [1 .. k -> Nat] /\ \A a \in 1 .. k : c[a] < shape[a]
    BY DEF Cells
  <2>2. Append(c, i) = [j \in 1 .. k + 1 |-> IF j = k + 1 THEN i ELSE c[j]]
    <3> HIDE DEF Cells
    <3>1. k \in Nat /\ c \in [1 .. k -> Nat]
      BY <1>0, <2>1
    <3>2. \A y : Append(c, y) = [j \in 1 .. k + 1 |-> IF j = k + 1 THEN y ELSE c[j]]
      BY ONLY <3>1, AppendIs
    <3> QED
      BY <3>2
  <2>3. \A j \in 1 .. k + 1 : j # k + 1 => j \in 1 .. k
    BY <1>0
  <2> QED
    BY <1>0, <2>1, <2>2, <2>3 DEF Cells
<1>2. ASSUME NEW c \in Cells(shape, k + 1)
      PROVE  \E d \in Cells(shape, k), i \in 0 .. (shape[k + 1] - 1) : c = Append(d, i)
  <2> DEFINE d == [j \in 1 .. k |-> c[j]]
  <2>1. c \in [1 .. k + 1 -> Nat] /\ \A a \in 1 .. k + 1 : c[a] < shape[a]
    BY DEF Cells
  <2>2. \A j \in 1 .. k : j \in 1 .. k + 1
    BY <1>0
  <2>3. d \in [1 .. k -> Nat] /\ \A j \in 1 .. k : d[j] = c[j]
    BY <2>1, <2>2
  <2>4. d \in Cells(shape, k)
    BY <2>1, <2>2, <2>3 DEF Cells
  <2>5. c[k + 1] \in 0 .. (shape[k + 1] - 1)
    BY <1>0, <2>1
  <2> HIDE DEF d
  <2>6. Append(d, c[k + 1]) = [j \in 1 .. k + 1 |-> IF j = k + 1 THEN c[k + 1] ELSE d[j]]
    BY <1>0, <2>3, AppendIs
  <2>7. \A j \in 1 .. k + 1 : j # k + 1 => j \in 1 .. k
    BY <1>0
  <2>8. Append(d, c[k + 1]) = c
    BY <2>1, <2>3, <2>6, <2>7
  <2> QED
    BY <2>4, <2>5, <2>8
<1>3. Extended(Cells(shape, k), shape[k + 1]) \subseteq Cells(shape, k + 1)
  <2> SUFFICES ASSUME NEW x \in Extended(Cells(shape, k), shape[k + 1])
               PROVE  x \in Cells(shape, k + 1)
    OBVIOUS
  <2>1. shape[k + 1] \in Int
    BY <1>0
  <2>2. PICK c \in Cells(shape, k), i \in 0 .. (shape[k + 1] - 1) : x = Append(c, i)
    BY ONLY <2>1, x \in Extended(Cells(shape, k), shape[k + 1]), ExtendedIs
  <2> QED
    BY <1>1, <2>2
<1>4. Cells(shape, k + 1) \subseteq Extended(Cells(shape, k), shape[k + 1])
  BY <1>2, ExtendedIs
<1> QED
  BY ONLY <1>3, <1>4

(* The coordinates of a shape are the places below it.                     *)
LEMMA CoordsAre ==
  ASSUME NEW n \in Nat, NEW shape \in [1 .. n -> Nat]
  PROVE  Coords(shape) = Cells(shape, n)
<1>1. PICK w : /\ w[0] = {<<>>} /\ Coords(shape) = w[n]
               /\ \A k \in 0 .. n - 1 : w[k + 1] = Extended(w[k], shape[k + 1])
  BY CoordsFold
<1> DEFINE A == {k \in 0 .. n : w[k] = Cells(shape, k)}
<1>2. 0 \in A
  <2>1. ASSUME NEW c \in [1 .. 0 -> Nat] PROVE c = <<>>
    <3>1. c \in Seq(Nat) /\ Len(c) = 0
      BY 0 \in Nat, SeqIs
    <3> QED
      BY ONLY <3>1, EmptySeq
  <2>2. <<>> \in [1 .. 0 -> Nat]
    <3>1. <<>> \in Seq(Nat) /\ Len(<<>>) = 0
      BY ONLY EmptySeq
    <3> QED
      BY ONLY <3>1, LenProperties
  <2>3. Cells(shape, 0) = {<<>>}
    <3>1. Cells(shape, 0) \subseteq {<<>>}
      BY <2>1 DEF Cells
    <3>2. \A a \in 1 .. 0 : FALSE
      OBVIOUS
    <3>3. <<>> \in Cells(shape, 0)
      BY ONLY <2>2, <3>2 DEF Cells
    <3> QED
      BY ONLY <3>1, <3>3
  <2>4. 0 \in 0 .. n
    OBVIOUS
  <2> QED
    BY <1>1, <2>3, <2>4
<1>3. ASSUME NEW k \in 0 .. n, k \in A, k < n PROVE k + 1 \in A
  <2>1. k \in 0 .. n - 1 /\ k + 1 \in 0 .. n
    BY <1>3
  <2> QED
    BY <1>1, <1>3, <2>1, CellsExtended
<1> HIDE DEF A
<1>4. 0 .. n \subseteq A
  BY ONLY <1>2, <1>3, UpTo, n \in Nat
<1>5. n \in A
  BY <1>4
<1> QED
  BY <1>1, <1>5 DEF A

-----------------------------------------------------------------------------
(* Division.                                                               *)

(* What division leaves.                                                   *)
LEMMA DivMod ==
  ASSUME NEW a \in Int, NEW b \in Nat \ {0}
  PROVE  /\ a \div b \in Int /\ a % b \in 0 .. b - 1
         /\ a = (a \div b) * b + (a % b)
  OBVIOUS

(* A product is monotonic.                                                 *)
LEMMA TimesMonotonic ==
  ASSUME NEW a \in Int, NEW b \in Int, a <= b, NEW c \in Nat
  PROVE  a * c <= b * c
  OBVIOUS

(* A product of three.                                                     *)
LEMMA TimesAssociative ==
  ASSUME NEW a \in Int, NEW b \in Int, NEW c \in Int
  PROVE  (a * b) * c = a * (b * c)
  OBVIOUS

(* The quotient is the number whose multiples surround the dividend.       *)
LEMMA DivIs ==
  ASSUME NEW a \in Int, NEW b \in Nat \ {0}, NEW q \in Int, q * b <= a, a < (q + 1) * b
  PROVE  a \div b = q
<1> DEFINE p == a \div b
           r == a % b
<1>1. p \in Int /\ r \in 0 .. b - 1 /\ a = p * b + r
  BY DivMod
<1> HIDE DEF p, r
<1>2. ~(p <= q - 1)
  <2> SUFFICES ASSUME p <= q - 1 PROVE FALSE
    OBVIOUS
  <2>1. (p + 1) * b <= q * b
    BY <1>1, TimesMonotonic
  <2>2. (p + 1) * b = p * b + b
    BY <1>1
  <2> QED
    BY <1>1, <2>1, <2>2
<1>3. ~(q + 1 <= p)
  <2> SUFFICES ASSUME q + 1 <= p PROVE FALSE
    OBVIOUS
  <2>1. (q + 1) * b <= p * b
    BY <1>1, TimesMonotonic
  <2> QED
    BY <1>1, <2>1
<1>4. p = q
  BY <1>1, <1>2, <1>3
<1> QED
  BY <1>4 DEF p

(* A remainder.                                                            *)
LEMMA ModIs ==
  ASSUME NEW b \in Nat \ {0}, NEW q \in Int, NEW c \in 0 .. b - 1
  PROVE  (q * b + c) % b = c /\ (q * b + c) \div b = q
<1> DEFINE a == q * b + c
<1>1. a \in Int /\ q * b <= a /\ a < (q + 1) * b
  <2>1. (q + 1) * b = q * b + b /\ q * b \in Int
    OBVIOUS
  <2> QED
    BY <2>1
<1>2. a = q * b + c
  OBVIOUS
<1> HIDE DEF a
<1>3. a \div b = q
  BY <1>1, DivIs
<1>4. a = q * b + (a % b) /\ a % b \in Int /\ q * b \in Int
  <2>1. a \div b \in Int /\ a % b \in 0 .. b - 1 /\ a = (a \div b) * b + (a % b)
    BY <1>1, DivMod
  <2> QED
    BY <1>3, <2>1
<1>5. a % b = c
  BY <1>2, <1>4
<1> QED
  BY <1>3, <1>5 DEF a

(* Division by a product.                                                  *)
LEMMA DivDiv ==
  ASSUME NEW m \in Int, NEW s \in Nat \ {0}, NEW t \in Nat \ {0}
  PROVE  m \div (s * t) = (m \div t) \div s
<1> DEFINE q == m \div t
           p == q \div s
<1>1. q \in Int /\ m % t \in 0 .. t - 1 /\ m = q * t + (m % t)
  BY DivMod
<1>2. p \in Int /\ q % s \in 0 .. s - 1 /\ q = p * s + (q % s)
  <2> HIDE DEF q
  <2> QED
    BY <1>1, DivMod
<1> HIDE DEF p, q
<1>3. p * (s * t) <= m
  <2>1. p * s <= q
    BY <1>2
  <2>2. (p * s) * t <= q * t
    BY <1>1, <1>2, <2>1, TimesMonotonic
  <2>3. q * t <= m
    BY <1>1
  <2>4. p * (s * t) = (p * s) * t
    BY <1>2
  <2> QED
    BY <1>1, <1>2, <2>2, <2>3, <2>4
<1>4. m < (p + 1) * (s * t)
  <2>1. q + 1 <= (p + 1) * s
    BY <1>2
  <2>2. (q + 1) * t <= ((p + 1) * s) * t
    BY <1>1, <1>2, <2>1, TimesMonotonic
  <2>3. m < (q + 1) * t
    BY <1>1
  <2>4. (p + 1) * (s * t) = ((p + 1) * s) * t
    BY <1>2
  <2> QED
    BY <1>1, <1>2, <2>2, <2>3, <2>4
<1>5. s * t \in Nat \ {0}
  OBVIOUS
<1>6. m \div (s * t) = p
  BY ONLY <1>2, <1>3, <1>4, <1>5, m \in Int, DivIs
<1> QED
  BY <1>6 DEF p, q

-----------------------------------------------------------------------------
(* Places and positions.                                                   *)

(* The first axis of a size.                                               *)
LEMMA SizeFront ==
  ASSUME NEW m \in Nat, NEW s \in [1 .. m + 1 -> Int], NEW r \in [1 .. m -> Int],
         \A j \in 1 .. m : r[j] = s[j + 1]
  PROVE  Size(s) = s[1] * Size(r)
<1>1. PICK w \in [0 .. m + 1 -> Int] :
         /\ w[0] = 1 /\ Size(s) = w[m + 1]
         /\ \A k \in 0 .. m : w[k + 1] = w[k] * s[k + 1]
  <2> DEFINE N == m + 1
  <2>1. N \in Nat /\ 0 .. N - 1 = 0 .. m
    OBVIOUS
  <2>2. s \in [1 .. N -> Int]
    OBVIOUS
  <2> HIDE DEF N
  <2>3. \E w \in [0 .. N -> Int] :
         /\ w[0] = 1 /\ Size(s) = w[N]
         /\ \A k \in 0 .. N - 1 : w[k + 1] = w[k] * s[k + 1]
    BY ONLY <2>1, <2>2, SizeFold
  <2> QED
    BY <2>1, <2>3 DEF N
<1>2. PICK v \in [0 .. m -> Int] :
         /\ v[0] = 1 /\ Size(r) = v[m]
         /\ \A k \in 0 .. m - 1 : v[k + 1] = v[k] * r[k + 1]
  BY SizeFold
<1> DEFINE A == {k \in 0 .. m : w[k + 1] = s[1] * v[k]}
<1>3. 0 \in A
  <2>1. 0 \in 0 .. m /\ 0 + 1 = 1 /\ s[1] \in Int
    OBVIOUS
  <2> QED
    BY <1>1, <1>2, <2>1
<1>4. ASSUME NEW k \in 0 .. m, k \in A, k < m PROVE k + 1 \in A
  <2>1. k \in 0 .. m - 1 /\ k + 1 \in 0 .. m /\ k + 1 \in 1 .. m /\ 1 \in 1 .. m + 1
    BY <1>4
  <2>2. w[(k + 1) + 1] = w[k + 1] * s[(k + 1) + 1]
    BY <1>1, <2>1
  <2>3. v[k + 1] = v[k] * r[k + 1] /\ r[k + 1] = s[(k + 1) + 1]
    BY <1>2, <2>1
  <2>4. w[k + 1] = s[1] * v[k]
    BY <1>4
  <2>5. v[k] \in Int /\ r[k + 1] \in Int /\ s[1] \in Int
    BY <2>1
  <2>6. (s[1] * v[k]) * r[k + 1] = s[1] * (v[k] * r[k + 1])
    BY ONLY <2>5, TimesAssociative
  <2>7. w[(k + 1) + 1] = s[1] * v[k + 1]
    BY ONLY <2>2, <2>3, <2>4, <2>6
  <2> QED
    BY <2>1, <2>7
<1> HIDE DEF A
<1>5. 0 .. m \subseteq A
  BY ONLY <1>3, <1>4, UpTo, m \in Nat
<1>6. m \in A
  BY <1>5
<1> QED
  BY <1>1, <1>2, <1>6 DEF A

(* The last axis of a size.                                                *)
LEMMA SizeLast ==
  ASSUME NEW m \in Nat, NEW s \in [1 .. m + 1 -> Int], NEW r \in [1 .. m -> Int],
         \A j \in 1 .. m : r[j] = s[j]
  PROVE  Size(s) = Size(r) * s[m + 1]
<1>1. PICK w \in [0 .. m + 1 -> Int] :
         /\ w[0] = 1 /\ Size(s) = w[m + 1]
         /\ \A k \in 0 .. m : w[k + 1] = w[k] * s[k + 1]
  <2> DEFINE N == m + 1
  <2>1. N \in Nat /\ 0 .. N - 1 = 0 .. m
    OBVIOUS
  <2>2. s \in [1 .. N -> Int]
    OBVIOUS
  <2> HIDE DEF N
  <2>3. \E w \in [0 .. N -> Int] :
         /\ w[0] = 1 /\ Size(s) = w[N]
         /\ \A k \in 0 .. N - 1 : w[k + 1] = w[k] * s[k + 1]
    BY ONLY <2>1, <2>2, SizeFold
  <2> QED
    BY <2>1, <2>3 DEF N
<1>2. PICK v \in [0 .. m -> Int] :
         /\ v[0] = 1 /\ Size(r) = v[m]
         /\ \A k \in 0 .. m - 1 : v[k + 1] = v[k] * r[k + 1]
  BY SizeFold
<1> DEFINE A == {k \in 0 .. m : w[k] = v[k]}
<1>3. 0 \in A
  BY <1>1, <1>2
<1>4. ASSUME NEW k \in 0 .. m, k \in A, k < m PROVE k + 1 \in A
  <2>1. k \in 0 .. m - 1 /\ k + 1 \in 0 .. m /\ k + 1 \in 1 .. m
    BY <1>4
  <2>2. w[k + 1] = w[k] * s[k + 1] /\ v[k + 1] = v[k] * r[k + 1] /\ r[k + 1] = s[k + 1]
    BY <1>1, <1>2, <2>1
  <2>3. w[k] = v[k]
    BY <1>4
  <2> QED
    BY <2>1, <2>2, <2>3
<1> HIDE DEF A
<1>5. 0 .. m \subseteq A
  BY ONLY <1>3, <1>4, UpTo, m \in Nat
<1>6. m \in A /\ m \in 0 .. m
  BY <1>5
<1> QED
  BY <1>1, <1>2, <1>6 DEF A

(* No tensor is empty.                                                     *)
LEMMA SizePositive ==
  ASSUME NEW n \in Nat, NEW shape \in [1 .. n -> Dims]
  PROVE  Size(shape) \in Dims
<1>0. shape \in [1 .. n -> Int]
  BY DEF Dims
<1>1. PICK w \in [0 .. n -> Int] :
         /\ w[0] = 1 /\ Size(shape) = w[n]
         /\ \A k \in 0 .. n - 1 : w[k + 1] = w[k] * shape[k + 1]
  BY <1>0, SizeFold
<1> DEFINE A == {k \in 0 .. n : w[k] \in Dims}
<1>3. 0 \in A
  BY <1>1 DEF Dims
<1>4. ASSUME NEW k \in 0 .. n, k \in A, k < n PROVE k + 1 \in A
  <2>1. k \in 0 .. n - 1 /\ k + 1 \in 0 .. n /\ k + 1 \in 1 .. n
    BY <1>4
  <2>2. w[k + 1] = w[k] * shape[k + 1] /\ w[k] \in Dims /\ shape[k + 1] \in Dims
    BY <1>1, <1>4, <2>1
  <2>3. \A x, y \in Dims : x * y \in Dims
    BY DEF Dims
  <2> QED
    BY <2>1, <2>2, <2>3
<1> HIDE DEF A
<1>5. 0 .. n \subseteq A
  BY ONLY <1>3, <1>4, UpTo, n \in Nat
<1>6. n \in A
  BY <1>5
<1> QED
  BY <1>1, <1>6 DEF A

(* The size of the axes after the first k.                                 *)
After(shape, k) == Size(SubSeq(shape, k + 1, Len(shape)))

(* Each axis counts what is after it.                                      *)
LEMMA AfterIs ==
  ASSUME NEW n \in Nat, NEW shape \in [1 .. n -> Dims]
  PROVE  /\ \A k \in 0 .. n : After(shape, k) \in Dims
         /\ After(shape, n) = 1 /\ After(shape, 0) = Size(shape)
         /\ \A k \in 0 .. n - 1 : After(shape, k) = shape[k + 1] * After(shape, k + 1)
<1> DEFINE r(k) == [j \in 1 .. n - k |-> shape[k + j]]
<1>0. Len(shape) = n
  BY SeqIs
<1>1. ASSUME NEW k \in 0 .. n
      PROVE  SubSeq(shape, k + 1, Len(shape)) = r(k) /\ r(k) \in [1 .. n - k -> Dims]
  <2>1. k + 1 \in 1 .. n + 1 /\ n \in 0 .. n /\ k + 1 <= n + 1 /\ n - (k + 1) + 1 = n - k
    OBVIOUS
  <2>2. SubSeq(shape, k + 1, n) = [j \in 1 .. n - (k + 1) + 1 |-> shape[(k + 1) + j - 1]]
    BY <2>1, SubSeqIs
  <2>3. \A j \in 1 .. n - k : (k + 1) + j - 1 = k + j /\ k + j \in 1 .. n
    OBVIOUS
  <2> QED
    BY <1>0, <2>1, <2>2, <2>3
<1>2. \A k \in 0 .. n : After(shape, k) = Size(r(k))
  BY <1>1 DEF After
<1> HIDE DEF r
<1>3. \A k \in 0 .. n : After(shape, k) \in Dims
  <2> TAKE k \in 0 .. n
  <2>1. n - k \in Nat
    OBVIOUS
  <2> QED
    BY <1>1, <1>2, <2>1, SizePositive
<1>4. ASSUME NEW k \in 0 .. n - 1
      PROVE  After(shape, k) = shape[k + 1] * After(shape, k + 1)
  <2>1. k \in 0 .. n /\ k + 1 \in 0 .. n
    OBVIOUS
  <2> DEFINE m == n - (k + 1)
  <2>2. m \in Nat /\ n - k = m + 1
    OBVIOUS
  <2> HIDE DEF m
  <2>3. r(k) \in [1 .. m + 1 -> Int] /\ r(k + 1) \in [1 .. m -> Int]
    <3>1. r(k) \in [1 .. n - k -> Dims] /\ r(k + 1) \in [1 .. m -> Dims]
      BY <1>1, <2>1 DEF m
    <3>2. r(k) \in [1 .. m + 1 -> Dims]
      BY <2>2, <3>1
    <3> QED
      BY <3>1, <3>2 DEF Dims
  <2>4. \A j \in 1 .. m : r(k + 1)[j] = r(k)[j + 1]
    BY <2>1, <2>2 DEF r, m
  <2>5. r(k)[1] = shape[k + 1]
    BY <2>2 DEF r
  <2>6. Size(r(k)) = r(k)[1] * Size(r(k + 1))
    BY ONLY <2>2, <2>3, <2>4, SizeFront
  <2> QED
    BY <1>2, <2>1, <2>5, <2>6
<1>5. After(shape, n) = 1
  <2>1. n \in 0 .. n /\ n - n = 0
    OBVIOUS
  <2>2. r(n) \in [1 .. 0 -> Int]
    BY <1>1, <2>1 DEF Dims
  <2>3. Size(r(n)) = 1
    BY ONLY <2>2, 0 \in Nat, SizeFold
  <2> QED
    BY <1>2, <2>1, <2>3
<1>6. After(shape, 0) = Size(shape)
  <2>1. r(0) = shape
    BY DEF r
  <2> QED
    BY <1>2, <2>1
<1> QED
  BY <1>3, <1>4, <1>5, <1>6

(* The position of a place is in the tensor, and gives the place back.     *)
LEMMA PlaceOfOffset ==
  ASSUME NEW n \in Nat, NEW shape \in [1 .. n -> Dims], NEW c \in Cells(shape, n)
  PROVE  /\ Offset(shape, c) \in 0 .. Size(shape) - 1
         /\ CoordAt(shape, Offset(shape, c)) = c
<1>0. /\ shape \in [1 .. n -> Int] /\ c \in [1 .. n -> Int] /\ DOMAIN shape = 1 .. n
      /\ \A a \in 1 .. n : shape[a] \in Dims /\ c[a] \in 0 .. shape[a] - 1
  BY DEF Dims, Cells
<1>1. PICK w \in [0 .. n -> Int] :
         /\ w[0] = 0 /\ Offset(shape, c) = w[n]
         /\ \A k \in 0 .. n - 1 : w[k + 1] = w[k] * shape[k + 1] + c[k + 1]
  BY ONLY <1>0, n \in Nat, OffsetFold
<1> DEFINE T(k) == After(shape, k)
           Around(k) == w[k] * T(k) <= w[n] /\ w[n] < (w[k] + 1) * T(k)
           A == {i \in 0 .. n : Around(n - i)}
<1>2. /\ \A k \in 0 .. n : T(k) \in Dims
      /\ T(n) = 1 /\ T(0) = Size(shape)
      /\ \A k \in 0 .. n - 1 : T(k) = shape[k + 1] * T(k + 1)
  BY AfterIs
<1> HIDE DEF T
<1>3. 0 \in A
  <2>1. n - 0 = n /\ n \in 0 .. n /\ 0 \in 0 .. n /\ w[n] \in Int
    OBVIOUS
  <2>2. Around(n)
    BY <1>2, <2>1
  <2> QED
    BY <2>1, <2>2
<1>4. ASSUME NEW i \in 0 .. n, i \in A, i < n PROVE i + 1 \in A
  <2> DEFINE k == n - (i + 1)
  <2>1. k \in 0 .. n - 1 /\ k + 1 = n - i /\ i + 1 \in 0 .. n /\ k + 1 \in 1 .. n
        /\ k \in 0 .. n /\ k + 1 \in 0 .. n
    BY <1>4
  <2>2. Around(k + 1)
    BY <1>4, <2>1
  <2> HIDE DEF k
  <2> DEFINE x == w[k]  y == c[k + 1]  z == shape[k + 1]  u == T(k + 1)
  <2>3. x \in Int /\ y \in 0 .. z - 1 /\ z \in Nat \ {0} /\ u \in Nat \ {0} /\ w[n] \in Int
    BY <1>0, <1>2, <2>1 DEF Dims
  <2>4. w[k + 1] = x * z + y /\ T(k) = z * u
    BY <1>1, <1>2, <2>1
  <2>5. (x * z + y) * u <= w[n] /\ w[n] < (x * z + y + 1) * u
    BY <2>2, <2>4
  <2> DEFINE p == x * z
  <2>6. p \in Int /\ (x + 1) * z = p + z
    BY <2>3
  <2>9. p * u = x * (z * u) /\ ((x + 1) * z) * u = (x + 1) * (z * u)
    <3>1. x + 1 \in Int /\ z \in Int /\ u \in Int /\ x \in Int
      BY <2>3
    <3> HIDE DEF x, z, u
    <3> QED
      BY ONLY <3>1, TimesAssociative DEF p
  <2> HIDE DEF x, y, z, u, p
  <2>7. p * u <= (p + y) * u
    <3>1. p + y \in Int /\ p <= p + y /\ u \in Nat
      BY <2>3, <2>6
    <3> QED
      BY ONLY <2>6, <3>1, TimesMonotonic
  <2>8. (p + y + 1) * u <= (p + z) * u
    <3>1. p + y + 1 \in Int /\ p + z \in Int /\ p + y + 1 <= p + z /\ u \in Nat
      BY <2>3, <2>6
    <3> QED
      BY ONLY <3>1, TimesMonotonic
  <2>10. /\ p * u \in Int /\ (p + y) * u \in Int
         /\ (p + y + 1) * u \in Int /\ (p + z) * u \in Int
    BY <2>3, <2>6
  <2>11. x * (z * u) <= w[n] /\ w[n] < (x + 1) * (z * u)
    <3>1. (p + y) * u <= w[n] /\ w[n] < (p + y + 1) * u
      BY <2>5 DEF p
    <3>2. (p + z) * u = (x + 1) * (z * u)
      BY <2>6, <2>9
    <3>3. p * u <= w[n] /\ w[n] < (p + z) * u
      BY ONLY <2>3, <2>7, <2>8, <2>10, <3>1
    <3> QED
      BY <2>9, <3>2, <3>3
  <2>12. Around(k)
    BY <2>4, <2>11 DEF x, z, u
  <2> QED
    BY <2>1, <2>12 DEF k
<1> HIDE DEF A
<1>5. 0 .. n \subseteq A
  BY ONLY <1>3, <1>4, UpTo, n \in Nat
<1>6. ASSUME NEW k \in 0 .. n PROVE Around(k)
  <2>1. n - k \in A /\ n - (n - k) = k
    BY <1>5
  <2> QED
    BY <2>1 DEF A
<1>7. Offset(shape, c) \in 0 .. Size(shape) - 1
  <2>1. Around(0) /\ T(0) \in Int /\ w[n] \in Int
    BY <1>2, <1>6 DEF Dims
  <2> QED
    BY <1>1, <1>2, <2>1
<1>8. ASSUME NEW a \in 1 .. n PROVE (w[n] \div T(a)) % shape[a] = c[a]
  <2>1. a \in 0 .. n /\ a - 1 \in 0 .. n - 1 /\ a - 1 \in 0 .. n /\ (a - 1) + 1 = a
    OBVIOUS
  <2>2. w[n] \in Int /\ w[a] \in Int /\ w[a - 1] \in Int /\ T(a) \in Nat \ {0}
        /\ shape[a] \in Nat \ {0} /\ c[a] \in 0 .. shape[a] - 1
    BY <1>0, <1>2, <2>1 DEF Dims
  <2>3. w[n] \div T(a) = w[a]
    BY <1>6, <2>1, <2>2, DivIs
  <2>4. w[a] = w[a - 1] * shape[a] + c[a]
    BY <1>1, <2>1
  <2>5. (w[a - 1] * shape[a] + c[a]) % shape[a] = c[a]
    BY ONLY <2>2, ModIs
  <2> QED
    BY <2>3, <2>4, <2>5
<1>9. CoordAt(shape, Offset(shape, c)) = [a \in 1 .. n |-> (w[n] \div T(a)) % shape[a]]
  BY <1>0, <1>1 DEF CoordAt, T, After
<1>10. CoordAt(shape, Offset(shape, c)) = [a \in 1 .. n |-> c[a]]
  BY <1>8, <1>9
<1> QED
  BY <1>0, <1>7, <1>10

(* The place at a position is in the tensor, and has that position.        *)
LEMMA OffsetOfPlace ==
  ASSUME NEW n \in Nat, NEW shape \in [1 .. n -> Dims], NEW m \in 0 .. Size(shape) - 1
  PROVE  /\ CoordAt(shape, m) \in Cells(shape, n)
         /\ Offset(shape, CoordAt(shape, m)) = m
<1> DEFINE T(k) == After(shape, k)
           e == CoordAt(shape, m)
<1>0. DOMAIN shape = 1 .. n /\ shape \in [1 .. n -> Int] /\ Size(shape) \in Nat \ {0}
  BY SizePositive DEF Dims
<1>1. e = [a \in 1 .. n |-> (m \div T(a)) % shape[a]]
  BY <1>0 DEF CoordAt, After
<1>2. /\ \A k \in 0 .. n : T(k) \in Dims
      /\ T(n) = 1 /\ T(0) = Size(shape)
      /\ \A k \in 0 .. n - 1 : T(k) = shape[k + 1] * T(k + 1)
  BY AfterIs
<1> HIDE DEF T, e
<1>3. \A k \in 0 .. n : m \div T(k) \in Int
  <2> TAKE k \in 0 .. n
  <2>1. T(k) \in Nat \ {0} /\ m \in Int
    BY <1>0, <1>2 DEF Dims
  <2> QED
    BY ONLY <2>1, DivMod
<1>4. e \in Cells(shape, n)
  <2>1. ASSUME NEW a \in 1 .. n PROVE e[a] \in 0 .. shape[a] - 1
    <3>1. m \div T(a) \in Int /\ shape[a] \in Nat \ {0}
      BY <1>3 DEF Dims
    <3> QED
      BY <1>1, <3>1, DivMod
  <2>2. \A a \in 1 .. n : shape[a] \in Nat \ {0}
    BY DEF Dims
  <2>3. \A a \in 1 .. n : e[a] \in Nat /\ e[a] < shape[a]
    BY <2>1, <2>2
  <2>4. e \in [1 .. n -> Nat]
    BY <1>1, <2>3
  <2> QED
    BY <2>3, <2>4 DEF Cells
<1>5. PICK w \in [0 .. n -> Int] :
         /\ w[0] = 0 /\ Offset(shape, e) = w[n]
         /\ \A k \in 0 .. n - 1 : w[k + 1] = w[k] * shape[k + 1] + e[k + 1]
  <2>1. e \in [1 .. n -> Int]
    BY <1>4 DEF Cells
  <2> QED
    BY ONLY <1>0, <2>1, n \in Nat, OffsetFold
<1> DEFINE A == {k \in 0 .. n : w[k] = m \div T(k)}
<1>6. 0 \in A
  <2>1. m \in Int /\ 0 * Size(shape) <= m /\ m < (0 + 1) * Size(shape)
    BY <1>0
  <2>2. m \div Size(shape) = 0
    BY <1>0, <2>1, DivIs
  <2> QED
    BY <1>2, <1>5, <2>2
<1>7. ASSUME NEW k \in 0 .. n, k \in A, k < n PROVE k + 1 \in A
  <2>1. k \in 0 .. n - 1 /\ k + 1 \in 0 .. n /\ k + 1 \in 1 .. n
    BY <1>7
  <2> DEFINE q == m \div T(k + 1)
             z == shape[k + 1]
  <2>2. q \in Int /\ z \in Nat \ {0} /\ T(k + 1) \in Nat \ {0} /\ m \in Int
    BY SMTT(30), <1>0, <1>2, <1>3, <2>1 DEF Dims
  <2>3. m \div (z * T(k + 1)) = q \div z
    BY <2>2, DivDiv
  <2>4. w[k] = q \div z
    BY <1>2, <1>7, <2>1, <2>3
  <2>5. e[k + 1] = q % z
    BY <1>1, <2>1
  <2>6. w[k + 1] = w[k] * z + e[k + 1]
    BY <1>5, <2>1
  <2> HIDE DEF q, z
  <2>7. q = (q \div z) * z + (q % z)
    BY <2>2, DivMod
  <2>8. w[k + 1] = q
    BY <2>4, <2>5, <2>6, <2>7
  <2> QED
    BY <2>1, <2>8 DEF q
<1> HIDE DEF A
<1>8. 0 .. n \subseteq A
  BY ONLY <1>6, <1>7, UpTo, n \in Nat
<1>9. n \in A
  BY <1>8
<1>10. m \div 1 = m
  BY <1>0, DivIs
<1>11. Offset(shape, e) = m
  BY <1>2, <1>5, <1>9, <1>10 DEF A
<1> QED
  BY <1>4, <1>11 DEF e

-----------------------------------------------------------------------------
(* Movement of entries.                                                    *)

(* The greater of two numbers.                                             *)
LEMMA MaxOfTwo ==
  ASSUME NEW a \in Int, NEW b \in Int
  PROVE  Max({a, b}) = (IF a >= b THEN a ELSE b)
<1> DEFINE m == IF a >= b THEN a ELSE b
<1>1. m \in {a, b} /\ \A y \in {a, b} : m >= y
  OBVIOUS
<1>2. \A x \in {a, b} : (\A y \in {a, b} : x >= y) => x = m
  OBVIOUS
<1> HIDE DEF m
<1>3. Max({a, b}) = m
  BY <1>1, <1>2 DEF Max
<1> QED
  BY <1>3 DEF m

(* The smaller of two numbers.                                             *)
LEMMA MinOfTwo ==
  ASSUME NEW a \in Int, NEW b \in Int
  PROVE  Min({a, b}) = (IF a <= b THEN a ELSE b)
<1> DEFINE m == IF a <= b THEN a ELSE b
<1>1. m \in {a, b} /\ \A y \in {a, b} : m <= y
  OBVIOUS
<1>2. \A x \in {a, b} : (\A y \in {a, b} : x <= y) => x = m
  OBVIOUS
<1> HIDE DEF m
<1>3. Min({a, b}) = m
  BY <1>1, <1>2 DEF Min
<1> QED
  BY <1>3 DEF m

(* A tensor of a shape, with a value at every place and nowhere else.      *)
Filled(t, shape, r) ==
  t.shape = shape /\ t.at = [c \in Cells(shape, r) |-> t.at[c]]

(* A shape of r axes.                                                      *)
Ranked(shape, r) == r \in Nat /\ shape \in [1 .. r -> Dims]

(* Its coordinates.                                                        *)
LEMMA RankedCells ==
  ASSUME NEW shape, NEW r, Ranked(shape, r)
  PROVE  /\ Coords(shape) = Cells(shape, r) /\ DOMAIN shape = 1 .. r /\ Len(shape) = r
         /\ \A a \in 1 .. r : shape[a] \in Nat \ {0}
         /\ \A c \in Cells(shape, r) :
               c \in [1 .. r -> Nat] /\ \A a \in 1 .. r : c[a] \in 0 .. shape[a] - 1
<1>1. r \in Nat /\ shape \in [1 .. r -> Dims]
  BY DEF Ranked
<1>2. Coords(shape) = Cells(shape, r)
  BY <1>1, CoordsAre DEF Dims
<1>3. Len(shape) = r
  BY <1>1, SeqIs
<1> QED
  BY <1>1, <1>2, <1>3 DEF Cells, Dims

(* A reshaped tensor is read at the place of the same position.            *)
Reshaped(t, m, shape, r) ==
  /\ Filled(Reshape(t, shape), shape, r)
  /\ \A c \in Cells(shape, r) :
        /\ Reshape(t, shape).at[c] = t.at[CoordAt(t.shape, Offset(shape, c))]
        /\ CoordAt(t.shape, Offset(shape, c)) \in Cells(t.shape, m)
        /\ Offset(t.shape, CoordAt(t.shape, Offset(shape, c))) = Offset(shape, c)

(* When it has the size of the tensor.                                     *)
LEMMA ReshapeIs ==
  ASSUME NEW m, NEW r, NEW t, NEW shape, Ranked(t.shape, m), Ranked(shape, r),
         Size(shape) = Size(t.shape)
  PROVE  Reshaped(t, m, shape, r)
<1>1. Coords(shape) = Cells(shape, r) /\ m \in Nat /\ r \in Nat
      /\ t.shape \in [1 .. m -> Dims] /\ shape \in [1 .. r -> Dims]
  BY RankedCells DEF Ranked
<1>2. ASSUME NEW c \in Cells(shape, r)
      PROVE  /\ CoordAt(t.shape, Offset(shape, c)) \in Cells(t.shape, m)
             /\ Offset(t.shape, CoordAt(t.shape, Offset(shape, c))) = Offset(shape, c)
  <2>1. Offset(shape, c) \in 0 .. Size(t.shape) - 1
    BY <1>1, PlaceOfOffset
  <2> QED
    BY <1>1, <2>1, OffsetOfPlace
<1>3. Reshape(t, shape).shape = shape
      /\ Reshape(t, shape).at =
            [c \in Cells(shape, r) |-> t.at[CoordAt(t.shape, Offset(shape, c))]]
  BY <1>1 DEF Reshape, Tensor
<1> QED
  BY <1>2, <1>3 DEF Filled, Reshaped

(* Axes of size one put between others, which keep their order.            *)
Widens(wide, r, dims, m, axes) ==
  /\ Ranked(wide, r) /\ Ranked(dims, m) /\ axes \in [1 .. m -> 1 .. r]
  /\ \A i, j \in 1 .. m : i < j => axes[i] < axes[j]
  /\ \A i \in 1 .. m : wide[axes[i]] = dims[i]
  /\ \A a \in 1 .. r : (\A i \in 1 .. m : axes[i] # a) => wide[a] = 1

(* They do not change the size.                                            *)
LEMMA WidenSize ==
  ASSUME NEW m \in Nat, NEW r \in Nat, NEW wide, NEW dims, NEW axes,
         Widens(wide, r, dims, m, axes)
  PROVE  Size(wide) = Size(dims)
<1>0. /\ wide \in [1 .. r -> Int] /\ dims \in [1 .. m -> Int] /\ axes \in [1 .. m -> 1 .. r]
      /\ \A i, j \in 1 .. m : i < j => axes[i] < axes[j]
      /\ \A i \in 1 .. m : wide[axes[i]] = dims[i]
      /\ \A a \in 1 .. r : (\A i \in 1 .. m : axes[i] # a) => wide[a] = 1
  BY DEF Widens, Ranked, Dims
<1>1. PICK w \in [0 .. r -> Int] :
         /\ w[0] = 1 /\ Size(wide) = w[r]
         /\ \A k \in 0 .. r - 1 : w[k + 1] = w[k] * wide[k + 1]
  BY <1>0, SizeFold
<1>2. PICK v \in [0 .. m -> Int] :
         /\ v[0] = 1 /\ Size(dims) = v[m]
         /\ \A k \in 0 .. m - 1 : v[k + 1] = v[k] * dims[k + 1]
  BY <1>0, SizeFold
<1> DEFINE Below(k, j) == \A i \in 1 .. m : axes[i] <= k <=> i <= j
           A == {k \in 0 .. r : \E j \in 0 .. m : Below(k, j) /\ w[k] = v[j]}
<1>3. 0 \in A
  BY <1>0, <1>1, <1>2
<1>4. ASSUME NEW k \in 0 .. r, k \in A, k < r PROVE k + 1 \in A
  <2>1. PICK j \in 0 .. m : Below(k, j) /\ w[k] = v[j]
    BY <1>4
  <2>2. k \in 0 .. r - 1 /\ k + 1 \in 1 .. r /\ k + 1 \in 0 .. r
    BY <1>4
  <2>3. CASE \E i \in 1 .. m : axes[i] = k + 1
    <3>1. PICK i \in 1 .. m : axes[i] = k + 1
      BY <2>3
    <3>2. i > j
      BY <2>1, <3>1
    <3>3. ~(i > j + 1)
      <4> SUFFICES ASSUME i > j + 1 PROVE FALSE
        OBVIOUS
      <4>1. j + 1 \in 1 .. m /\ axes[j + 1] < axes[i] /\ axes[j + 1] \in Int
        BY <1>0
      <4>2. axes[j + 1] <= k
        BY <3>1, <4>1
      <4> QED
        BY <2>1, <4>1, <4>2
    <3>4. i = j + 1 /\ j \in 0 .. m - 1
      BY <3>2, <3>3
    <3>5. Below(k + 1, j + 1)
      <4> TAKE x \in 1 .. m
      <4>1. axes[x] \in Int /\ axes[i] = k + 1
        BY <1>0, <3>1
      <4>2. x < i => axes[x] < axes[i]
        BY <1>0
      <4>3. i < x => axes[i] < axes[x]
        BY <1>0
      <4>4. axes[x] <= k <=> x <= j
        BY <2>1
      <4>5. x = i => axes[x] = axes[i]
        OBVIOUS
      <4> QED
        BY ONLY k \in 0 .. r, j \in 0 .. m, i \in 1 .. m, x \in 1 .. m, r \in Nat, m \in Nat,
                <3>4, <4>1, <4>2, <4>3, <4>4, <4>5
    <3>6. w[k + 1] = v[j + 1]
      BY <1>0, <1>1, <1>2, <2>1, <2>2, <3>1, <3>4
    <3>7. j + 1 \in 0 .. m
      BY <3>4
    <3> HIDE DEF Below
    <3> QED
      BY <2>2, <3>5, <3>6, <3>7
  <2>4. CASE \A i \in 1 .. m : axes[i] # k + 1
    <3>1. Below(k + 1, j)
      <4> TAKE x \in 1 .. m
      <4>1. axes[x] \in Int /\ axes[x] # k + 1
        BY <1>0, <2>4
      <4>2. axes[x] <= k <=> x <= j
        BY <2>1
      <4> QED
        BY ONLY k \in 0 .. r, j \in 0 .. m, x \in 1 .. m, r \in Nat, m \in Nat, <4>1, <4>2
    <3>2. w[k + 1] = w[k]
      <4>1. wide[k + 1] = 1
        BY <1>0, <2>2, <2>4
      <4> QED
        BY <1>1, <2>2, <4>1
    <3> QED
      BY <2>1, <2>2, <3>1, <3>2
  <2> QED
    BY <2>3, <2>4
<1> HIDE DEF A
<1>5. 0 .. r \subseteq A
  BY ONLY <1>3, <1>4, UpTo, r \in Nat
<1>6. PICK j \in 0 .. m : Below(r, j) /\ w[r] = v[j]
  BY <1>5 DEF A
<1>7. j = m
  <2> SUFFICES ASSUME j < m PROVE FALSE
    OBVIOUS
  <2>1. j + 1 \in 1 .. m /\ axes[j + 1] <= r
    BY <1>0
  <2> QED
    BY <1>6, <2>1
<1> QED
  BY <1>1, <1>2, <1>6, <1>7

(* Nor the position of a place.                                            *)
LEMMA WidenOffset ==
  ASSUME NEW m \in Nat, NEW r \in Nat, NEW wide, NEW dims, NEW axes,
         Widens(wide, r, dims, m, axes), NEW c \in Cells(wide, r),
         NEW d \in [1 .. m -> Nat], \A i \in 1 .. m : d[i] = c[axes[i]]
  PROVE  d \in Cells(dims, m) /\ Offset(wide, c) = Offset(dims, d)
<1>0. /\ wide \in [1 .. r -> Int] /\ dims \in [1 .. m -> Int] /\ axes \in [1 .. m -> 1 .. r]
      /\ \A i, j \in 1 .. m : i < j => axes[i] < axes[j]
      /\ \A i \in 1 .. m : wide[axes[i]] = dims[i]
      /\ \A a \in 1 .. r : (\A i \in 1 .. m : axes[i] # a) => wide[a] = 1
      /\ c \in [1 .. r -> Int] /\ d \in [1 .. m -> Int]
      /\ \A a \in 1 .. r : c[a] < wide[a] /\ c[a] >= 0
  BY DEF Widens, Ranked, Dims, Cells
<1>1. PICK w \in [0 .. r -> Int] :
         /\ w[0] = 0 /\ Offset(wide, c) = w[r]
         /\ \A k \in 0 .. r - 1 : w[k + 1] = w[k] * wide[k + 1] + c[k + 1]
  BY <1>0, OffsetFold
<1>2. PICK v \in [0 .. m -> Int] :
         /\ v[0] = 0 /\ Offset(dims, d) = v[m]
         /\ \A k \in 0 .. m - 1 : v[k + 1] = v[k] * dims[k + 1] + d[k + 1]
  BY <1>0, OffsetFold
<1> DEFINE Below(k, j) == \A i \in 1 .. m : axes[i] <= k <=> i <= j
           A == {k \in 0 .. r : \E j \in 0 .. m : Below(k, j) /\ w[k] = v[j]}
<1>3. 0 \in A
  BY <1>0, <1>1, <1>2
<1>4. ASSUME NEW k \in 0 .. r, k \in A, k < r PROVE k + 1 \in A
  <2>1. PICK j \in 0 .. m : Below(k, j) /\ w[k] = v[j]
    BY <1>4
  <2>2. k \in 0 .. r - 1 /\ k + 1 \in 1 .. r /\ k + 1 \in 0 .. r
    BY <1>4
  <2>3. CASE \E i \in 1 .. m : axes[i] = k + 1
    <3>1. PICK i \in 1 .. m : axes[i] = k + 1
      BY <2>3
    <3>2. i > j
      BY <2>1, <3>1
    <3>3. ~(i > j + 1)
      <4> SUFFICES ASSUME i > j + 1 PROVE FALSE
        OBVIOUS
      <4>1. j + 1 \in 1 .. m /\ axes[j + 1] < axes[i] /\ axes[j + 1] \in Int
        BY <1>0
      <4>2. axes[j + 1] <= k
        BY <3>1, <4>1
      <4> QED
        BY <2>1, <4>1, <4>2
    <3>4. i = j + 1 /\ j \in 0 .. m - 1
      BY <3>2, <3>3
    <3>5. Below(k + 1, j + 1)
      <4> TAKE x \in 1 .. m
      <4>1. axes[x] \in Int /\ axes[i] = k + 1
        BY <1>0, <3>1
      <4>2. x < i => axes[x] < axes[i]
        BY <1>0
      <4>3. i < x => axes[i] < axes[x]
        BY <1>0
      <4>4. axes[x] <= k <=> x <= j
        BY <2>1
      <4>5. x = i => axes[x] = axes[i]
        OBVIOUS
      <4> HIDE DEF A
      <4>6. CASE x < i
        BY <3>4, <4>1, <4>2, <4>4, <4>6
      <4>7. CASE x > i
        BY <3>4, <4>1, <4>3, <4>4, <4>7
      <4>8. CASE x = i
        BY <3>4, <4>1, <4>5, <4>8
      <4> QED
        BY <4>6, <4>7, <4>8
    <3>6. w[k + 1] = v[j + 1]
      <4>1. wide[k + 1] = dims[j + 1] /\ c[k + 1] = d[j + 1]
        BY SMTT(30), <1>0, <3>1, <3>4
      <4> QED
        BY <1>1, <1>2, <2>1, <2>2, <3>4, <4>1
    <3>7. j + 1 \in 0 .. m
      BY <3>4
    <3> HIDE DEF Below
    <3> QED
      BY <2>2, <3>5, <3>6, <3>7
  <2>4. CASE \A i \in 1 .. m : axes[i] # k + 1
    <3>1. Below(k + 1, j)
      <4> TAKE x \in 1 .. m
      <4>1. axes[x] \in Int /\ axes[x] # k + 1
        BY <1>0, <2>4
      <4>2. axes[x] <= k <=> x <= j
        BY <2>1
      <4> QED
        BY ONLY SMTT(30), k \in 0 .. r, j \in 0 .. m, x \in 1 .. m, r \in Nat, m \in Nat, <4>1, <4>2
    <3>2. w[k + 1] = w[k]
      <4>1. wide[k + 1] = 1 /\ c[k + 1] = 0
        BY <1>0, <2>2, <2>4
      <4> QED
        BY <1>1, <2>2, <4>1
    <3> QED
      BY <2>1, <2>2, <3>1, <3>2
  <2> QED
    BY <2>3, <2>4
<1> HIDE DEF A
<1>5. 0 .. r \subseteq A
  BY ONLY <1>3, <1>4, UpTo, r \in Nat
<1>6. PICK j \in 0 .. m : Below(r, j) /\ w[r] = v[j]
  BY <1>5 DEF A
<1>7. j = m
  <2> SUFFICES ASSUME j < m PROVE FALSE
    OBVIOUS
  <2>1. j + 1 \in 1 .. m /\ axes[j + 1] <= r
    BY <1>0
  <2> QED
    BY <1>6, <2>1
<1>8. d \in Cells(dims, m)
  BY <1>0 DEF Cells
<1> QED
  BY <1>1, <1>2, <1>6, <1>7, <1>8

(* So a tensor reshaped to more axes is read at the axes it had.           *)
Widened(t, m, wide, r, axes) ==
  /\ Filled(Reshape(t, wide), wide, r)
  /\ \A c \in Cells(wide, r) : /\ Reshape(t, wide).at[c] = t.at[Pick(c, axes)]
                               /\ Pick(c, axes) \in Cells(t.shape, m)

(* Whichever they are.                                                     *)
LEMMA WidenIs ==
  ASSUME NEW m, NEW r, NEW t, NEW wide, NEW axes,
         Widens(wide, r, t.shape, m, axes)
  PROVE  Widened(t, m, wide, r, axes)
<1>1. /\ Ranked(t.shape, m) /\ Ranked(wide, r) /\ axes \in [1 .. m -> 1 .. r]
      /\ m \in Nat /\ r \in Nat
      /\ t.shape \in [1 .. m -> Dims] /\ wide \in [1 .. r -> Dims]
  BY DEF Widens, Ranked
<1>2. Size(wide) = Size(t.shape)
  BY <1>1, WidenSize
<1>3. ASSUME NEW c \in Cells(wide, r)
      PROVE  /\ Pick(c, axes) \in Cells(t.shape, m)
             /\ CoordAt(t.shape, Offset(wide, c)) = Pick(c, axes)
  <2> DEFINE d == Pick(c, axes)
  <2>1. d \in [1 .. m -> Nat] /\ \A i \in 1 .. m : d[i] = c[axes[i]]
    BY <1>1 DEF Cells, Pick
  <2> HIDE DEF d
  <2>2. d \in Cells(t.shape, m) /\ Offset(wide, c) = Offset(t.shape, d)
    BY <1>1, <2>1, WidenOffset
  <2>3. CoordAt(t.shape, Offset(t.shape, d)) = d
    BY <1>1, <2>2, PlaceOfOffset
  <2> QED
    BY <2>2, <2>3 DEF d
<1>4. Reshaped(t, m, wide, r)
  BY ONLY <1>1, <1>2, ReshapeIs
<1> QED
  BY <1>3, <1>4 DEF Reshaped, Widened

(* A permuted tensor: each entry is the one with its coordinates on the    *)
(* axes named.                                                             *)
Permuted(t, perm, r) ==
  /\ Ranked(Pick(t.shape, perm), r)
  /\ Filled(Permute(t, perm), Pick(t.shape, perm), r)
  /\ \A c \in Cells(Pick(t.shape, perm), r) :
        \E d \in Cells(t.shape, r) : /\ \A i \in 1 .. r : d[perm[i]] = c[i]
                                     /\ Permute(t, perm).at[c] = t.at[d]

(* A transposed tensor is read at the place whose coordinates are so put.  *)
LEMMA PermuteIs ==
  ASSUME NEW r, NEW t, NEW perm, Ranked(t.shape, r), perm \in [1 .. r -> 1 .. r],
         \A i, j \in 1 .. r : perm[i] = perm[j] => i = j,
         \A a \in 1 .. r : \E i \in 1 .. r : perm[i] = a
  PROVE  Permuted(t, perm, r)
<1>0. r \in Nat /\ t.shape \in [1 .. r -> Dims] /\ DOMAIN perm = 1 .. r
  BY DEF Ranked
<1> DEFINE s == Pick(t.shape, perm)
           q == InversePerm(perm)
<1>1. s \in [1 .. r -> Dims] /\ \A i \in 1 .. r : s[i] = t.shape[perm[i]]
  BY <1>0 DEF Pick
<1>2. Ranked(s, r)
  BY <1>0, <1>1 DEF Ranked
<1> HIDE DEF s
<1>3. q \in [1 .. r -> 1 .. r] /\ \A a \in 1 .. r : perm[q[a]] = a
  <2>1. \A a \in 1 .. r : \E j \in 1 .. r : j = (CHOOSE i \in 1 .. r : perm[i] = a) /\ perm[j] = a
    OBVIOUS
  <2> QED
    BY <1>0, <2>1 DEF InversePerm
<1>4. \A i \in 1 .. r : q[perm[i]] = i
  BY <1>3
<1> HIDE DEF q
<1>5. Permute(t, perm).shape = s
      /\ Permute(t, perm).at = [c \in Cells(s, r) |-> t.at[Pick(c, q)]]
  BY <1>2, RankedCells DEF Permute, Tensor, s, q
<1>6. ASSUME NEW c \in Cells(s, r)
      PROVE  Pick(c, q) \in Cells(t.shape, r) /\ \A i \in 1 .. r : Pick(c, q)[perm[i]] = c[i]
  <2>1. c \in [1 .. r -> Nat] /\ \A i \in 1 .. r : c[i] < s[i]
    BY DEF Cells
  <2>2. Pick(c, q) \in [1 .. r -> Nat] /\ \A a \in 1 .. r : Pick(c, q)[a] = c[q[a]]
    BY <1>3, <2>1 DEF Pick
  <2>3. \A a \in 1 .. r : c[q[a]] < t.shape[a]
    <3> TAKE a \in 1 .. r
    <3>1. q[a] \in 1 .. r /\ s[q[a]] = t.shape[a]
      BY <1>1, <1>3
    <3> QED
      BY <2>1, <3>1
  <2> QED
    BY <1>4, <2>2, <2>3 DEF Cells
<1>7. Filled(Permute(t, perm), s, r)
  BY <1>5 DEF Filled
<1>8. \A c \in Cells(s, r) : Permute(t, perm).at[c] = t.at[Pick(c, q)]
  BY <1>5
<1>9. \A c \in Cells(s, r) :
         \E d \in Cells(t.shape, r) : /\ \A i \in 1 .. r : d[perm[i]] = c[i]
                                      /\ Permute(t, perm).at[c] = t.at[d]
  BY <1>6, <1>8
<1> QED
  BY <1>2, <1>7, <1>9 DEF s, Permuted

(* The place an axis of size one is stretched from.                        *)
Flat(dims, c) == [a \in DOMAIN c |-> IF dims[a] = 1 THEN 0 ELSE c[a]]

(* It is a place of the tensor.                                            *)
LEMMA FlatIs ==
  ASSUME NEW r, NEW dims, NEW shape, Ranked(dims, r), Ranked(shape, r),
         \A a \in 1 .. r : dims[a] \in {1, shape[a]},
         NEW c \in Cells(shape, r)
  PROVE  Flat(dims, c) \in Cells(dims, r)
<1>1. /\ c \in [1 .. r -> Nat] /\ \A a \in 1 .. r : c[a] \in 0 .. shape[a] - 1
      /\ \A a \in 1 .. r : shape[a] \in Nat /\ dims[a] \in Nat
  BY RankedCells
<1>2. /\ Flat(dims, c) \in [1 .. r -> Nat]
      /\ \A a \in 1 .. r : Flat(dims, c)[a] = IF dims[a] = 1 THEN 0 ELSE c[a]
  BY <1>1 DEF Flat
<1>3. \A a \in 1 .. r : Flat(dims, c)[a] < dims[a]
  BY <1>1, <1>2
<1> QED
  BY <1>2, <1>3 DEF Cells

(* An expanded tensor is read there.                                       *)
LEMMA ExpandIs ==
  ASSUME NEW r, NEW t, NEW shape, Ranked(t.shape, r), Ranked(shape, r),
         \A a \in 1 .. r : t.shape[a] \in {1, shape[a]}
  PROVE  /\ Filled(Expand(t, shape), shape, r)
         /\ \A c \in Cells(shape, r) : /\ Expand(t, shape).at[c] = t.at[Flat(t.shape, c)]
                                       /\ Flat(t.shape, c) \in Cells(t.shape, r)
<1>1. Coords(shape) = Cells(shape, r)
  BY RankedCells
<1>2. Expand(t, shape).shape = shape
      /\ Expand(t, shape).at = [c \in Cells(shape, r) |-> t.at[Flat(t.shape, c)]]
  BY <1>1 DEF Expand, Spread, Tensor, Flat
<1>3. \A c \in Cells(shape, r) : Flat(t.shape, c) \in Cells(t.shape, r)
  BY FlatIs
<1> QED
  BY <1>2, <1>3 DEF Filled

(* A tensor sent to axes of a larger shape.                                *)
Spreads(t, shape, axes, m, r) ==
  /\ Filled(Broadcast(t, shape, axes), shape, r)
  /\ \A c \in Cells(shape, r) :
        /\ Broadcast(t, shape, axes).at[c] = t.at[Flat(t.shape, Pick(c, axes))]
        /\ Flat(t.shape, Pick(c, axes)) \in Cells(t.shape, m)

(* A broadcast tensor is read at the axes it was given, stretched.         *)
LEMMA BroadcastIs ==
  ASSUME NEW m, NEW r, NEW t, NEW shape, NEW axes, Ranked(t.shape, m), Ranked(shape, r),
         axes \in [1 .. m -> 1 .. r],
         \A i, j \in 1 .. m : i < j => axes[i] < axes[j],
         \A i \in 1 .. m : t.shape[i] \in {1, shape[axes[i]]}
  PROVE  Spreads(t, shape, axes, m, r)
<1>0. /\ m \in Nat /\ r \in Nat /\ DOMAIN axes = 1 .. m /\ DOMAIN shape = 1 .. r
      /\ t.shape \in [1 .. m -> Dims] /\ shape \in [1 .. r -> Dims]
  BY DEF Ranked
<1> DEFINE wide == [a \in 1 .. r |->
               IF \E i \in 1 .. m : axes[i] = a
               THEN t.shape[CHOOSE i \in 1 .. m : axes[i] = a] ELSE 1]
<1>1. \A i, j \in 1 .. m : axes[i] = axes[j] => i = j
  <2> TAKE i, j \in 1 .. m
  <2>1. i < j => axes[i] < axes[j]
    OBVIOUS
  <2>2. j < i => axes[j] < axes[i]
    OBVIOUS
  <2>3. axes[i] \in Int /\ axes[j] \in Int
    OBVIOUS
  <2> QED
    BY <2>1, <2>2, <2>3
<1>2. ASSUME NEW i \in 1 .. m PROVE wide[axes[i]] = t.shape[i]
  <2>1. axes[CHOOSE j \in 1 .. m : axes[j] = axes[i]] = axes[i]
        /\ (CHOOSE j \in 1 .. m : axes[j] = axes[i]) \in 1 .. m
    OBVIOUS
  <2>2. (CHOOSE j \in 1 .. m : axes[j] = axes[i]) = i
    BY <1>1, <2>1
  <2> QED
    BY <2>2
<1>3. \A a \in 1 .. r : (\A i \in 1 .. m : axes[i] # a) => wide[a] = 1
  OBVIOUS
<1>4. Broadcast(t, shape, axes) = Expand(Reshape(t, wide), shape)
  BY <1>0 DEF Broadcast
<1>5. wide \in [1 .. r -> Dims]
  <2>1. \A a \in 1 .. r : wide[a] \in Dims
    <3> TAKE a \in 1 .. r
    <3>1. CASE \E i \in 1 .. m : axes[i] = a
      BY <1>0, <1>2, <3>1
    <3>2. CASE \A i \in 1 .. m : axes[i] # a
      BY <1>3, <3>2 DEF Dims
    <3> QED
      BY <3>1, <3>2
  <2> QED
    BY <2>1
<1> HIDE DEF wide
<1>6. Ranked(wide, r)
  BY <1>0, <1>5 DEF Ranked
<1>7. Widens(wide, r, t.shape, m, axes)
  BY <1>2, <1>3, <1>6 DEF Widens
<1> DEFINE u == Reshape(t, wide)
<1>8. /\ Filled(u, wide, r)
      /\ \A c \in Cells(wide, r) : u.at[c] = t.at[Pick(c, axes)]
                                   /\ Pick(c, axes) \in Cells(t.shape, m)
  BY <1>7, WidenIs DEF Widened
<1> HIDE DEF u
<1>9. u.shape = wide
  BY <1>8 DEF Filled
<1>10. \A a \in 1 .. r : u.shape[a] \in {1, shape[a]}
  <2> TAKE a \in 1 .. r
  <2>1. CASE \E i \in 1 .. m : axes[i] = a
    BY <1>2, <1>9, <2>1
  <2>2. CASE \A i \in 1 .. m : axes[i] # a
    BY <1>3, <1>9, <2>2
  <2> QED
    BY <2>1, <2>2
<1>11. /\ Filled(Expand(u, shape), shape, r)
       /\ \A c \in Cells(shape, r) : /\ Expand(u, shape).at[c] = u.at[Flat(wide, c)]
                                     /\ Flat(wide, c) \in Cells(wide, r)
  <2>1. Ranked(u.shape, r)
    BY <1>6, <1>9
  <2>2. /\ Filled(Expand(u, shape), shape, r)
        /\ \A c \in Cells(shape, r) : /\ Expand(u, shape).at[c] = u.at[Flat(u.shape, c)]
                                      /\ Flat(u.shape, c) \in Cells(u.shape, r)
    BY ONLY <1>10, <2>1, Ranked(shape, r), ExpandIs
  <2> QED
    BY <1>9, <2>2
<1>12. ASSUME NEW c \in Cells(shape, r) PROVE Pick(Flat(wide, c), axes) = Flat(t.shape, Pick(c, axes))
  <2>1. c \in [1 .. r -> Nat] /\ DOMAIN c = 1 .. r
    BY DEF Cells
  <2>2. Pick(c, axes) = [i \in 1 .. m |-> c[axes[i]]]
    BY <1>0 DEF Pick
  <2>3. Flat(wide, c) = [a \in 1 .. r |-> IF wide[a] = 1 THEN 0 ELSE c[a]]
    BY <2>1 DEF Flat
  <2>4. Pick(Flat(wide, c), axes) = [i \in 1 .. m |-> Flat(wide, c)[axes[i]]]
    BY <1>0 DEF Pick
  <2>5. Flat(t.shape, Pick(c, axes)) =
           [i \in 1 .. m |-> IF t.shape[i] = 1 THEN 0 ELSE Pick(c, axes)[i]]
    BY <2>2 DEF Flat
  <2>6. \A i \in 1 .. m : Flat(wide, c)[axes[i]] = IF t.shape[i] = 1 THEN 0 ELSE Pick(c, axes)[i]
    BY <1>2, <2>2, <2>3
  <2> QED
    BY <2>4, <2>5, <2>6
<1>13. \A c \in Cells(shape, r) :
          /\ Broadcast(t, shape, axes).at[c] = t.at[Flat(t.shape, Pick(c, axes))]
          /\ Flat(t.shape, Pick(c, axes)) \in Cells(t.shape, m)
  BY <1>4, <1>8, <1>11, <1>12 DEF u
<1> QED
  BY <1>4, <1>11, <1>13 DEF u, Spreads

(* A flipped tensor: each entry is the one counted back from the end of    *)
(* the axes named.                                                         *)
Flipped(t, axes, r) ==
  /\ Filled(Flip(t, axes), t.shape, r)
  /\ \A c \in Cells(t.shape, r) : \E d \in Cells(t.shape, r) :
        /\ Flip(t, axes).at[c] = t.at[d]
        /\ \A a \in 1 .. r : IF a \in axes THEN d[a] + c[a] = t.shape[a] - 1
                                           ELSE d[a] = c[a]

(* A reversed tensor is read from the other end of the axes reversed.      *)
LEMMA FlipIs ==
  ASSUME NEW r, NEW t, NEW axes, Ranked(t.shape, r)
  PROVE  Flipped(t, axes, r)
<1>0. Coords(t.shape) = Cells(t.shape, r) /\ \A a \in 1 .. r : t.shape[a] \in Nat \ {0}
  BY RankedCells
<1> DEFINE d(c) == [a \in DOMAIN c |-> IF a \in axes THEN t.shape[a] - 1 - c[a] ELSE c[a]]
<1>1. Flip(t, axes).shape = t.shape
      /\ Flip(t, axes).at = [c \in Cells(t.shape, r) |-> t.at[d(c)]]
  BY <1>0 DEF Flip, Tensor
<1>2. ASSUME NEW c \in Cells(t.shape, r)
      PROVE  /\ d(c) \in Cells(t.shape, r)
             /\ \A a \in 1 .. r : IF a \in axes THEN d(c)[a] + c[a] = t.shape[a] - 1
                                                ELSE d(c)[a] = c[a]
  <2>1. c \in [1 .. r -> Nat] /\ \A a \in 1 .. r : c[a] \in 0 .. t.shape[a] - 1
    BY RankedCells
  <2>2. \A a \in 1 .. r : d(c)[a] = IF a \in axes THEN t.shape[a] - 1 - c[a] ELSE c[a]
    BY <2>1
  <2>3. d(c) = [a \in 1 .. r |-> d(c)[a]]
    BY <2>1
  <2>4. \A a \in 1 .. r : d(c)[a] \in Nat /\ d(c)[a] < t.shape[a]
    BY <1>0, <2>1, <2>2
  <2> HIDE DEF d
  <2>5. d(c) \in [1 .. r -> Nat]
    BY <2>3, <2>4
  <2> QED
    BY <1>0, <2>1, <2>2, <2>4, <2>5 DEF Cells
<1> HIDE DEF d
<1>3. \A c \in Cells(t.shape, r) : \E e \in Cells(t.shape, r) :
         /\ Flip(t, axes).at[c] = t.at[e]
         /\ \A a \in 1 .. r : IF a \in axes THEN e[a] + c[a] = t.shape[a] - 1 ELSE e[a] = c[a]
  BY <1>1, <1>2
<1> QED
  BY <1>1, <1>3 DEF Filled, Flipped

(* The place of the operand under a place of the padded tensor.            *)
Under(c, pad) == [a \in DOMAIN pad |-> c[a] - pad[a][1]]

(* A padded tensor is the operand where it reaches, the value elsewhere.   *)
Padded(t, pad, v, shape, r) ==
  /\ Filled(PadWith(t, pad, v), shape, r)
  /\ \A c \in Cells(shape, r) :
        /\ PadWith(t, pad, v).at[c] = IF Inside(Under(c, pad), t.shape)
                                      THEN t.at[Under(c, pad)] ELSE v
        /\ Inside(Under(c, pad), t.shape) => Under(c, pad) \in Cells(t.shape, r)

(* Padding outwards.                                                       *)
LEMMA PadWithIs ==
  ASSUME NEW r, NEW t, NEW pad, NEW v, NEW shape, Ranked(t.shape, r), Ranked(shape, r),
         DOMAIN pad = 1 .. r,
         \A a \in 1 .. r : pad[a][1] \in Int /\ shape[a] = pad[a][1] + t.shape[a] + pad[a][2]
  PROVE  Padded(t, pad, v, shape, r)
<1>0. /\ Coords(shape) = Cells(shape, r) /\ DOMAIN t.shape = 1 .. r
      /\ r \in Nat /\ shape \in [1 .. r -> Dims]
  BY RankedCells DEF Ranked
<1>1. shape = [a \in DOMAIN pad |-> pad[a][1] + t.shape[a] + pad[a][2]]
  BY <1>0
<1>2. PadWith(t, pad, v).shape = shape
      /\ PadWith(t, pad, v).at = [c \in Cells(shape, r) |->
            IF Inside(Under(c, pad), t.shape) THEN t.at[Under(c, pad)] ELSE v]
  BY <1>0, <1>1 DEF PadWith, Tensor, Inside, Under
<1>3. ASSUME NEW c \in Cells(shape, r), Inside(Under(c, pad), t.shape)
      PROVE  Under(c, pad) \in Cells(t.shape, r)
  <2>1. \A a \in 1 .. r : Under(c, pad)[a] \in 0 .. t.shape[a] - 1
    BY <1>0, <1>3 DEF Inside
  <2>2. \A a \in 1 .. r : t.shape[a] \in Nat
    BY RankedCells
  <2>3. \A a \in 1 .. r : Under(c, pad)[a] \in Nat /\ Under(c, pad)[a] < t.shape[a]
    BY <2>1, <2>2
  <2>4. Under(c, pad) \in [1 .. r -> Nat]
    BY <2>3 DEF Under
  <2> QED
    BY <2>3, <2>4 DEF Cells
<1> QED
  BY <1>2, <1>3 DEF Filled, Padded

(* The place a strided window starts from.                                 *)
Stepped(from, c, stride) == [a \in DOMAIN c |-> from[a] + c[a] * stride[a]]

(* How many strides a window has room for.                                 *)
Strided(spans, stride) == [a \in DOMAIN spans |-> (spans[a] + stride[a] - 1) \div stride[a]]

(* A stride starts within the window.                                      *)
LEMMA StrideFits ==
  ASSUME NEW l \in Nat \ {0}, NEW s \in Nat \ {0}
  PROVE  /\ (l + s - 1) \div s \in Nat \ {0}
         /\ \A c \in 0 .. (l + s - 1) \div s - 1 : c * s \in 0 .. l - 1
<1> DEFINE n == l + s - 1
           q == n \div s
<1>1. n \in Int /\ n >= s /\ n < l + s
  OBVIOUS
<1>2. q \in Int /\ n % s \in 0 .. s - 1 /\ n = q * s + (n % s)
  BY <1>1, DivMod
<1> DEFINE m == n % s
<1> HIDE DEF n, q, m
<1>3. q > 0
  <2> SUFFICES ASSUME q <= 0 PROVE FALSE
    BY <1>2
  <2>1. q * s <= 0 * s /\ q * s \in Int
    BY ONLY <1>2, s \in Nat \ {0}, q <= 0, TimesMonotonic
  <2>2. n < s
    BY <1>1, <1>2, <2>1
  <2> QED
    BY <1>1, <2>2
<1>4. ASSUME NEW c \in 0 .. q - 1 PROVE c * s \in 0 .. l - 1
  <2>1. c * s <= (q - 1) * s /\ c * s \in Nat /\ (q - 1) * s = q * s - s /\ q * s \in Int
    <3>1. c \in Int /\ q - 1 \in Int /\ c <= q - 1 /\ s \in Nat /\ c \in Nat
      BY <1>2, <1>3
    <3>2. c * s <= (q - 1) * s
      BY ONLY <3>1, TimesMonotonic
    <3> QED
      BY <1>2, <3>1, <3>2
  <2>2. q * s <= n
    BY <1>1, <1>2, <2>1
  <2> QED
    BY <1>1, <2>1, <2>2
<1>5. q \in Nat \ {0}
  BY <1>2, <1>3
<1> QED
  BY <1>4, <1>5 DEF q, n

(* A slice is read at every stride from where it starts.                   *)
Sliced(t, from, to, stride, spans, r) ==
  /\ Ranked(Strided(spans, stride), r)
  /\ Filled(SliceBy(t, from, to, stride), Strided(spans, stride), r)
  /\ \A c \in Cells(Strided(spans, stride), r) :
        /\ SliceBy(t, from, to, stride).at[c] = t.at[Stepped(from, c, stride)]
        /\ Stepped(from, c, stride) \in Cells(t.shape, r)
        /\ \A a \in 1 .. r : c[a] * stride[a] \in 0 .. spans[a] - 1

(* When its window fits.                                                   *)
LEMMA SliceByIs ==
  ASSUME NEW r, NEW t, NEW from, NEW to, NEW stride, NEW spans,
         Ranked(t.shape, r), Ranked(stride, r), Ranked(spans, r),
         DOMAIN from = 1 .. r,
         \A a \in 1 .. r : /\ from[a] \in Nat /\ to[a] = from[a] + spans[a]
                           /\ to[a] <= t.shape[a]
  PROVE  Sliced(t, from, to, stride, spans, r)
<1>0. /\ \A a \in 1 .. r : /\ t.shape[a] \in Nat \ {0} /\ spans[a] \in Nat \ {0}
                           /\ stride[a] \in Nat \ {0}
      /\ r \in Nat /\ DOMAIN spans = 1 .. r
  BY RankedCells DEF Ranked
<1> DEFINE s == Strided(spans, stride)
<1>1. s = [a \in 1 .. r |-> (spans[a] + stride[a] - 1) \div stride[a]]
  BY <1>0 DEF Strided
<1>2. \A a \in 1 .. r : s[a] \in Nat \ {0} /\ \A x \in 0 .. s[a] - 1 : x * stride[a] \in 0 .. spans[a] - 1
  <2> TAKE a \in 1 .. r
  <2> DEFINE l == spans[a]  b == stride[a]
  <2>1. l \in Nat \ {0} /\ b \in Nat \ {0} /\ s[a] = (l + b - 1) \div b
    BY <1>0, <1>1
  <2> HIDE DEF l, b
  <2>2. /\ (l + b - 1) \div b \in Nat \ {0}
        /\ \A x \in 0 .. (l + b - 1) \div b - 1 : x * b \in 0 .. l - 1
    BY ONLY <2>1, StrideFits
  <2> QED
    BY <2>1, <2>2 DEF l, b
<1>3. Ranked(s, r)
  BY <1>0, <1>1, <1>2 DEF Ranked, Dims
<1> HIDE DEF s
<1> DEFINE end(a) == IF to[a] > t.shape[a] THEN t.shape[a] ELSE to[a]
<1>4. \A a \in 1 .. r : end(a) - from[a] + stride[a] - 1 = spans[a] + stride[a] - 1
  BY <1>0
<1>5. [a \in DOMAIN from |-> (end(a) - from[a] + stride[a] - 1) \div stride[a]] = s
  BY <1>1, <1>4
<1>6. Coords(s) = Cells(s, r)
  BY <1>3, RankedCells
<1>7. SliceBy(t, from, to, stride).shape = s
      /\ SliceBy(t, from, to, stride).at = [c \in Cells(s, r) |-> t.at[Stepped(from, c, stride)]]
  BY <1>5, <1>6 DEF SliceBy, Tensor, Stepped
<1>8. ASSUME NEW c \in Cells(s, r)
      PROVE  /\ Stepped(from, c, stride) \in Cells(t.shape, r)
             /\ \A a \in 1 .. r : c[a] * stride[a] \in 0 .. spans[a] - 1
  <2>1. c \in [1 .. r -> Nat] /\ \A a \in 1 .. r : c[a] \in 0 .. s[a] - 1
    BY <1>3, RankedCells
  <2>2. \A a \in 1 .. r : c[a] * stride[a] \in 0 .. spans[a] - 1
    BY <1>2, <2>1
  <2> DEFINE d == Stepped(from, c, stride)
  <2>3. d = [a \in 1 .. r |-> from[a] + c[a] * stride[a]]
    BY <2>1 DEF Stepped
  <2>4. \A a \in 1 .. r : from[a] + c[a] * stride[a] \in Nat
                          /\ from[a] + c[a] * stride[a] < t.shape[a]
    <3> TAKE a \in 1 .. r
    <3> DEFINE p == c[a] * stride[a]
    <3>1. p \in 0 .. spans[a] - 1 /\ spans[a] \in Nat /\ t.shape[a] \in Nat /\ from[a] \in Nat
          /\ from[a] + spans[a] <= t.shape[a]
      BY <1>0, <2>2
    <3> HIDE DEF p
    <3>2. from[a] + p \in Nat /\ from[a] + p < t.shape[a]
      BY <3>1
    <3> QED
      BY <3>2 DEF p
  <2> HIDE DEF d
  <2>5. d \in [1 .. r -> Nat] /\ \A a \in 1 .. r : d[a] < t.shape[a]
    BY <2>3, <2>4
  <2>6. d \in Cells(t.shape, r)
    BY <2>5 DEF Cells
  <2> QED
    BY <2>2, <2>6 DEF d
<1> QED
  BY <1>3, <1>7, <1>8 DEF Sliced, Filled, s

-----------------------------------------------------------------------------
(* Alignment.                                                              *)

(* Ones.                                                                   *)
LEMMA OnesAre ==
  ASSUME NEW n \in Nat
  PROVE  Ranked(Ones(n), n) /\ \A i \in 1 .. n : Ones(n)[i] = 1
BY DEF Ones, Ranked, Dims

(* u is s, of m elements, and then t, of n.                                *)
Joins(u, s, m, t, n, S) ==
  /\ u \in [1 .. m + n -> S]
  /\ \A j \in 1 .. m + n : u[j] = IF j <= m THEN s[j] ELSE t[j - m]

(* One sequence after another.                                             *)
LEMMA ConcatAt ==
  ASSUME NEW m \in Nat, NEW n \in Nat, NEW S, NEW s \in [1 .. m -> S], NEW t \in [1 .. n -> S]
  PROVE  Joins(s \o t, s, m, t, n, S)
<1>1. s \in Seq(S) /\ Len(s) = m /\ t \in Seq(S) /\ Len(t) = n
  BY SeqIs
<1>2. /\ s \o t \in Seq(S) /\ Len(s \o t) = m + n
      /\ \A i \in 1 .. m + n : (s \o t)[i] = IF i <= m THEN s[i] ELSE t[i - m]
  BY ONLY <1>1, ConcatProperties
<1>3. s \o t \in [1 .. m + n -> S]
  BY ONLY <1>2, LenProperties
<1> QED
  BY <1>2, <1>3 DEF Joins

(* Ones put before a shape.                                                *)
LEMMA OnesBefore ==
  ASSUME NEW k \in Nat, NEW m, NEW s, Ranked(s, m)
  PROVE  /\ Ranked(Ones(k) \o s, k + m)
         /\ \A a \in 1 .. k + m : (Ones(k) \o s)[a] = IF a <= k THEN 1 ELSE s[a - k]
         /\ Widens(Ones(k) \o s, k + m, s, m, [i \in 1 .. m |-> k + i])
<1>1. m \in Nat /\ s \in [1 .. m -> Dims] /\ Ones(k) \in [1 .. k -> Dims]
      /\ \A i \in 1 .. k : Ones(k)[i] = 1
  BY OnesAre DEF Ranked
<1>2. /\ Ones(k) \o s \in [1 .. k + m -> Dims]
      /\ \A j \in 1 .. k + m : (Ones(k) \o s)[j] = IF j <= k THEN Ones(k)[j] ELSE s[j - k]
  <2>1. Joins(Ones(k) \o s, Ones(k), k, s, m, Dims)
    BY ONLY <1>1, k \in Nat, ConcatAt
  <2> QED
    BY <2>1 DEF Joins
<1> DEFINE w == Ones(k) \o s
<1>3. \A a \in 1 .. k + m : w[a] = IF a <= k THEN 1 ELSE s[a - k]
  BY <1>1, <1>2
<1>4. Ranked(w, k + m)
  BY <1>1, <1>2 DEF Ranked
<1> HIDE DEF w
<1> DEFINE axes == [i \in 1 .. m |-> k + i]
<1>5. axes \in [1 .. m -> 1 .. k + m] /\ \A i \in 1 .. m : axes[i] = k + i
  BY <1>1
<1> HIDE DEF axes
<1>6. \A i, j \in 1 .. m : i < j => axes[i] < axes[j]
  BY <1>1, <1>5
<1>7. \A i \in 1 .. m : w[axes[i]] = s[i]
  BY <1>1, <1>3, <1>5
<1>8. ASSUME NEW a \in 1 .. k + m, \A i \in 1 .. m : axes[i] # a PROVE w[a] = 1
  <2>1. CASE a <= k
    BY <1>3, <2>1
  <2>2. CASE ~(a <= k)
    <3>1. a - k \in 1 .. m /\ k + (a - k) = a
      BY <1>1, <2>2
    <3> QED
      BY <1>5, <1>8, <3>1
  <2> QED
    BY <2>1, <2>2
<1>9. Widens(w, k + m, s, m, axes)
  BY <1>4, <1>5, <1>6, <1>7, <1>8 DEF Widens
<1> QED
  BY <1>3, <1>4, <1>9 DEF w, axes

(* Sizes that stretch to others, aligned at their last axes.               *)
Fits(dims, m, shape, r) ==
  /\ Ranked(dims, m) /\ Ranked(shape, r) /\ m <= r
  /\ \A a \in 1 .. m : dims[a] \in {1, shape[a + (r - m)]}

(* As Nx states it.                                                        *)
LEMMA StretchesFits ==
  ASSUME NEW dims, NEW m, NEW shape, NEW r, Ranked(dims, m), Ranked(shape, r),
         Stretches(dims, shape)
  PROVE  Fits(dims, m, shape, r)
<1>1. Len(dims) = m /\ Len(shape) = r /\ DOMAIN dims = 1 .. m /\ m \in Nat /\ r \in Nat
  BY RankedCells DEF Ranked
<1>2. r - m >= 0 /\ \A a \in 1 .. m : dims[a] \in {1, shape[(r - m) + a]}
  BY <1>1 DEF Stretches
<1>3. \A a \in 1 .. m : (r - m) + a = a + (r - m)
  BY <1>1
<1> QED
  BY <1>1, <1>2, <1>3 DEF Fits

(* The place an operand is read at: its last axes, stretched.              *)
Where(dims, c) == [a \in DOMAIN dims |-> IF dims[a] = 1 THEN 0 ELSE c[a + Len(c) - Len(dims)]]

(* It is a place of the operand.                                           *)
LEMMA WhereIs ==
  ASSUME NEW dims, NEW m, NEW shape, NEW r, Fits(dims, m, shape, r), NEW c \in Cells(shape, r)
  PROVE  /\ Where(dims, c) \in Cells(dims, m)
         /\ \A a \in 1 .. m : Where(dims, c)[a] = IF dims[a] = 1 THEN 0 ELSE c[a + (r - m)]
<1>1. /\ Ranked(dims, m) /\ Ranked(shape, r) /\ m <= r /\ m \in Nat /\ r \in Nat
      /\ \A a \in 1 .. m : dims[a] \in {1, shape[a + (r - m)]}
  BY DEF Fits, Ranked
<1>2. /\ c \in [1 .. r -> Nat] /\ \A a \in 1 .. r : c[a] \in 0 .. shape[a] - 1
      /\ \A a \in 1 .. m : dims[a] \in Nat \ {0}
      /\ Len(dims) = m /\ DOMAIN dims = 1 .. m
  BY <1>1, RankedCells
<1>3. Len(c) = r
  BY <1>1, <1>2, SeqIs
<1>4. \A a \in 1 .. m : a + Len(c) - Len(dims) = a + (r - m) /\ a + (r - m) \in 1 .. r
  BY <1>1, <1>2, <1>3
<1> DEFINE d == Where(dims, c)
<1>5. d = [a \in 1 .. m |-> IF dims[a] = 1 THEN 0 ELSE c[a + (r - m)]]
  BY <1>2, <1>4 DEF Where
<1> HIDE DEF d
<1>6. \A a \in 1 .. m : d[a] \in Nat /\ d[a] < dims[a]
  <2> TAKE a \in 1 .. m
  <2> DEFINE b == a + (r - m)
  <2>1. b \in 1 .. r /\ dims[a] \in {1, shape[b]} /\ d[a] = (IF dims[a] = 1 THEN 0 ELSE c[b])
    BY <1>1, <1>4, <1>5
  <2> HIDE DEF b
  <2>2. c[b] \in Nat /\ c[b] \in 0 .. shape[b] - 1 /\ dims[a] \in Nat \ {0}
    BY <1>2, <2>1
  <2> QED
    BY <2>1, <2>2
<1>7. d \in Cells(dims, m)
  BY <1>5, <1>6 DEF Cells
<1> QED
  BY <1>5, <1>7 DEF d

(* An operand aligned with others of r axes.                               *)
AlignsTo(t, m, r) ==
  /\ Ranked(Aligned(t, r).shape, r)
  /\ \A a \in 1 .. r : Aligned(t, r).shape[a] =
                         IF a <= r - m THEN 1 ELSE t.shape[a - (r - m)]

(* Spread, it is read there.                                               *)
LEMMA AlignedIs ==
  ASSUME NEW t, NEW m, NEW shape, NEW r, Fits(t.shape, m, shape, r)
  PROVE  /\ AlignsTo(t, m, r)
         /\ \A c \in Cells(shape, r) :
               Spread(Aligned(t, r), c) = t.at[Where(t.shape, c)]
<1> DEFINE k == r - m
           wide == Ones(k) \o t.shape
           axes == [i \in 1 .. m |-> k + i]
<1>1. /\ Ranked(t.shape, m) /\ Ranked(shape, r) /\ m \in Nat /\ r \in Nat /\ k \in Nat /\ k + m = r
      /\ \A a \in 1 .. m : t.shape[a] \in {1, shape[a + (r - m)]}
  BY DEF Fits, Ranked
<1>2. Rank(t) = m
  BY <1>1, RankedCells DEF Rank
<1>3. Aligned(t, r) = Reshape(t, wide)
  BY <1>2 DEF Aligned
<1> HIDE DEF k
<1>4. /\ Ranked(wide, k + m)
      /\ \A a \in 1 .. k + m : wide[a] = IF a <= k THEN 1 ELSE t.shape[a - k]
      /\ Widens(wide, k + m, t.shape, m, axes)
  BY <1>1, OnesBefore
<1>5. Ranked(wide, r) /\ Widens(wide, r, t.shape, m, axes)
      /\ \A a \in 1 .. r : wide[a] = IF a <= k THEN 1 ELSE t.shape[a - k]
  BY <1>1, <1>4
<1> HIDE DEF wide
<1> DEFINE u == Reshape(t, wide)
<1>6. /\ Filled(u, wide, r)
      /\ \A c \in Cells(wide, r) : u.at[c] = t.at[Pick(c, axes)]
  <2> HIDE DEF axes
  <2> QED
    <3>1. Widened(t, m, wide, r, axes)
      BY <1>5, WidenIs
    <3> QED
      BY <3>1 DEF Widened, u
<1>7. u.shape = wide
  BY <1>6 DEF Filled
<1> HIDE DEF u
<1>8. ASSUME NEW c \in Cells(shape, r) PROVE Spread(u, c) = t.at[Where(t.shape, c)]
  <2>1. c \in [1 .. r -> Nat]
    BY DEF Cells
  <2>2. Spread(u, c) = u.at[Flat(wide, c)]
    BY <1>7 DEF Spread, Flat
  <2>3. \A a \in 1 .. r : wide[a] \in {1, shape[a]}
    <3> TAKE a \in 1 .. r
    <3>1. CASE a <= k
      BY <1>5, <3>1
    <3>2. CASE ~(a <= k)
      <4>1. a - k \in 1 .. m /\ (a - k) + (r - m) = a
        BY <1>1, <3>2 DEF k
      <4>2. wide[a] = t.shape[a - k] /\ t.shape[a - k] \in {1, shape[(a - k) + (r - m)]}
        BY <1>1, <1>5, <3>2, <4>1
      <4> QED
        BY <4>1, <4>2
    <3> QED
      BY <3>1, <3>2
  <2>4. Flat(wide, c) \in Cells(wide, r)
    BY <1>1, <1>5, <2>3, FlatIs
  <2>5. Spread(u, c) = t.at[Pick(Flat(wide, c), axes)]
    BY <1>6, <2>2, <2>4
  <2>6. Pick(Flat(wide, c), axes) = [i \in 1 .. m |-> Flat(wide, c)[k + i]]
    BY DEF Pick
  <2>7. \A i \in 1 .. m : k + i \in 1 .. r /\ wide[k + i] = t.shape[i] /\ k + i = i + (r - m)
    <3> TAKE i \in 1 .. m
    <3>1. k + i \in 1 .. r /\ ~(k + i <= k) /\ (k + i) - k = i /\ k + i = i + (r - m)
      BY <1>1 DEF k
    <3> QED
      BY <1>5, <3>1
  <2>8. \A i \in 1 .. m : Flat(wide, c)[k + i] = IF t.shape[i] = 1 THEN 0 ELSE c[i + (r - m)]
    <3>1. Flat(wide, c) = [a \in 1 .. r |-> IF wide[a] = 1 THEN 0 ELSE c[a]]
      BY <2>1 DEF Flat
    <3> QED
      BY <2>7, <3>1
  <2>9. /\ Where(t.shape, c) \in Cells(t.shape, m)
        /\ \A a \in 1 .. m :
              Where(t.shape, c)[a] = IF t.shape[a] = 1 THEN 0 ELSE c[a + (r - m)]
    BY WhereIs
  <2>10. Where(t.shape, c) = [a \in 1 .. m |-> Where(t.shape, c)[a]]
    BY <2>9 DEF Cells
  <2>11. Pick(Flat(wide, c), axes) = Where(t.shape, c)
    BY <2>6, <2>8, <2>9, <2>10
  <2> QED
    BY <2>5, <2>11
<1> QED
  BY <1>3, <1>5, <1>7, <1>8 DEF u, k, AlignsTo

(* The shape of two operands together.                                     *)
Longer(t, u) == Max({Rank(t), Rank(u)})
Meet(t, u) ==
  [a \in DOMAIN Aligned(t, Longer(t, u)).shape |->
      Max({Aligned(t, Longer(t, u)).shape[a], Aligned(u, Longer(t, u)).shape[a]})]

(* A size of the result that an operand has.                               *)
Covers(dims, m, shape, r, a) == a > r - m /\ dims[a - (r - m)] = shape[a]

(* Two operands that stretch to a shape are joined in one that does, and   *)
(* the join is read at the place each of them is read at.                  *)
Met(t, m, u, k, q, shape, r) ==
  /\ Longer(t, u) = q /\ Fits(Meet(t, u), q, shape, r)
  /\ \A a \in 1 .. r : Covers(t.shape, m, shape, r, a) \/ Covers(u.shape, k, shape, r, a)
                       => Covers(Meet(t, u), q, shape, r, a)
  /\ \A c \in Cells(shape, r) :
        /\ Where(Meet(t, u), c) \in Cells(Meet(t, u), q)
        /\ Spread(Aligned(t, q), Where(Meet(t, u), c)) = t.at[Where(t.shape, c)]
        /\ Spread(Aligned(u, q), Where(Meet(t, u), c)) = u.at[Where(u.shape, c)]

(* What is aligned with the last axes of a shape.                          *)
LEMMA AlignedShape ==
  ASSUME NEW t, NEW m, NEW shape, NEW r, Fits(t.shape, m, shape, r), NEW q \in m .. r
  PROVE  AlignsTo(t, m, q)
<1> DEFINE s == [a \in 1 .. q |-> shape[a + (r - q)]]
<1>1. /\ Ranked(t.shape, m) /\ m \in Nat /\ r \in Nat /\ m <= r /\ shape \in [1 .. r -> Dims]
      /\ \A a \in 1 .. m : t.shape[a] \in {1, shape[a + (r - m)]}
  BY DEF Fits, Ranked
<1>2. q \in Nat /\ m <= q /\ q <= r /\ \A a \in 1 .. q : a + (r - q) \in 1 .. r
  BY <1>1
<1>3. Ranked(s, q)
  BY <1>1, <1>2 DEF Ranked
<1>4. ASSUME NEW a \in 1 .. m PROVE t.shape[a] \in {1, s[a + (q - m)]}
  <2>1. a + (q - m) \in 1 .. q /\ (a + (q - m)) + (r - q) = a + (r - m)
    BY <1>1, <1>2
  <2> QED
    BY <1>1, <2>1
<1> HIDE DEF s
<1>5. Fits(t.shape, m, s, q)
  BY <1>1, <1>2, <1>3, <1>4 DEF Fits
<1> QED
  BY <1>5, AlignedIs

(* An operand is read at the same place through the join.                  *)
LEMMA ThroughMeet ==
  ASSUME NEW t, NEW m, NEW z, NEW q, NEW shape, NEW r, Fits(t.shape, m, shape, r),
         Fits(z, q, shape, r), m <= q,
         \A a \in 1 .. m : t.shape[a] # 1 => z[a + (q - m)] = t.shape[a],
         NEW c \in Cells(shape, r)
  PROVE  Spread(Aligned(t, q), Where(z, c)) = t.at[Where(t.shape, c)]
<1>1. /\ Ranked(t.shape, m) /\ Ranked(z, q) /\ m \in Nat /\ q \in Nat /\ r \in Nat /\ q <= r
  BY DEF Fits, Ranked
<1>2. Fits(t.shape, m, z, q)
  BY <1>1 DEF Fits
<1>3. /\ Where(z, c) \in Cells(z, q)
      /\ \A a \in 1 .. q : Where(z, c)[a] = IF z[a] = 1 THEN 0 ELSE c[a + (r - q)]
  BY WhereIs
<1> DEFINE e == Where(z, c)
<1> HIDE DEF e
<1>4. Spread(Aligned(t, q), e) = t.at[Where(t.shape, e)]
  BY <1>2, <1>3, AlignedIs DEF e
<1>5. /\ Where(t.shape, e) \in Cells(t.shape, m)
      /\ \A a \in 1 .. m : Where(t.shape, e)[a] = IF t.shape[a] = 1 THEN 0 ELSE e[a + (q - m)]
  BY <1>2, <1>3, WhereIs DEF e
<1>6. /\ Where(t.shape, c) \in Cells(t.shape, m)
      /\ \A a \in 1 .. m : Where(t.shape, c)[a] = IF t.shape[a] = 1 THEN 0 ELSE c[a + (r - m)]
  BY WhereIs
<1>7. ASSUME NEW a \in 1 .. m PROVE Where(t.shape, e)[a] = Where(t.shape, c)[a]
  <2>1. CASE t.shape[a] = 1
    BY <1>5, <1>6, <2>1
  <2>2. CASE t.shape[a] # 1
    <3>1. a + (q - m) \in 1 .. q /\ (a + (q - m)) + (r - q) = a + (r - m)
      BY <1>1
    <3>2. z[a + (q - m)] # 1
      BY <2>2
    <3>3. e[a + (q - m)] = c[(a + (q - m)) + (r - q)]
      BY <1>3, <3>1, <3>2 DEF e
    <3> QED
      BY <1>5, <1>6, <2>2, <3>1, <3>3
  <2> QED
    BY <2>1, <2>2
<1>8. Where(t.shape, e) = Where(t.shape, c)
  <2>1. Where(t.shape, e) \in [1 .. m -> Nat] /\ Where(t.shape, c) \in [1 .. m -> Nat]
    BY <1>5, <1>6 DEF Cells
  <2> QED
    BY ONLY <1>1, <1>7, <2>1
<1> QED
  BY <1>4, <1>8 DEF e

(* Two operands that stretch.                                              *)
LEMMA MeetIs ==
  ASSUME NEW t, NEW m, NEW u, NEW k, NEW shape, NEW r,
         Fits(t.shape, m, shape, r), Fits(u.shape, k, shape, r)
  PROVE  Met(t, m, u, k, IF m >= k THEN m ELSE k, shape, r)
<1> DEFINE q == IF m >= k THEN m ELSE k
<1>1. /\ Ranked(t.shape, m) /\ Ranked(u.shape, k) /\ Ranked(shape, r)
      /\ m \in Nat /\ k \in Nat /\ r \in Nat /\ m <= r /\ k <= r
      /\ \A a \in 1 .. m : t.shape[a] \in {1, shape[a + (r - m)]}
      /\ \A a \in 1 .. k : u.shape[a] \in {1, shape[a + (r - k)]}
  BY DEF Fits, Ranked
<1>2. q \in Nat /\ m <= q /\ k <= q /\ q <= r /\ (q = m \/ q = k)
  BY <1>1
<1>3. Rank(t) = m /\ Rank(u) = k
  BY <1>1, RankedCells DEF Rank
<1>4. Longer(t, u) = q
  <2>1. m \in Int /\ k \in Int
    BY <1>1
  <2> QED
    BY <1>3, <2>1, MaxOfTwo DEF Longer
<1> HIDE DEF q
<1> DEFINE x == Aligned(t, q).shape
           y == Aligned(u, q).shape
<1>5. /\ Ranked(x, q)
      /\ \A a \in 1 .. q : x[a] = IF a <= q - m THEN 1 ELSE t.shape[a - (q - m)]
  <2>1. q \in m .. r
    BY <1>1, <1>2
  <2>2. AlignsTo(t, m, q)
    BY <2>1, AlignedShape
  <2> QED
    BY <2>2 DEF AlignsTo
<1>6. /\ Ranked(y, q)
      /\ \A a \in 1 .. q : y[a] = IF a <= q - k THEN 1 ELSE u.shape[a - (q - k)]
  <2>1. q \in k .. r
    BY <1>1, <1>2
  <2>2. AlignsTo(u, k, q)
    BY <2>1, AlignedShape
  <2> QED
    BY <2>2 DEF AlignsTo
<1>7. /\ \A a \in 1 .. q : x[a] \in Nat \ {0} /\ y[a] \in Nat \ {0}
      /\ DOMAIN x = 1 .. q
  BY <1>5, <1>6, RankedCells
<1> DEFINE z == Meet(t, u)
<1>8. z = [a \in 1 .. q |-> Max({x[a], y[a]})]
  BY <1>4, <1>7 DEF Meet
<1> HIDE DEF x, y
<1>9. \A a \in 1 .. q : z[a] = IF x[a] >= y[a] THEN x[a] ELSE y[a]
  <2> TAKE a \in 1 .. q
  <2>1. x[a] \in Int /\ y[a] \in Int
    BY <1>7
  <2> QED
    BY <1>8, <2>1, MaxOfTwo
<1>10. Ranked(z, q)
  BY <1>2, <1>7, <1>8, <1>9 DEF Ranked, Dims
<1> HIDE DEF z
<1> DEFINE S(a) == shape[a + (r - q)]
<1>11. \A a \in 1 .. q : x[a] \in {1, S(a)} /\ y[a] \in {1, S(a)}
  <2> TAKE a \in 1 .. q
  <2>1. x[a] \in {1, S(a)}
    <3>1. CASE a <= q - m
      BY <1>5, <3>1 DEF x
    <3>2. CASE ~(a <= q - m)
      <4>1. a - (q - m) \in 1 .. m /\ (a - (q - m)) + (r - m) = a + (r - q)
        BY <1>1, <1>2, <3>2
      <4>2. t.shape[a - (q - m)] \in {1, shape[(a - (q - m)) + (r - m)]}
        BY <1>1, <4>1
      <4> QED
        BY <1>5, <3>2, <4>1, <4>2 DEF x
    <3> QED
      BY <3>1, <3>2
  <2>2. y[a] \in {1, S(a)}
    <3>1. CASE a <= q - k
      BY <1>6, <3>1 DEF y
    <3>2. CASE ~(a <= q - k)
      <4>1. a - (q - k) \in 1 .. k /\ (a - (q - k)) + (r - k) = a + (r - q)
        BY <1>1, <1>2, <3>2
      <4>2. u.shape[a - (q - k)] \in {1, shape[(a - (q - k)) + (r - k)]}
        BY <1>1, <4>1
      <4> QED
        BY <1>6, <3>2, <4>1, <4>2 DEF y
    <3> QED
      BY <3>1, <3>2
  <2> QED
    BY <2>1, <2>2
<1>12. \A a \in 1 .. q : S(a) \in Nat \ {0}
  <2> TAKE a \in 1 .. q
  <2>1. a + (r - q) \in 1 .. r
    BY <1>1, <1>2
  <2> QED
    BY <1>1, <2>1, RankedCells
<1> HIDE DEF S
<1>13. \A a \in 1 .. q : /\ z[a] \in {1, S(a)}
                         /\ x[a] # 1 => z[a] = x[a]
                         /\ y[a] # 1 => z[a] = y[a]
                         /\ x[a] = S(a) \/ y[a] = S(a) => z[a] = S(a)
  <2> TAKE a \in 1 .. q
  <2>1. /\ x[a] \in Nat \ {0} /\ y[a] \in Nat \ {0} /\ S(a) \in Nat \ {0}
        /\ x[a] \in {1, S(a)} /\ y[a] \in {1, S(a)}
        /\ z[a] = IF x[a] >= y[a] THEN x[a] ELSE y[a]
    BY <1>7, <1>9, <1>11, <1>12
  <2> QED
    BY <2>1
<1>14. Fits(z, q, shape, r)
  BY <1>1, <1>2, <1>10, <1>13 DEF Fits, S
<1>15. \A a \in 1 .. m : t.shape[a] # 1 => z[a + (q - m)] = t.shape[a]
  <2> TAKE a \in 1 .. m
  <2>1. a + (q - m) \in 1 .. q /\ ~(a + (q - m) <= q - m) /\ (a + (q - m)) - (q - m) = a
    BY <1>1, <1>2
  <2>2. x[a + (q - m)] = t.shape[a]
    BY <1>5, <2>1 DEF x
  <2> QED
    BY <1>13, <2>1, <2>2
<1>16. \A a \in 1 .. k : u.shape[a] # 1 => z[a + (q - k)] = u.shape[a]
  <2> TAKE a \in 1 .. k
  <2>1. a + (q - k) \in 1 .. q /\ ~(a + (q - k) <= q - k) /\ (a + (q - k)) - (q - k) = a
    BY <1>1, <1>2
  <2>2. y[a + (q - k)] = u.shape[a]
    BY <1>6, <2>1 DEF y
  <2> QED
    BY <1>13, <2>1, <2>2
<1>17. ASSUME NEW c \in Cells(shape, r)
       PROVE  /\ Where(z, c) \in Cells(z, q)
              /\ Spread(Aligned(t, q), Where(z, c)) = t.at[Where(t.shape, c)]
              /\ Spread(Aligned(u, q), Where(z, c)) = u.at[Where(u.shape, c)]
  <2>1. Where(z, c) \in Cells(z, q)
    BY <1>14, WhereIs
  <2>2. Spread(Aligned(t, q), Where(z, c)) = t.at[Where(t.shape, c)]
    BY <1>2, <1>14, <1>15, ThroughMeet
  <2>3. Spread(Aligned(u, q), Where(z, c)) = u.at[Where(u.shape, c)]
    BY <1>2, <1>14, <1>16, ThroughMeet
  <2> QED
    BY <2>1, <2>2, <2>3
<1>18. ASSUME NEW a \in 1 .. r,
              Covers(t.shape, m, shape, r, a) \/ Covers(u.shape, k, shape, r, a)
       PROVE  Covers(z, q, shape, r, a)
  <2>1. CASE Covers(t.shape, m, shape, r, a)
    <3>1. a > r - m /\ t.shape[a - (r - m)] = shape[a]
      BY <2>1 DEF Covers
    <3> DEFINE b == a - (r - q)
    <3>2. b \in 1 .. q /\ ~(b <= q - m) /\ b - (q - m) = a - (r - m) /\ b + (r - q) = a
          /\ a > r - q
      BY <1>1, <1>2, <3>1
    <3>3. x[b] = S(b)
      BY <1>5, <3>1, <3>2 DEF x, S
    <3>4. z[b] = S(b)
      BY <1>13, <3>2, <3>3
    <3> QED
      BY <3>2, <3>4 DEF Covers, S
  <2>2. CASE Covers(u.shape, k, shape, r, a)
    <3>1. a > r - k /\ u.shape[a - (r - k)] = shape[a]
      BY <2>2 DEF Covers
    <3> DEFINE b == a - (r - q)
    <3>2. b \in 1 .. q /\ ~(b <= q - k) /\ b - (q - k) = a - (r - k) /\ b + (r - q) = a
          /\ a > r - q
      BY <1>1, <1>2, <3>1
    <3>3. y[b] = S(b)
      BY <1>6, <3>1, <3>2 DEF y, S
    <3>4. z[b] = S(b)
      BY <1>13, <3>2, <3>3
    <3> QED
      BY <3>2, <3>4 DEF Covers, S
  <2> QED
    BY <1>18, <2>1, <2>2
<1>19. Met(t, m, u, k, q, shape, r)
  BY <1>4, <1>14, <1>17, <1>18 DEF Met, z
<1> QED
  BY <1>19 DEF q

(* A shape all of whose sizes are covered.                                 *)
LEMMA Covered ==
  ASSUME NEW z, NEW shape, NEW r, Fits(z, r, shape, r),
         \A a \in 1 .. r : shape[a] = 1 \/ Covers(z, r, shape, r, a)
  PROVE  z = shape /\ \A c \in Cells(shape, r) : Where(z, c) = c
<1>1. /\ Ranked(z, r) /\ Ranked(shape, r) /\ r \in Nat
      /\ z \in [1 .. r -> Dims] /\ shape \in [1 .. r -> Dims]
      /\ \A a \in 1 .. r : z[a] \in {1, shape[a + (r - r)]}
  BY DEF Fits, Ranked
<1>2. \A a \in 1 .. r : z[a] = shape[a]
  <2> TAKE a \in 1 .. r
  <2>1. a + (r - r) = a /\ a - (r - r) = a
    BY <1>1
  <2> QED
    BY <1>1, <2>1 DEF Covers
<1>3. z = shape
  BY <1>1, <1>2
<1>4. ASSUME NEW c \in Cells(shape, r) PROVE Where(z, c) = c
  <2>1. /\ Where(z, c) \in Cells(z, r)
        /\ \A a \in 1 .. r : Where(z, c)[a] = IF z[a] = 1 THEN 0 ELSE c[a + (r - r)]
    BY WhereIs
  <2>2. c \in [1 .. r -> Nat] /\ \A a \in 1 .. r : c[a] \in 0 .. shape[a] - 1
    BY <1>1, RankedCells
  <2>3. \A a \in 1 .. r : Where(z, c)[a] = c[a]
    <3> TAKE a \in 1 .. r
    <3>1. a + (r - r) = a
      BY <1>1
    <3> QED
      BY <1>3, <2>1, <2>2, <3>1
  <2>4. Where(z, c) \in [1 .. r -> Nat]
    BY <2>1 DEF Cells
  <2> QED
    BY ONLY <1>1, <2>2, <2>3, <2>4
<1> QED
  BY <1>3, <1>4

-----------------------------------------------------------------------------
(* Joins.                                                                  *)

(* A place of a later operand.                                             *)
Shift(c, axis, k) == [c EXCEPT ![axis] = @ - k]

(* A tensor of numbers.                                                    *)
Numeric(t, r) == Ranked(t.shape, r) /\ t.at \in [Cells(t.shape, r) -> Int]

(* Operands that agree on the other axes.                                  *)
Agrees(t, s, axis, r) == Numeric(t, r) /\ \A a \in 1 .. r : a # axis => t.shape[a] = s[a]

(* A place shifted onto the operand it is in.                              *)
LEMMA ShiftIs ==
  ASSUME NEW r \in Nat, NEW c \in [1 .. r -> Nat], NEW axis \in 1 .. r, NEW k \in Nat,
         k <= c[axis]
  PROVE  /\ Shift(c, axis, k) \in [1 .. r -> Nat] /\ Shift(c, axis, k)[axis] = c[axis] - k
         /\ \A a \in 1 .. r : a # axis => Shift(c, axis, k)[a] = c[a]
BY DEF Shift

(* Two tensors end to end.                                                 *)
Ended(t, u, axis, r) ==
  /\ Agrees(Cat(t, u, axis), t.shape, axis, r)
  /\ Cat(t, u, axis) = [shape |-> Cat(t, u, axis).shape, at |-> Cat(t, u, axis).at]
  /\ Cat(t, u, axis).shape[axis] = t.shape[axis] + u.shape[axis]
  /\ \A c \in Cells(Cat(t, u, axis).shape, r) :
        /\ c[axis] < t.shape[axis] => c \in Cells(t.shape, r) /\ Cat(t, u, axis).at[c] = t.at[c]
        /\ ~(c[axis] < t.shape[axis]) =>
              /\ Shift(c, axis, t.shape[axis]) \in Cells(u.shape, r)
              /\ Cat(t, u, axis).at[c] = u.at[Shift(c, axis, t.shape[axis])]

(* When they agree on the other axes.                                      *)
LEMMA CatIs ==
  ASSUME NEW r, NEW t, NEW u, NEW axis \in 1 .. r, Numeric(t, r), Agrees(u, t.shape, axis, r)
  PROVE  Ended(t, u, axis, r)
<1>1. /\ Ranked(t.shape, r) /\ Ranked(u.shape, r) /\ r \in Nat
      /\ t.shape \in [1 .. r -> Dims] /\ u.shape \in [1 .. r -> Dims]
      /\ t.at \in [Cells(t.shape, r) -> Int] /\ u.at \in [Cells(u.shape, r) -> Int]
      /\ \A a \in 1 .. r : a # axis => u.shape[a] = t.shape[a]
  BY DEF Numeric, Agrees, Ranked
<1> DEFINE z == [t.shape EXCEPT ![axis] = @ + u.shape[axis]]
           v == Cat(t, u, axis)
<1>2. /\ z \in [1 .. r -> Dims] /\ z[axis] = t.shape[axis] + u.shape[axis]
      /\ \A a \in 1 .. r : a # axis => z[a] = t.shape[a]
  BY SMTT(30), <1>1 DEF Dims
<1>3. Ranked(z, r)
  BY <1>1, <1>2 DEF Ranked
<1>4. Coords(z) = Cells(z, r)
  BY <1>3, RankedCells
<1>5. v = [shape |-> z, at |-> [c \in Cells(z, r) |->
             IF c[axis] < t.shape[axis] THEN t.at[c] ELSE u.at[Shift(c, axis, t.shape[axis])]]]
  BY <1>4 DEF Cat, Tensor, Shift
<1> HIDE DEF z, v
<1>6. ASSUME NEW c \in Cells(z, r)
      PROVE  /\ c[axis] < t.shape[axis] => c \in Cells(t.shape, r)
             /\ ~(c[axis] < t.shape[axis]) => Shift(c, axis, t.shape[axis]) \in Cells(u.shape, r)
  <2>1. c \in [1 .. r -> Nat] /\ \A a \in 1 .. r : c[a] \in 0 .. z[a] - 1
    BY <1>3, RankedCells
  <2>2. \A a \in 1 .. r : /\ t.shape[a] \in Nat \ {0} /\ u.shape[a] \in Nat \ {0}
                          /\ z[a] \in Nat \ {0}
    BY <1>1, <1>3, RankedCells
  <2>3. ASSUME c[axis] < t.shape[axis] PROVE c \in Cells(t.shape, r)
    <3>1. \A a \in 1 .. r : c[a] < t.shape[a]
      BY <1>2, <2>1, <2>2, <2>3
    <3> QED
      BY <2>1, <3>1 DEF Cells
  <2>4. ASSUME ~(c[axis] < t.shape[axis])
        PROVE  Shift(c, axis, t.shape[axis]) \in Cells(u.shape, r)
    <3> DEFINE k == t.shape[axis]
               d == Shift(c, axis, k)
    <3>1. k \in Nat /\ k <= c[axis]
      BY <2>1, <2>2, <2>4
    <3> HIDE DEF k
    <3>2. d \in [1 .. r -> Nat] /\ d[axis] = c[axis] - k /\ \A a \in 1 .. r : a # axis => d[a] = c[a]
      BY <1>1, <2>1, <3>1, ShiftIs
    <3> HIDE DEF d
    <3>3. d[axis] < u.shape[axis]
      BY <1>2, <2>1, <2>2, <3>1, <3>2 DEF k
    <3>4. ASSUME NEW a \in 1 .. r, a # axis PROVE d[a] < u.shape[a]
      <4>1. d[a] = c[a] /\ u.shape[a] = z[a]
        BY <1>1, <1>2, <3>2, <3>4
      <4> QED
        BY <2>1, <2>2, <4>1
    <3>5. \A a \in 1 .. r : d[a] < u.shape[a]
      BY <3>3, <3>4
    <3> QED
      BY <3>2, <3>5 DEF Cells, d, k
  <2> QED
    BY <2>3, <2>4
<1>7. v.shape = z /\ v = [shape |-> v.shape, at |-> v.at]
      /\ \A c \in Cells(z, r) : v.at[c] =
             IF c[axis] < t.shape[axis] THEN t.at[c] ELSE u.at[Shift(c, axis, t.shape[axis])]
  BY <1>5
<1>8. v.at \in [Cells(z, r) -> Int]
  <2>1. \A c \in Cells(z, r) : v.at[c] \in Int
    BY <1>1, <1>6, <1>7
  <2>2. v.at = [c \in Cells(z, r) |-> v.at[c]]
    BY <1>5
  <2> QED
    BY <2>1, <2>2
<1>9. Agrees(v, t.shape, axis, r)
  BY <1>2, <1>3, <1>7, <1>8 DEF Agrees, Numeric
<1> QED
  BY <1>2, <1>6, <1>7, <1>9 DEF Ended, v

(* The fold that a join is.                                                *)
LEMMA CatIsChosen ==
  ASSUME NEW ts, NEW axis, NEW f,
         f = [s \in SUBSET (DOMAIN Tail(ts)) |->
                IF s = {} THEN Head(ts) ELSE Cat(f[s \ {Max(s)}], Tail(ts)[Max(s)], axis)]
  PROVE  \E g : /\ g = [s \in SUBSET (DOMAIN Tail(ts)) |->
                          IF s = {} THEN Head(ts)
                          ELSE Cat(g[s \ {Max(s)}], Tail(ts)[Max(s)], axis)]
                /\ CatAll(ts, axis) = g[DOMAIN Tail(ts)]
  BY ZenonT(30) DEF CatAll, FoldLeft, MapThenFoldSet

(* Operands on their way along an axis.                                    *)
Operands(ts, n, s, axis, r) ==
  /\ n \in Nat /\ axis \in 1 .. r /\ Head(ts) = ts[1] /\ DOMAIN Tail(ts) = 1 .. n
  /\ \A i \in 1 .. n : Tail(ts)[i] = ts[i + 1]
  /\ \A i \in 1 .. n + 1 : Agrees(ts[i], s, axis, r)

(* The operands are joined one after the other.                            *)
LEMMA CatFold ==
  ASSUME NEW ts, NEW n, NEW s, NEW axis, NEW r, Operands(ts, n, s, axis, r)
  PROVE  \E w : /\ w[0] = ts[1] /\ CatAll(ts, axis) = w[n]
                /\ \A k \in 0 .. n - 1 : w[k + 1] = Cat(w[k], ts[k + 2], axis)
<1> DEFINE Rec == [shape : [1 .. r -> Dims],
                   at : UNION {[Cells(z, r) -> Int] : z \in [1 .. r -> Dims]}]
           V == {x \in Rec \cup {ts[1]} : Agrees(x, s, axis, r)}
           G == [i \in 1 .. n |-> [x \in V |-> Cat(x, ts[i + 1], axis)]]
<1>0. /\ n \in Nat /\ axis \in 1 .. r /\ Head(ts) = ts[1] /\ DOMAIN Tail(ts) = 1 .. n
      /\ \A i \in 1 .. n : Tail(ts)[i] = ts[i + 1]
      /\ \A i \in 1 .. n + 1 : Agrees(ts[i], s, axis, r)
  BY DEF Operands
<1>1. ASSUME NEW i \in 1 .. n, NEW x \in V PROVE Cat(x, ts[i + 1], axis) \in V
  <2>1. Agrees(x, s, axis, r) /\ Agrees(ts[i + 1], s, axis, r)
    BY <1>0
  <2>2. Numeric(x, r) /\ Agrees(ts[i + 1], x.shape, axis, r)
    BY <2>1 DEF Agrees
  <2> DEFINE v == Cat(x, ts[i + 1], axis)
  <2>3. Ended(x, ts[i + 1], axis, r)
    BY <1>0, <2>2, CatIs
  <2>4. Agrees(v, x.shape, axis, r) /\ v = [shape |-> v.shape, at |-> v.at]
    BY <2>3 DEF Ended
  <2> HIDE DEF v
  <2>5. Agrees(v, s, axis, r)
    BY <2>1, <2>4 DEF Agrees
  <2>6. v.shape \in [1 .. r -> Dims] /\ v.at \in [Cells(v.shape, r) -> Int]
    BY <2>5 DEF Agrees, Numeric, Ranked
  <2>7. v.at \in UNION {[Cells(z, r) -> Int] : z \in [1 .. r -> Dims]}
    BY <2>6
  <2>8. v \in Rec
    BY <2>4, <2>6, <2>7
  <2> QED
    BY <2>5, <2>8 DEF v
<1>2. ts[1] \in V
  BY <1>0
<1> HIDE DEF V
<1>3. G \in [1 .. n -> [V -> V]] /\ \A i \in 1 .. n, x \in V : G[i][x] = Cat(x, ts[i + 1], axis)
  BY <1>1
<1> HIDE DEF G
<1>4. PICK f : Folds(f, n, V, ts[1], G)
  BY ONLY <1>0, <1>2, <1>3, FoldExists
<1>5. \A x \in SUBSET (1 .. n) :
        f[x] = IF x = {} THEN ts[1] ELSE Cat(f[x \ {Max(x)}], Tail(ts)[Max(x)], axis)
  <2>1. ASSUME NEW x \in SUBSET (1 .. n), x # {}
        PROVE  f[x] = Cat(f[x \ {Max(x)}], Tail(ts)[Max(x)], axis)
    <3>1. Max(x) \in 1 .. n /\ x \ {Max(x)} \in SUBSET (1 .. n)
      BY <1>0, <2>1, MaxIs
    <3>2. f[x \ {Max(x)}] \in V /\ f[x] = G[Max(x)][f[x \ {Max(x)}]]
      BY <1>4, <2>1, <3>1 DEF Folds
    <3> QED
      BY <1>0, <1>3, <3>1, <3>2
  <2> QED
    BY <1>4, <2>1 DEF Folds
<1>6. PICK g : /\ g = [x \in SUBSET (DOMAIN Tail(ts)) |->
                         IF x = {} THEN Head(ts)
                         ELSE Cat(g[x \ {Max(x)}], Tail(ts)[Max(x)], axis)]
               /\ CatAll(ts, axis) = g[DOMAIN Tail(ts)]
  <2>1. f = [x \in SUBSET (DOMAIN Tail(ts)) |->
               IF x = {} THEN Head(ts) ELSE Cat(f[x \ {Max(x)}], Tail(ts)[Max(x)], axis)]
    BY <1>0, <1>4, <1>5 DEF Folds
  <2> QED
    BY ONLY <2>1, CatIsChosen
<1>7. g[1 .. n] = f[1 .. n]
  <2>1. \A x \in SUBSET (1 .. n) :
            (x # {} => g[x \ {Max(x)}] = f[x \ {Max(x)}]) => g[x] = f[x]
    BY <1>0, <1>5, <1>6
  <2> QED
    BY ONLY <1>0, <2>1, FoldSame
<1>8. PICK w : Along(w, n, V, ts[1], G) /\ f[1 .. n] = w[n]
  BY ONLY <1>0, <1>4, FoldAlong
<1>9. ASSUME NEW k \in 0 .. n - 1 PROVE w[k + 1] = Cat(w[k], ts[k + 2], axis)
  <2>1. k + 1 \in 1 .. n /\ w[k] \in V /\ (k + 1) + 1 = k + 2 /\ w[k + 1] = G[k + 1][w[k]]
    BY <1>0, <1>8 DEF Along
  <2>2. G[k + 1][w[k]] = Cat(w[k], ts[(k + 1) + 1], axis)
    BY <1>3, <2>1
  <2> QED
    BY <2>1, <2>2
<1>10. w[0] = ts[1] /\ CatAll(ts, axis) = w[n]
  BY <1>0, <1>6, <1>7, <1>8 DEF Along
<1> QED
  BY ONLY <1>9, <1>10

(* Where each operand ends.                                                *)
Ends(B, ts, n, axis) ==
  /\ B \in [0 .. n + 1 -> Nat] /\ B[0] = 0
  /\ \A i \in 0 .. n : B[i + 1] = B[i] + ts[i + 1].shape[axis]

(* The first k + 1 operands, joined.                                       *)
Laid(x, k, B, ts, s, axis, r) ==
  /\ Agrees(x, s, axis, r) /\ x.shape[axis] = B[k + 1]
  /\ \A i \in 0 .. k + 1 : B[i] <= B[k + 1]
  /\ \A i \in 0 .. k, c \in Cells(x.shape, r) : B[i] <= c[axis] /\ c[axis] < B[i + 1] =>
        /\ Shift(c, axis, B[i]) \in Cells(ts[i + 1].shape, r)
        /\ x.at[c] = ts[i + 1].at[Shift(c, axis, B[i])]

(* Operands joined along an axis lie end to end.                           *)
LEMMA CatAllIs ==
  ASSUME NEW ts, NEW n, NEW s, NEW axis, NEW r, NEW B,
         Operands(ts, n, s, axis, r), Ends(B, ts, n, axis)
  PROVE  Laid(CatAll(ts, axis), n, B, ts, s, axis, r)
<1>1. /\ n \in Nat /\ axis \in 1 .. r
      /\ \A i \in 1 .. n + 1 : Agrees(ts[i], s, axis, r)
  BY DEF Operands
<1>2. /\ B \in [0 .. n + 1 -> Nat] /\ B[0] = 0
      /\ \A i \in 0 .. n : B[i + 1] = B[i] + ts[i + 1].shape[axis]
  BY DEF Ends
<1>3. PICK w : /\ w[0] = ts[1] /\ CatAll(ts, axis) = w[n]
               /\ \A k \in 0 .. n - 1 : w[k + 1] = Cat(w[k], ts[k + 2], axis)
  BY CatFold
<1>0. r \in Nat /\ \A i \in 1 .. n + 1 : ts[i].shape[axis] \in Nat
  <2> SUFFICES ASSUME NEW i \in 1 .. n + 1 PROVE r \in Nat /\ ts[i].shape[axis] \in Nat
    BY <1>1
  <2>1. Ranked(ts[i].shape, r)
    BY <1>1 DEF Agrees, Numeric
  <2> QED
    BY <1>1, <2>1 DEF Ranked, Dims
<1> DEFINE A == {k \in 0 .. n : Laid(w[k], k, B, ts, s, axis, r)}
<1>4. 0 \in A
  <2>1. 1 \in 1 .. n + 1 /\ 0 \in 0 .. n /\ 0 + 1 = 1
    BY <1>1
  <2>2. B[1] = ts[1].shape[axis] /\ B[0] = 0 /\ Agrees(ts[1], s, axis, r)
    <3>1. B[0 + 1] = B[0] + ts[0 + 1].shape[axis] /\ ts[1].shape[axis] \in Nat
      BY <1>0, <1>2, <2>1
    <3> QED
      BY <1>1, <1>2, <2>1, <3>1
  <2>3. ASSUME NEW i \in 0 .. 0, NEW c \in Cells(ts[1].shape, r)
        PROVE  /\ Shift(c, axis, B[i]) \in Cells(ts[i + 1].shape, r)
               /\ ts[1].at[c] = ts[i + 1].at[Shift(c, axis, B[i])]
    <3>1. i = 0 /\ i + 1 = 1
      OBVIOUS
    <3>2. c \in [1 .. r -> Nat]
      BY DEF Cells
    <3>3. Shift(c, axis, 0) = c
      <4>1. c[axis] - 0 = c[axis]
        BY <1>1, <3>2
      <4> QED
        BY <1>1, <3>2, <4>1 DEF Shift
    <3> QED
      BY <2>2, <3>1, <3>3
  <2>4. \A i \in 0 .. 0 + 1 : B[i] <= B[0 + 1]
    <3> TAKE i \in 0 .. 0 + 1
    <3>1. (i = 0 \/ i = 1) /\ B[1] \in Nat /\ 0 + 1 = 1
      BY <1>1, <1>2
    <3> QED
      BY <1>2, <3>1
  <2>5. Laid(ts[1], 0, B, ts, s, axis, r)
    BY <2>1, <2>2, <2>3, <2>4 DEF Laid
  <2> QED
    BY <1>3, <2>1, <2>5
<1>5. ASSUME NEW k \in 0 .. n, k \in A, k < n PROVE k + 1 \in A
  <2> DEFINE x == w[k]  u == ts[k + 2]  v == w[k + 1]
  <2>1. k \in 0 .. n - 1 /\ k + 1 \in 0 .. n /\ k + 2 \in 1 .. n + 1 /\ (k + 1) + 1 = k + 2
        /\ k + 1 \in 0 .. n + 1 /\ k + 2 \in 0 .. n + 1
    BY <1>1, <1>5
  <2>2. Laid(x, k, B, ts, s, axis, r)
    BY <1>5
  <2>3. v = Cat(x, u, axis) /\ Agrees(u, s, axis, r)
    BY <1>1, <1>3, <2>1
  <2> HIDE DEF x, u, v
  <2>4. Agrees(x, s, axis, r) /\ x.shape[axis] = B[k + 1]
    BY <2>2 DEF Laid
  <2>5. Numeric(x, r) /\ Agrees(u, x.shape, axis, r)
    BY <2>3, <2>4 DEF Agrees
  <2>6. Ended(x, u, axis, r)
    BY <1>1, <2>5, CatIs
  <2>7. /\ Agrees(v, x.shape, axis, r) /\ v.shape[axis] = x.shape[axis] + u.shape[axis]
        /\ \A c \in Cells(v.shape, r) :
              /\ c[axis] < x.shape[axis] => c \in Cells(x.shape, r) /\ v.at[c] = x.at[c]
              /\ ~(c[axis] < x.shape[axis]) =>
                    /\ Shift(c, axis, x.shape[axis]) \in Cells(u.shape, r)
                    /\ v.at[c] = u.at[Shift(c, axis, x.shape[axis])]
    BY <2>3, <2>6 DEF Ended
  <2>8. Agrees(v, s, axis, r)
    BY <2>4, <2>7 DEF Agrees
  <2>9. B[k + 2] = B[k + 1] + u.shape[axis] /\ B[k + 1] \in Nat /\ B[k + 2] \in Nat
        /\ u.shape[axis] \in Nat
    BY <1>0, <1>2, <2>1 DEF u
  <2>10. v.shape[axis] = B[(k + 1) + 1]
    BY <2>1, <2>4, <2>7, <2>9
  <2>11. \A i \in 0 .. (k + 1) + 1 : B[i] <= B[(k + 1) + 1]
    <3> TAKE i \in 0 .. (k + 1) + 1
    <3>1. CASE i = k + 2
      BY <2>1, <2>9, <3>1
    <3>2. CASE i # k + 2
      <4>1. i \in 0 .. k + 1 /\ i \in 0 .. n + 1
        BY ONLY <1>1, <2>1, <3>2, i \in 0 .. (k + 1) + 1, k \in 0 .. n
      <4>2. B[i] <= B[k + 1] /\ B[i] \in Nat
        BY <1>2, <2>2, <4>1 DEF Laid
      <4> QED
        BY <2>1, <2>9, <4>2
    <3> QED
      BY <3>1, <3>2
  <2>12. ASSUME NEW i \in 0 .. k + 1, NEW c \in Cells(v.shape, r),
                B[i] <= c[axis], c[axis] < B[i + 1]
         PROVE  /\ Shift(c, axis, B[i]) \in Cells(ts[i + 1].shape, r)
                /\ v.at[c] = ts[i + 1].at[Shift(c, axis, B[i])]
    <3>0. c[axis] \in Nat
      BY <1>1 DEF Cells
    <3>1. CASE i = k + 1
      <4>1. ~(c[axis] < x.shape[axis]) /\ i + 1 = k + 2
        BY <2>4, <2>9, <2>12, <3>0, <3>1
      <4> QED
        BY <2>4, <2>7, <3>1, <4>1 DEF u
    <3>2. CASE i # k + 1
      <4>1. i \in 0 .. k /\ i + 1 \in 0 .. k + 1 /\ i + 1 \in 0 .. n + 1
        BY ONLY <1>1, <2>1, <3>2, i \in 0 .. k + 1, k \in 0 .. n
      <4>2. B[i + 1] <= B[k + 1] /\ B[i + 1] \in Nat
        BY <1>2, <2>2, <4>1 DEF Laid
      <4>3. c[axis] < x.shape[axis]
        BY <2>4, <2>9, <2>12, <3>0, <4>2
      <4>4. c \in Cells(x.shape, r) /\ v.at[c] = x.at[c]
        BY <2>7, <4>3
      <4>5. /\ Shift(c, axis, B[i]) \in Cells(ts[i + 1].shape, r)
            /\ x.at[c] = ts[i + 1].at[Shift(c, axis, B[i])]
        BY <2>2, <2>12, <4>1, <4>4 DEF Laid
      <4> QED
        BY <4>4, <4>5
    <3> QED
      BY <3>1, <3>2
  <2>13. Laid(v, k + 1, B, ts, s, axis, r)
    BY <2>8, <2>10, <2>11, <2>12 DEF Laid
  <2> QED
    BY <2>1, <2>13 DEF v
<1> HIDE DEF A
<1>6. 0 .. n \subseteq A
  BY ONLY <1>1, <1>4, <1>5, UpTo
<1>7. n \in A
  BY <1>1, <1>6
<1> QED
  BY <1>3, <1>7 DEF A

(* Sums grow by their last term.                                           *)
LEMMA SumStep ==
  ASSUME NEW n \in Nat, NEW v \in [1 .. n + 1 -> Int], NEW u \in [1 .. n -> Int],
         \A i \in 1 .. n : u[i] = v[i]
  PROVE  SumOf(v) = SumOf(u) + v[n + 1]
<1> DEFINE N == n + 1
<1>0. N \in Nat /\ v \in [1 .. N -> Int]
  OBVIOUS
<1> HIDE DEF N
<1>1. PICK w \in [0 .. N -> Int] :
         /\ w[0] = 0 /\ SumOf(v) = w[N]
         /\ \A k \in 0 .. N - 1 : w[k + 1] = w[k] + v[k + 1]
  BY ONLY <1>0, SumFold
<1>2. PICK x \in [0 .. n -> Int] :
         /\ x[0] = 0 /\ SumOf(u) = x[n]
         /\ \A k \in 0 .. n - 1 : x[k + 1] = x[k] + u[k + 1]
  BY SumFold
<1> DEFINE A == {k \in 0 .. n : w[k] = x[k]}
<1>3. 0 \in A
  BY <1>1, <1>2
<1>4. ASSUME NEW k \in 0 .. n, k \in A, k < n PROVE k + 1 \in A
  <2>1. k \in 0 .. n - 1 /\ k \in 0 .. N - 1 /\ k + 1 \in 1 .. n /\ k + 1 \in 0 .. n
    BY <1>4 DEF N
  <2> QED
    BY <1>1, <1>2, <1>4, <2>1
<1> HIDE DEF A
<1>5. 0 .. n \subseteq A
  BY ONLY <1>3, <1>4, n \in Nat, UpTo
<1>6. w[n] = x[n]
  BY <1>5 DEF A
<1>7. n \in 0 .. N - 1 /\ N = n + 1
  BY DEF N
<1> QED
  BY <1>1, <1>2, <1>6, <1>7

(* The sum of no terms.                                                    *)
LEMMA SumEmpty ==
  ASSUME NEW v \in [1 .. 0 -> Int]
  PROVE  SumOf(v) = 0
<1>1. 0 \in Nat
  OBVIOUS
<1> QED
  BY <1>1, SumFold
=============================================================================
