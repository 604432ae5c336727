--------------------------- MODULE MainLoop_proofs ---------------------------
(***************************************************************************)
(* For every set of requests and every size of pipe, frame and count       *)
(* field: the worker carries out exactly what was written, answers it once *)
(* and decodably, ends for a reason only, an error costs no buffer, and    *)
(* what comes back is what the buffer was made from.                       *)
(*                                                                         *)
(* A frame that is decoded is the frame that was encoded, or, if its count *)
(* wrapped, is refused; and what the worker holds together with what is in *)
(* the pipe is always the rest of what was written.                        *)
(***************************************************************************)
EXTENDS MainLoop, SequenceTheorems, WellFoundedInduction, TLAPS

-----------------------------------------------------------------------------
(* Induction, over sets.                                                   *)

(* A set of numbers has a least element.                                   *)
LEMMA LeastNumber ==
  ASSUME NEW T \in SUBSET Nat, T # {}
  PROVE  \E x \in T : \A y \in T : x <= y
<1> DEFINE R == OpToRel(<, Nat)
<1>1. IsWellFoundedOn(R, Nat)
  BY NatLessThanWellFounded
<1>2. \A x, y \in Nat : x < y => <<x, y>> \in R
  BY DEF OpToRel
<1> HIDE DEF R
<1>3. PICK x \in T : \A y \in T : ~ (<<y, x>> \in R)
  BY <1>1, WFMin
<1>4. \A y \in T : ~(y < x)
  BY <1>2, <1>3
<1> QED
  BY <1>4

(* What holds first, and from each number to the next, holds up to n.      *)
LEMMA UpTo ==
  ASSUME NEW m \in Nat, NEW n \in Nat, NEW A, m \in A,
         \A i \in m .. n : i \in A /\ i < n => i + 1 \in A
  PROVE  m .. n \subseteq A
<1> DEFINE T == (m .. n) \ A
<1> SUFFICES ASSUME T # {} PROVE FALSE
  OBVIOUS
<1>1. T \in SUBSET Nat
  OBVIOUS
<1> HIDE DEF T
<1>2. PICK x \in T : \A y \in T : x <= y
  BY <1>1, LeastNumber
<1>3. x \in m .. n /\ x \notin A /\ x # m
  BY <1>2 DEF T
<1>4. x - 1 \in m .. n /\ x - 1 \notin T /\ x - 1 < n
  BY <1>1, <1>2, <1>3
<1>5. x - 1 \in A
  BY <1>4 DEF T
<1> QED
  BY <1>3, <1>4, <1>5

-----------------------------------------------------------------------------
(* Sequences of sequences, one after the other.                            *)

(* The first i of them, joined.                                            *)
Joined(s) ==
  LET u[i \in 0 .. Len(s)] == IF i = 0 THEN <<>> ELSE u[i - 1] \o s[i]
  IN  u

(* The recursive definition of Joined is of the function that satisfies it.*)
LEMMA JoinedIsChosen ==
  ASSUME NEW s, NEW g,
         g = [i \in 0 .. Len(s) |-> IF i = 0 THEN <<>> ELSE g[i - 1] \o s[i]]
  PROVE  Joined(s) = [i \in 0 .. Len(s) |-> IF i = 0 THEN <<>> ELSE Joined(s)[i - 1] \o s[i]]
  BY ZenonT(30) DEF Joined

(* Each part is joined to those before it.                                 *)
LEMMA JoinedEquation ==
  ASSUME NEW s, Len(s) \in Nat
  PROVE  /\ Joined(s)[0] = <<>>
         /\ \A i \in 0 .. Len(s) : i # 0 => Joined(s)[i] = Joined(s)[i - 1] \o s[i]
<1> DEFINE B(g, i) == IF i = 0 THEN <<>> ELSE g[i - 1] \o s[i]
           N == Len(s)
           A == {n \in Nat : \E g : g = [i \in 0 .. n |-> B(g, i)]}
<1>1. ASSUME NEW g, NEW h, NEW i \in Nat, \A j \in Nat : j < i => g[j] = h[j]
      PROVE  B(g, i) = B(h, i)
  <2>1. i # 0 => i - 1 \in Nat /\ i - 1 < i
    OBVIOUS
  <2> QED
    BY <1>1, <2>1
<1>2. ASSUME NEW g, g = [i \in 0 .. N |-> B(g, i)]
      PROVE  Joined(s) = [i \in 0 .. N |-> B(Joined(s), i)]
  BY <1>2, JoinedIsChosen
<1> N \in Nat
  OBVIOUS
<1>3. 0 \in A
  <2> DEFINE g == [i \in 0 .. 0 |-> <<>>]
  <2>1. \A i \in 0 .. 0 : B(g, i) = <<>>
    OBVIOUS
  <2>2. g = [i \in 0 .. 0 |-> B(g, i)]
    BY <2>1
  <2> HIDE DEF g, B
  <2>3. \E f : f = [i \in 0 .. 0 |-> B(f, i)]
    BY <2>2
  <2> QED
    BY <2>3
<1> HIDE DEF B, N
<1>4. ASSUME NEW n \in Nat, n \in A PROVE n + 1 \in A
  <2>1. PICK g : g = [i \in 0 .. n |-> B(g, i)]
    BY <1>4
  <2> DEFINE h == [i \in 0 .. n + 1 |-> IF i = n + 1 THEN B(g, n + 1) ELSE g[i]]
  <2>2. \A j \in 0 .. n : h[j] = g[j]
    OBVIOUS
  <2>3. ASSUME NEW i \in 0 .. n + 1 PROVE h[i] = B(h, i)
    <3>1. i \in Nat /\ \A j \in Nat : j < i => j \in 0 .. n
      OBVIOUS
    <3>2. \A j \in Nat : j < i => g[j] = h[j]
      BY <2>2, <3>1
    <3> HIDE DEF h
    <3>3. B(g, i) = B(h, i)
      BY <1>1, <3>1, <3>2
    <3> USE DEF h
    <3>4. h[i] = B(g, i)
      BY <2>1
    <3> QED
      BY <3>3, <3>4
  <2>4. h = [i \in 0 .. n + 1 |-> B(h, i)]
    BY <2>3
  <2> HIDE DEF h
  <2>5. \E f : f = [i \in 0 .. n + 1 |-> B(f, i)]
    BY <2>4
  <2> QED
    BY <2>5
<1>5. 0 .. N \subseteq A
  <2> HIDE DEF A
  <2> QED
    BY <1>3, <1>4, UpTo
<1>6. PICK g : g = [i \in 0 .. N |-> B(g, i)]
  BY <1>5
<1>7. Joined(s) = [i \in 0 .. N |-> B(Joined(s), i)]
  BY <1>2, <1>6
<1>8. \A i \in 0 .. N : Joined(s)[i] = B(Joined(s), i)
  BY <1>7
<1>9. 0 \in 0 .. N
  OBVIOUS
<1>10. ASSUME NEW i \in 0 .. N
       PROVE  B(Joined(s), i) = IF i = 0 THEN <<>> ELSE Joined(s)[i - 1] \o s[i]
  BY DEF B
<1>11. /\ Joined(s)[0] = <<>>
       /\ \A i \in 0 .. N : i # 0 => Joined(s)[i] = Joined(s)[i - 1] \o s[i]
  BY <1>8, <1>9, <1>10
<1> QED
  BY <1>11 DEF N

(* Joined parts are sequences, each of which begins with the shorter ones. *)
LEMMA JoinedFacts ==
  ASSUME NEW S, NEW s \in Seq(Seq(S))
  PROVE  /\ \A i \in 0 .. Len(s) : Joined(s)[i] \in Seq(S) /\ Len(Joined(s)[i]) \in Nat
         /\ Joined(s)[0] = <<>> /\ Len(Joined(s)[0]) = 0
         /\ \A i \in 1 .. Len(s) :
              /\ Joined(s)[i] = Joined(s)[i - 1] \o s[i]
              /\ Len(Joined(s)[i]) = Len(Joined(s)[i - 1]) + Len(s[i])
<1> DEFINE J == Joined(s)
           n == Len(s)
           A == {i \in 0 .. n : J[i] \in Seq(S)}
<1>1. n \in Nat /\ \A i \in 1 .. n : s[i] \in Seq(S)
  BY LenProperties
<1>2. J[0] = <<>> /\ \A i \in 0 .. n : i # 0 => J[i] = J[i - 1] \o s[i]
  BY <1>1, JoinedEquation
<1> HIDE DEF J, n
<1>3. 0 \in A
  <2>1. <<>> \in Seq(S) /\ 0 \in 0 .. n
    BY <1>1, EmptySeq
  <2> QED
    BY <1>2, <2>1
<1>4. ASSUME NEW i \in 0 .. n, i \in A, i < n PROVE i + 1 \in A
  <2>1. i + 1 \in 1 .. n /\ i + 1 \in 0 .. n /\ i + 1 # 0 /\ (i + 1) - 1 = i
    BY <1>1, <1>4
  <2>2. J[i + 1] = J[i] \o s[i + 1]
    BY <1>2, <2>1
  <2>3. s[i + 1] \in Seq(S) /\ J[i] \in Seq(S)
    BY <1>1, <1>4, <2>1
  <2>4. J[i] \o s[i + 1] \in Seq(S)
    BY <2>3, ConcatProperties
  <2> QED
    BY <2>1, <2>2, <2>4
<1>5. 0 .. n \subseteq A
  <2> HIDE DEF A
  <2> QED
    BY <1>1, <1>3, <1>4, UpTo
<1>6. \A i \in 0 .. n : J[i] \in Seq(S) /\ Len(J[i]) \in Nat
  BY <1>5
<1>7. ASSUME NEW i \in 1 .. n
      PROVE  J[i] = J[i - 1] \o s[i] /\ Len(J[i]) = Len(J[i - 1]) + Len(s[i])
  <2>1. i \in 0 .. n /\ i # 0 /\ i - 1 \in 0 .. n
    BY <1>1
  <2>2. J[i] = J[i - 1] \o s[i]
    BY <1>2, <2>1
  <2>3. J[i - 1] \in Seq(S) /\ s[i] \in Seq(S)
    BY <1>1, <1>6, <2>1
  <2> QED
    BY <2>2, <2>3
<1> QED
  BY <1>2, <1>6, <1>7 DEF J, n

(* The recursive definition of FlattenSeq likewise.                        *)
LEMMA FlattenIsChosen ==
  ASSUME NEW s, NEW g,
         g = [i \in 1 .. Len(s) |-> IF i = 1 THEN s[i] ELSE g[i - 1] \o s[i]]
  PROVE  \E f : /\ f = [i \in 1 .. Len(s) |-> IF i = 1 THEN s[i] ELSE f[i - 1] \o s[i]]
                /\ FlattenSeq(s) = IF Len(s) = 0 THEN s ELSE f[Len(s)]
<1> DEFINE F == CHOOSE f : f = [i \in 1 .. Len(s) |-> IF i = 1 THEN s[i] ELSE f[i - 1] \o s[i]]
<1>1. F = [i \in 1 .. Len(s) |-> IF i = 1 THEN s[i] ELSE F[i - 1] \o s[i]]
  BY ZenonT(30)
<1>2. FlattenSeq(s) = IF Len(s) = 0 THEN s ELSE F[Len(s)]
  BY ZenonT(30) DEF FlattenSeq
<1> HIDE DEF F
<1> QED
  BY <1>1, <1>2

(* FlattenSeq joins all of them.                                           *)
LEMMA FlattenIs ==
  ASSUME NEW S, NEW s \in Seq(Seq(S))
  PROVE  FlattenSeq(s) = Joined(s)[Len(s)] /\ FlattenSeq(s) \in Seq(S)
<1> DEFINE J == Joined(s)
           n == Len(s)
           g == [i \in 1 .. n |-> J[i]]
<1>1. /\ n \in Nat /\ J[0] = <<>>
      /\ \A i \in 0 .. n : J[i] \in Seq(S)
      /\ \A i \in 1 .. n : J[i] = J[i - 1] \o s[i] /\ s[i] \in Seq(S)
  BY JoinedFacts, LenProperties
<1> HIDE DEF J, n
<1>2. n = 0 => s = <<>>
  BY EmptySeq, LenProperties DEF n
<1>3. ASSUME 1 \in 1 .. n PROVE J[1] = <<>> \o s[1] /\ s[1] \in Seq(S)
  <2>1. J[1] = J[1 - 1] \o s[1] /\ s[1] \in Seq(S)
    BY <1>3, <1>1
  <2>2. 1 - 1 = 0
    OBVIOUS
  <2>3. J[1 - 1] = <<>>
    BY <1>1, <2>2
  <2> QED
    BY <2>1, <2>3
<1>4. ASSUME NEW i \in 1 .. n
      PROVE  g[i] = IF i = 1 THEN s[i] ELSE g[i - 1] \o s[i]
  <2>1. CASE i = 1
    <3>1. J[1] = <<>> \o s[1] /\ s[1] \in Seq(S)
      BY <1>3, <2>1
    <3>2. J[1] = s[1]
      BY <3>1, ConcatEmptySeq
    <3> QED
      BY <2>1, <3>2
  <2>2. CASE i # 1
    <3>1. i - 1 \in 1 .. n
      BY <1>1, <2>2
    <3> QED
      BY <1>1, <2>2, <3>1
  <2> QED
    BY <2>1, <2>2
<1>5. g = [i \in 1 .. n |-> IF i = 1 THEN s[i] ELSE g[i - 1] \o s[i]]
  BY <1>4
<1> HIDE DEF g
<1>6. PICK f : /\ f = [i \in 1 .. n |-> IF i = 1 THEN s[i] ELSE f[i - 1] \o s[i]]
               /\ FlattenSeq(s) = IF n = 0 THEN s ELSE f[n]
  BY <1>5, FlattenIsChosen DEF n
<1>7. ASSUME n # 0 PROVE f[n] = J[n]
  <2> DEFINE A == {i \in 1 .. n : f[i] = J[i]}
  <2>1. 1 \in 1 .. n /\ n \in 1 .. n
    BY <1>1, <1>7
  <2>2. \A i \in 1 .. n : f[i] = IF i = 1 THEN s[i] ELSE f[i - 1] \o s[i]
    BY <1>6
  <2>3. J[1] = <<>> \o s[1] /\ s[1] \in Seq(S)
    BY <1>3, <2>1
  <2>4. 1 \in A
    BY <2>1, <2>2, <2>3, ConcatEmptySeq
  <2>5. ASSUME NEW i \in 1 .. n, i \in A, i < n PROVE i + 1 \in A
    <3>1. i + 1 \in 1 .. n /\ i + 1 # 1 /\ (i + 1) - 1 = i
      BY <1>1, <2>5
    <3>2. f[i + 1] = f[i] \o s[i + 1] /\ J[i + 1] = J[i] \o s[i + 1]
      BY <1>1, <2>2, <3>1
    <3> QED
      BY <2>5, <3>1, <3>2
  <2>6. 1 .. n \subseteq A
    <3> HIDE DEF A
    <3> QED
      BY <1>1, <2>4, <2>5, UpTo
  <2> QED
    BY <2>1, <2>6
<1>8. n \in 0 .. n
  BY <1>1
<1>9. FlattenSeq(s) = J[n]
  BY <1>1, <1>2, <1>6, <1>7
<1> QED
  BY <1>1, <1>8, <1>9 DEF J, n

(* The sequence u begins with t.                                           *)
Begins(t, u) == Len(t) <= Len(u) /\ \A k \in 1 .. Len(t) : u[k] = t[k]

(* Beginnings stay when something follows.                                 *)
LEMMA ConcatBegins ==
  ASSUME NEW S, NEW t \in Seq(S), NEW a \in Seq(S), NEW b \in Seq(S), Begins(t, a)
  PROVE  Begins(t, a \o b)
<1> DEFINE l == Len(t)
           m == Len(a)
           n == Len(b)
           c == a \o b
<1>1. l \in Nat /\ m \in Nat /\ n \in Nat
  BY LenProperties
<1>2. Len(c) = m + n /\ \A k \in 1 .. m + n : c[k] = IF k <= m THEN a[k] ELSE b[k - m]
  BY ConcatProperties
<1>3. l <= m /\ \A k \in 1 .. l : a[k] = t[k]
  BY DEF Begins
<1> HIDE DEF l, m, n, c
<1>4. l <= Len(c)
  BY <1>1, <1>2, <1>3
<1>5. ASSUME NEW k \in 1 .. l PROVE c[k] = t[k]
  <2>1. k \in 1 .. m + n /\ k <= m
    BY <1>1, <1>3
  <2> QED
    BY <1>2, <1>3, <2>1
<1> QED
  BY <1>4, <1>5 DEF Begins, l, c

(* A longer join begins with a shorter one.                                *)
LEMMA JoinedBegins ==
  ASSUME NEW S, NEW s \in Seq(Seq(S)), NEW i \in 0 .. Len(s), NEW j \in i .. Len(s)
  PROVE  Begins(Joined(s)[i], Joined(s)[j])
<1> DEFINE J == Joined(s)
           n == Len(s)
           A == {m \in i .. n : Begins(J[i], J[m])}
<1>1. /\ n \in Nat
      /\ \A m \in 0 .. n : J[m] \in Seq(S) /\ Len(J[m]) \in Nat
      /\ \A m \in 1 .. n : J[m] = J[m - 1] \o s[m]
  BY JoinedFacts, LenProperties
<1>2. i \in 0 .. n /\ j \in i .. n /\ i \in Nat
  OBVIOUS
<1>3. \A m \in 1 .. n : s[m] \in Seq(S)
  BY ElementOfSeq
<1> HIDE DEF J, n
<1>4. i \in A
  <2>1. i \in i .. n
    BY <1>1, <1>2
  <2>2. Begins(J[i], J[i])
    BY <1>1, <1>2 DEF Begins
  <2> QED
    BY <2>1, <2>2
<1>5. ASSUME NEW m \in i .. n, m \in A, m < n PROVE m + 1 \in A
  <2>1. m + 1 \in i .. n /\ m + 1 \in 1 .. n /\ m \in 0 .. n /\ (m + 1) - 1 = m
    BY <1>1, <1>2, <1>5
  <2>2. J[m + 1] = J[m] \o s[m + 1] /\ J[m] \in Seq(S) /\ s[m + 1] \in Seq(S)
    BY <1>1, <1>3, <2>1
  <2>3. Begins(J[i], J[m]) /\ J[i] \in Seq(S)
    BY <1>1, <1>2, <1>5
  <2>4. Begins(J[i], J[m + 1])
    BY <2>2, <2>3, ConcatBegins
  <2> QED
    BY <2>1, <2>4
<1>6. i .. n \subseteq A
  <2> HIDE DEF A
  <2> QED
    BY <1>1, <1>2, <1>4, <1>5, UpTo
<1>7. j \in A
  BY <1>2, <1>6
<1> QED
  BY <1>7 DEF J, n

(* The parts are where the lengths before them say.                        *)
LEMMA PartOfJoined ==
  ASSUME NEW S, NEW s \in Seq(Seq(S)), NEW i \in 1 .. Len(s), NEW j \in i .. Len(s)
  PROVE  /\ Len(Joined(s)[i - 1]) \in Nat /\ Len(s[i]) \in Nat
         /\ Len(Joined(s)[i]) = Len(Joined(s)[i - 1]) + Len(s[i])
         /\ Len(Joined(s)[i]) <= Len(Joined(s)[j])
         /\ \A k \in 1 .. Len(s[i]) : Joined(s)[j][Len(Joined(s)[i - 1]) + k] = s[i][k]
<1> DEFINE a == Joined(s)[i - 1]
           b == Joined(s)[i]
           c == Joined(s)[j]
<1>1. i \in 0 .. Len(s) /\ i - 1 \in 0 .. Len(s) /\ Len(s) \in Nat
  BY LenProperties
<1>2. a \in Seq(S) /\ s[i] \in Seq(S) /\ b = a \o s[i] /\ Len(a) \in Nat /\ Len(s[i]) \in Nat
  <2>1. a \in Seq(S) /\ b = a \o s[i] /\ Len(a) \in Nat
    BY <1>1, JoinedFacts
  <2>2. s[i] \in Seq(S)
    BY ElementOfSeq
  <2> QED
    BY <2>1, <2>2, LenProperties
<1>3. Begins(b, c)
  BY <1>1, JoinedBegins
<1> HIDE DEF a, b, c
<1>4. /\ Len(b) = Len(a) + Len(s[i])
      /\ \A k \in 1 .. Len(a) + Len(s[i]) : b[k] = IF k <= Len(a) THEN a[k] ELSE s[i][k - Len(a)]
  BY <1>2, ConcatProperties
<1>5. ASSUME NEW k \in 1 .. Len(s[i]) PROVE c[Len(a) + k] = s[i][k]
  <2>1. Len(a) + k \in 1 .. Len(b) /\ ~(Len(a) + k <= Len(a)) /\ (Len(a) + k) - Len(a) = k
    BY <1>2, <1>4
  <2> QED
    BY <1>3, <1>4, <2>1 DEF Begins
<1>6. Len(b) <= Len(c)
  BY <1>3 DEF Begins
<1> QED
  BY <1>2, <1>4, <1>5, <1>6 DEF a, b, c

-----------------------------------------------------------------------------
(* The frame.                                                              *)

(* What follows in a concatenation is where the length before it says.     *)
LEMMA ConcatIs ==
  ASSUME NEW S, NEW a \in Seq(S), NEW b \in Seq(S)
  PROVE  /\ a \o b \in Seq(S) /\ Len(a \o b) = Len(a) + Len(b)
         /\ \A k \in 1 .. Len(a) : (a \o b)[k] = a[k]
         /\ \A k \in 1 .. Len(b) : (a \o b)[Len(a) + k] = b[k]
  OBVIOUS

(* One entry of it, from the one before.                                   *)
Start(table, first, g, i) == IF i = 1 THEN first ELSE g[i - 1] + Number(table[i - 1])

(* The recursive definition of Starts is of the function that satisfies it.*)
LEMMA StartsIsChosen ==
  ASSUME NEW table, NEW first, NEW m, m = Len(table) + 1, NEW g,
         g = [i \in 1 .. m |-> g[i]], \A i \in 1 .. m : g[i] = Start(table, first, g, i)
  PROVE  \A i \in 1 .. m : Starts(table, first)[i] = Start(table, first, Starts(table, first), i)
<1>1. g = [i \in 1 .. m |-> IF i = 1 THEN first ELSE g[i - 1] + Number(table[i - 1])]
  BY Zenon DEF Start
<1>2. g = [i \in 1 .. Len(table) + 1 |->
             IF i = 1 THEN first ELSE g[i - 1] + Number(table[i - 1])]
  BY <1>1, Zenon
<1>3. Starts(table, first) =
        [i \in 1 .. Len(table) + 1 |->
           IF i = 1 THEN first ELSE Starts(table, first)[i - 1] + Number(table[i - 1])]
  BY <1>2, ZenonT(30) DEF Starts
<1> QED
  BY <1>3, Zenon DEF Start

(* A blob starts after those before it.                                    *)
LEMMA StartsAre ==
  ASSUME NEW S, NEW blobs \in Seq(Seq(S)), NEW first \in Nat,
         NEW table, Len(table) \in 0 .. Len(blobs),
         \A i \in 1 .. Len(table) : table[i] = <<Len(blobs[i])>>
  PROVE  \A i \in 1 .. Len(table) + 1 :
           Starts(table, first)[i] = first + Len(Joined(blobs)[i - 1])
<1> DEFINE n == Len(table)
           L(i) == Len(Joined(blobs)[i])
           M(i) == Number(table[i])
           g == [i \in 1 .. n + 1 |-> first + L(i - 1)]
           t == Starts(table, first)
<1>1. /\ n \in Nat /\ L(0) = 0 /\ \A i \in 0 .. n : L(i) \in Nat
      /\ \A i \in 1 .. n : L(i) = L(i - 1) + Len(blobs[i])
  <2>1. /\ Len(blobs) \in Nat /\ L(0) = 0
        /\ \A i \in 0 .. Len(blobs) : L(i) \in Nat
        /\ \A i \in 1 .. Len(blobs) : L(i) = L(i - 1) + Len(blobs[i])
    BY JoinedFacts, LenProperties
  <2>2. n \in Nat /\ n <= Len(blobs)
    BY <2>1
  <2>3. \A i \in 0 .. n : i \in 0 .. Len(blobs)
    BY <2>1, <2>2
  <2>4. \A i \in 1 .. n : i \in 1 .. Len(blobs)
    BY <2>1, <2>2
  <2> HIDE DEF L
  <2> QED
    BY <2>1, <2>2, <2>3, <2>4
<1>2. \A i \in 1 .. n : M(i) = Len(blobs[i]) /\ Len(blobs[i]) \in Nat
  <2> SUFFICES ASSUME NEW i \in 1 .. n PROVE M(i) = Len(blobs[i]) /\ Len(blobs[i]) \in Nat
    OBVIOUS
  <2>1. i \in 1 .. Len(blobs)
    BY LenProperties
  <2>2. blobs[i] \in Seq(S)
    BY <2>1, ElementOfSeq
  <2> QED
    BY <2>2, LenProperties DEF Number
<1> HIDE DEF L
<1>3. ASSUME NEW i \in 1 .. n + 1
      PROVE  g[i] = IF i = 1 THEN first ELSE g[i - 1] + M(i - 1)
  <2>1. CASE i = 1
    <3>1. i - 1 = 0
      BY <2>1
    <3> QED
      BY <1>1, <2>1, <3>1
  <2>2. CASE i # 1
    <3>1. i - 1 \in 1 .. n /\ i - 1 \in 1 .. n + 1 /\ (i - 1) - 1 \in 0 .. n
      BY <1>1, <2>2
    <3>2. L(i - 1) = L((i - 1) - 1) + M(i - 1) /\ L((i - 1) - 1) \in Nat /\ M(i - 1) \in Nat
      BY <1>1, <1>2, <3>1
    <3>3. g[i - 1] = first + L((i - 1) - 1) /\ g[i] = first + L(i - 1)
      BY <3>1
    <3> HIDE DEF g, M
    <3> QED
      BY <2>2, <3>2, <3>3
  <2> QED
    BY <2>1, <2>2
<1> HIDE DEF M
<1>4. g = [i \in 1 .. n + 1 |-> g[i]]
  OBVIOUS
<1> HIDE DEF g
<1>5. \A i \in 1 .. n + 1 : t[i] = IF i = 1 THEN first ELSE t[i - 1] + M(i - 1)
  <2> DEFINE m == n + 1
  <2>1. m = Len(table) + 1
    OBVIOUS
  <2>2. \A i \in 1 .. m : g[i] = Start(table, first, g, i)
    BY <1>3 DEF M, Start
  <2>3. g = [i \in 1 .. m |-> g[i]]
    BY <1>4
  <2> HIDE DEF m, t
  <2>4. \A i \in 1 .. m : t[i] = Start(table, first, t, i)
    BY <2>1, <2>2, <2>3, StartsIsChosen DEF t
  <2> QED
    BY <2>4 DEF M, Start, m
<1> HIDE DEF t
<1> DEFINE A == {i \in 1 .. n + 1 : t[i] = g[i]}
<1>6. 1 \in A
  <2>1. 1 \in 1 .. n + 1
    BY <1>1
  <2> QED
    BY <1>3, <1>5, <2>1
<1>7. ASSUME NEW i \in 1 .. n + 1, i \in A, i < n + 1 PROVE i + 1 \in A
  <2>1. i + 1 \in 1 .. n + 1 /\ i + 1 # 1 /\ (i + 1) - 1 = i
    BY <1>1, <1>7
  <2>2. t[i + 1] = t[i] + M(i) /\ g[i + 1] = g[i] + M(i)
    BY <1>3, <1>5, <2>1
  <2> QED
    BY <1>7, <2>1, <2>2
<1>8. 1 .. n + 1 \subseteq A
  <2> HIDE DEF A
  <2>1. n + 1 \in Nat /\ 1 \in Nat
    BY <1>1
  <2> QED
    BY <1>6, <1>7, <2>1, UpTo
<1>9. \A i \in 1 .. n + 1 : t[i] = g[i]
  BY <1>8
<1> QED
  BY <1>9 DEF t, g, L, n

(* What a frame consists of, symbol by symbol.                             *)
IsLayout(f, S, id, count, meta, blobs) ==
  /\ f \in Seq(S) /\ Len(blobs) \in Nat /\ Len(FlattenSeq(blobs)) \in Nat
  /\ Len(f) = 7 + Len(blobs) + Len(FlattenSeq(blobs))
  /\ f[1] = Magic /\ f[2] = <<id>> /\ f[3] = <<2>> /\ f[4] = <<count>>
  /\ \A i \in 1 .. Len(blobs) : f[5 + i] = <<Len(blobs[i])>>
  /\ f[6 + Len(blobs)] = Open /\ f[7 + Len(blobs)] = <<"object", meta>>
  /\ \A k \in 1 .. Len(FlattenSeq(blobs)) : f[7 + Len(blobs) + k] = FlattenSeq(blobs)[k]

(* A frame is laid out so.                                                 *)
LEMMA LayoutIs ==
  ASSUME NEW S, NEW blobs \in Seq(Seq(S)), NEW id, NEW count, NEW meta,
         \A k \in Nat : <<k>> \in S, <<id>> \in S, <<count>> \in S, <<"object", meta>> \in S
  PROVE  IsLayout(Layout(id, count, meta, blobs), S, id, count, meta, blobs)
<1> DEFINE f == Layout(id, count, meta, blobs)
           N == Len(blobs)
           flat == FlattenSeq(blobs)
           a == <<Magic, <<id>>, <<2>>, <<count>>, <<0>> >>
           b == Lengths(blobs)
           c == <<Open, <<"object", meta>> >>
           ab == a \o b
           abc == ab \o c
<1>1. f = abc \o flat
  BY DEF Layout
<1> HIDE DEF f
<1>2. /\ a \in Seq(S) /\ Len(a) = 5
      /\ a[1] = Magic /\ a[2] = <<id>> /\ a[3] = <<2>> /\ a[4] = <<count>>
  <2>1. Magic \in S /\ <<2>> \in S /\ <<0>> \in S
    BY DEF Magic
  <2> QED
    BY <2>1
<1>3. c \in Seq(S) /\ Len(c) = 2 /\ c[1] = Open /\ c[2] = <<"object", meta>>
  <2>1. Open \in S
    BY DEF Open
  <2> QED
    BY <2>1
<1>4. N \in Nat /\ DOMAIN blobs = 1 .. N /\ \A i \in 1 .. N : Len(blobs[i]) \in Nat
  <2>1. \A i \in 1 .. Len(blobs) : blobs[i] \in Seq(S)
    BY ElementOfSeq
  <2> QED
    BY <2>1, LenProperties
<1>5. b \in Seq(S) /\ Len(b) = N /\ \A i \in 1 .. N : b[i] = <<Len(blobs[i])>>
  <2>1. b = [i \in 1 .. N |-> <<Len(blobs[i])>>]
    BY <1>4 DEF Lengths
  <2>2. \A i \in 1 .. N : <<Len(blobs[i])>> \in S
    BY <1>4
  <2> QED
    BY <1>4, <2>1, <2>2
<1>6. flat \in Seq(S) /\ Len(flat) \in Nat
  BY FlattenIs, LenProperties
<1>7. ab = a \o b /\ abc = ab \o c
  OBVIOUS
<1> HIDE DEF N, flat, a, b, c, ab, abc
<1>8. a \in Seq(S) /\ b \in Seq(S) /\ c \in Seq(S)
  BY <1>2, <1>3, <1>5
<1>9. /\ ab \in Seq(S) /\ Len(ab) = 5 + N
      /\ \A k \in 1 .. 5 : ab[k] = a[k]
      /\ \A k \in 1 .. N : ab[5 + k] = b[k]
  <2>1. /\ a \o b \in Seq(S) /\ Len(a \o b) = Len(a) + Len(b)
        /\ \A k \in 1 .. Len(a) : (a \o b)[k] = a[k]
        /\ \A k \in 1 .. Len(b) : (a \o b)[Len(a) + k] = b[k]
    BY <1>8, ConcatIs
  <2> QED
    BY <2>1, <1>2, <1>5, <1>7
<1>10. ab \in Seq(S)
  BY <1>9
<1>11. /\ abc \in Seq(S) /\ Len(abc) = (5 + N) + 2
       /\ \A k \in 1 .. 5 + N : abc[k] = ab[k]
       /\ \A k \in 1 .. 2 : abc[(5 + N) + k] = c[k]
  <2>1. /\ ab \o c \in Seq(S) /\ Len(ab \o c) = Len(ab) + Len(c)
        /\ \A k \in 1 .. Len(ab) : (ab \o c)[k] = ab[k]
        /\ \A k \in 1 .. Len(c) : (ab \o c)[Len(ab) + k] = c[k]
    BY <1>8, <1>10, ConcatIs
  <2> QED
    BY <2>1, <1>3, <1>7, <1>9
<1>12. Len(abc) = 7 + N
  BY <1>4, <1>11
<1>13. abc \in Seq(S) /\ flat \in Seq(S)
  BY <1>6, <1>11
<1>14. /\ f \in Seq(S) /\ Len(f) = (7 + N) + Len(flat)
       /\ \A k \in 1 .. 7 + N : f[k] = abc[k]
       /\ \A k \in 1 .. Len(flat) : f[(7 + N) + k] = flat[k]
  <2>1. /\ abc \o flat \in Seq(S) /\ Len(abc \o flat) = Len(abc) + Len(flat)
        /\ \A k \in 1 .. Len(abc) : (abc \o flat)[k] = abc[k]
        /\ \A k \in 1 .. Len(flat) : (abc \o flat)[Len(abc) + k] = flat[k]
    BY <1>13, ConcatIs
  <2> QED
    BY <2>1, <1>1, <1>6, <1>11, <1>12
<1>15. f[1] = Magic /\ f[2] = <<id>> /\ f[3] = <<2>> /\ f[4] = <<count>>
  <2>1. \A k \in 1 .. 4 : k \in 1 .. 5 /\ k \in 1 .. 5 + N /\ k \in 1 .. 7 + N
    BY <1>4
  <2>2. \A k \in 1 .. 4 : f[k] = a[k]
    BY <1>9, <1>11, <1>14, <2>1
  <2> QED
    BY <1>2, <2>2
<1>16. ASSUME NEW i \in 1 .. N PROVE f[5 + i] = b[i]
  <2>1. 5 + i \in 1 .. 5 + N /\ 5 + i \in 1 .. 7 + N
    BY <1>4
  <2> QED
    BY <1>9, <1>11, <1>14, <2>1
<1>17. ASSUME NEW k \in 1 .. 2 PROVE f[(5 + N) + k] = c[k]
  <2>1. (5 + N) + k \in 1 .. 7 + N
    BY <1>4
  <2> QED
    BY <1>11, <1>14, <2>1
<1>18. f[6 + N] = Open /\ f[7 + N] = <<"object", meta>>
  <2>1. 6 + N = (5 + N) + 1 /\ 7 + N = (5 + N) + 2
    BY <1>4
  <2>2. 1 \in 1 .. 2 /\ 2 \in 1 .. 2
    OBVIOUS
  <2> QED
    BY <1>3, <1>17, <2>1, <2>2
<1> QED
  BY <1>4, <1>5, <1>6, <1>14, <1>15, <1>16, <1>18, Zenon DEF IsLayout, f, N, flat

(* What a part of a sequence consists of.                                  *)
LEMMA PartIs ==
  ASSUME NEW S, NEW s \in Seq(S), NEW m \in Nat, NEW n \in Nat, m <= n, n <= Len(s)
  PROVE  /\ SubSeq(s, m + 1, n) \in Seq(S)
         /\ Len(SubSeq(s, m + 1, n)) = n - m
         /\ \A k \in 1 .. n - m : SubSeq(s, m + 1, n)[k] = s[m + k]
<1> DEFINE l == m + 1
           p == SubSeq(s, l, n)
<1>1. Len(s) \in Nat /\ l \in Int /\ n \in Int
  BY LenProperties
<1>2. \A i \in l .. n : s[i] \in S
  <2>1. \A i \in l .. n : i \in 1 .. Len(s)
    BY <1>1
  <2> QED
    BY <2>1, ElementOfSeq
<1> HIDE DEF l
<1>3. /\ p \in Seq(S) /\ Len(p) = IF l <= n THEN n - l + 1 ELSE 0
      /\ \A i \in 1 .. n - l + 1 : p[i] = s[l + i - 1]
  BY <1>1, <1>2, SubSeqProperties
<1> HIDE DEF p
<1>4. Len(p) = n - m
  BY <1>3 DEF l
<1>5. ASSUME NEW k \in 1 .. n - m PROVE p[k] = s[m + k]
  <2>1. k \in 1 .. n - l + 1 /\ l + k - 1 = m + k
    BY DEF l
  <2> QED
    BY <1>3, <2>1
<1> QED
  BY <1>3, <1>4, <1>5 DEF p, l

(* A frame whose count field holds the number of its blobs is read as it    *)
(* was written, and one whose count wrapped is refused (protocol.py:        *)
(* decode_frame; protocol.ex: encode).                                      *)
LEMMA FrameIsRead ==
  ASSUME NEW S, NEW blobs \in Seq(Seq(S)), NEW id, NEW meta, NEW count \in 0 .. Len(blobs),
         \A k \in Nat : <<k>> \in S, <<id>> \in S, <<"object", meta>> \in S,
         NEW f, f = Layout(id, count, meta, blobs)
  PROVE  /\ count = Len(blobs) =>
              Decode(f) = [ok |-> TRUE, id |-> id, meta |-> meta, blobs |-> blobs]
         /\ count # Len(blobs) => Decode(f) = Bad
<1> DEFINE N == Len(blobs)
           J == Joined(blobs)
           flat == FlattenSeq(blobs)
           table == SubSeq(f, 6, 5 + count)
           text == SubSeq(f, 5 + count + 1, 5 + count + 2)
           from == Starts(table, 5 + count + 2)
<1>1. N \in Nat /\ count \in Nat /\ count <= N /\ <<count>> \in S
  BY LenProperties
<1>2. N = Len(blobs) /\ flat = FlattenSeq(blobs)
  OBVIOUS
<1>3. flat = J[N] /\ Len(flat) = Len(J[N]) /\ \A i \in 0 .. N : Len(J[i]) \in Nat
  BY FlattenIs, JoinedFacts
<1> HIDE DEF N, J, flat
<1>4. /\ f \in Seq(S) /\ Len(flat) \in Nat
      /\ Len(f) = 7 + N + Len(flat)
      /\ f[1] = Magic /\ f[2] = <<id>> /\ f[3] = <<2>> /\ f[4] = <<count>>
      /\ \A i \in 1 .. N : f[5 + i] = <<Len(blobs[i])>>
      /\ f[6 + N] = Open /\ f[7 + N] = <<"object", meta>>
      /\ \A k \in 1 .. Len(flat) : f[7 + N + k] = flat[k]
  <2>1. IsLayout(f, S, id, count, meta, blobs)
    BY <1>1, LayoutIs
  <2> QED
    BY <2>1, Zenon DEF IsLayout, N, flat
<1>5. Number(f[2]) = id /\ Number(f[3]) = 2 /\ Number(f[4]) = count
  BY <1>4 DEF Number
<1>6. /\ Len(table) = count
      /\ \A i \in 1 .. count : table[i] = <<Len(blobs[i])>>
  <2>1. 5 \in Nat /\ 5 + count \in Nat /\ 5 <= 5 + count /\ 5 + count <= Len(f) /\ 5 + 1 = 6
        /\ (5 + count) - 5 = count
    BY <1>1, <1>4
  <2>2. /\ Len(table) = count
        /\ \A k \in 1 .. count : table[k] = f[5 + k]
    BY <1>4, <2>1, PartIs
  <2>3. \A i \in 1 .. count : i \in 1 .. N
    BY <1>1
  <2> QED
    BY <1>4, <2>2, <2>3
<1>7. text \in Seq(S) /\ Len(text) = 2 /\ text[1] = f[5 + count + 1] /\ text[2] = f[5 + count + 2]
  <2> DEFINE m == 5 + count
             n == m + 2
  <2>1. m \in Nat /\ n \in Nat /\ m <= n /\ n <= Len(f) /\ n - m = 2
    BY <1>1, <1>4
  <2>2. 1 \in 1 .. 2 /\ 2 \in 1 .. 2
    OBVIOUS
  <2>3. text = SubSeq(f, m + 1, n)
    OBVIOUS
  <2> HIDE DEF m, n, text
  <2>4. text \in Seq(S) /\ Len(text) = 2 /\ \A k \in 1 .. 2 : text[k] = f[m + k]
    BY <1>4, <2>1, <2>3, PartIs
  <2> QED
    BY <2>2, <2>4 DEF m
<1> HIDE DEF table, text
<1>8. \A i \in 1 .. count + 1 : from[i] = (7 + count) + Len(J[i - 1])
  <2>1. 5 + count + 2 = 7 + count /\ 7 + count \in Nat /\ Len(table) \in 0 .. Len(blobs)
    BY <1>1, <1>6 DEF N
  <2>2. \A i \in 1 .. Len(table) : table[i] = <<Len(blobs[i])>>
    BY <1>6
  <2>3. \A i \in 1 .. Len(table) + 1 :
          Starts(table, 7 + count)[i] = (7 + count) + Len(Joined(blobs)[i - 1])
    BY <2>1, <2>2, StartsAre
  <2> QED
    BY <1>6, <2>1, <2>3 DEF J
<1> HIDE DEF from
<1>9. from[count + 1] = (7 + count) + Len(J[count])
  <2>1. count + 1 \in 1 .. count + 1 /\ (count + 1) - 1 = count
    BY <1>1
  <2> QED
    BY <1>8, <2>1
<1>10. Decode(f) =
         IF Len(f) < 5 \/ f[1] # Magic \/ 5 + count > Len(f) THEN Bad
         ELSE IF Len(text) # 2 \/ text[1] # Open THEN Bad
         ELSE IF from[count + 1] # Len(f) THEN Bad
         ELSE [ok |-> TRUE, id |-> id, meta |-> text[2][2],
               blobs |-> [i \in 1 .. count |-> SubSeq(f, from[i] + 1, from[i + 1])]]
  <2>1. 5 + 1 = 6
    OBVIOUS
  <2> QED
    BY <1>5, <2>1, Zenon DEF Decode, Header, table, text, from
<1>11. CASE count # N
  <2>1. count < N /\ count \in 0 .. N /\ N \in count .. N
    BY <1>1, <1>11
  <2>2. Len(J[count]) <= Len(J[N])
    <3>1. Begins(Joined(blobs)[count], Joined(blobs)[N])
      BY <2>1, JoinedBegins DEF N
    <3> QED
      BY <3>1 DEF Begins, J
  <2>3. Len(J[count]) \in Nat
    BY <1>3, <2>1
  <2>4. from[count + 1] # Len(f)
    <3> DEFINE u == Len(J[count])
               v == Len(flat)
               w == Len(f)
               x == from[count + 1]
    <3>1. x = 7 + count + u /\ u \in Nat /\ u <= v
      BY <1>3, <1>9, <2>2, <2>3
    <3>2. w = 7 + N + v /\ v \in Nat
      BY <1>4
    <3> HIDE DEF u, v, w, x
    <3>3. x # w
      BY <1>1, <2>1, <3>1, <3>2
    <3> QED
      BY <3>3 DEF x, w
  <2>5. Decode(f) = Bad
    BY <1>10, <2>4, Zenon
  <2> QED
    BY <1>11, <2>5 DEF N
<1>12. CASE count = N
  <2>1. from[count + 1] = Len(f)
    BY <1>4, <1>3, <1>9, <1>12
  <2>2. ~(Len(f) < 5 \/ 5 + count > Len(f))
    BY <1>1, <1>4
  <2>3. text[1] = Open /\ text[2] = <<"object", meta>>
    <3>1. 5 + count + 1 = 6 + N /\ 5 + count + 2 = 7 + N
      BY <1>1, <1>12
    <3> QED
      BY <1>4, <1>7, <3>1
  <2>4. text[2][2] = meta
    BY <2>3
  <2>5. ASSUME NEW i \in 1 .. N
        PROVE  SubSeq(f, from[i] + 1, from[i + 1]) = blobs[i]
    <3> DEFINE m == 7 + N + Len(J[i - 1])
               n == 7 + N + Len(J[i])
               b == blobs[i]
               p == SubSeq(f, m + 1, n)
    <3>1. /\ Len(J[i - 1]) \in Nat /\ Len(b) \in Nat
          /\ Len(J[i]) = Len(J[i - 1]) + Len(b) /\ Len(J[i]) <= Len(J[N])
          /\ \A k \in 1 .. Len(b) : J[N][Len(J[i - 1]) + k] = b[k]
      <4>1. i \in 1 .. Len(blobs) /\ N \in i .. Len(blobs)
        BY <1>1 DEF N
      <4> QED
        BY <4>1, PartOfJoined DEF J
    <3>2. from[i] = m /\ from[i + 1] = n
      <4>1. i \in 1 .. count + 1 /\ i + 1 \in 1 .. count + 1 /\ (i + 1) - 1 = i
        BY <1>1, <1>12
      <4> QED
        BY <1>8, <1>12, <4>1
    <3>3. b \in Seq(S)
      BY ElementOfSeq DEF N
    <3> HIDE DEF b
    <3>4. m \in Nat /\ n \in Nat /\ m <= n /\ n <= Len(f) /\ n - m = Len(b)
      <4> DEFINE u == Len(J[i - 1])
                 v == Len(J[i])
                 w == Len(flat)
                 l == Len(f)
                 d == Len(b)
      <4>1. u \in Nat /\ d \in Nat /\ v = u + d /\ v <= w
        BY <1>3, <3>1
      <4>2. l = 7 + N + w /\ w \in Nat
        BY <1>4
      <4>3. m = 7 + N + u /\ n = 7 + N + v
        OBVIOUS
      <4> HIDE DEF u, v, w, l, d, m, n
      <4>4. m \in Nat /\ n \in Nat /\ m <= n /\ n <= l /\ n - m = d
        BY <1>1, <4>1, <4>2, <4>3
      <4> QED
        BY <4>4 DEF l, d
    <3> HIDE DEF m, n
    <3>5. p \in Seq(S) /\ Len(p) = n - m /\ \A k \in 1 .. n - m : p[k] = f[m + k]
      BY <1>4, <3>4, PartIs
    <3> HIDE DEF p
    <3>6. ASSUME NEW k \in 1 .. Len(b) PROVE p[k] = b[k]
      <4>1. p[k] = f[m + k]
        BY <3>4, <3>5
      <4>2. Len(J[i - 1]) + k \in 1 .. Len(flat) /\ m + k = 7 + N + (Len(J[i - 1]) + k)
        <5> DEFINE u == Len(J[i - 1])
                   v == Len(J[i])
                   w == Len(flat)
                   d == Len(b)
        <5>1. u \in Nat /\ d \in Nat /\ v = u + d /\ v <= w /\ m = 7 + N + u
          BY <1>3, <3>1 DEF m
        <5>2. k \in 1 .. d
          OBVIOUS
        <5> HIDE DEF u, v, w, d
        <5>3. u + k \in 1 .. w /\ m + k = 7 + N + (u + k)
          BY <1>1, <1>4, <5>1, <5>2 DEF w
        <5> QED
          BY <5>3 DEF u, w
      <4>3. f[m + k] = flat[Len(J[i - 1]) + k]
        BY <1>4, <4>2
      <4> QED
        BY <1>3, <3>1, <4>1, <4>3
    <3>7. p = b
      <4>1. Len(p) = Len(b)
        BY <3>4, <3>5
      <4>2. \A k \in 1 .. Len(p) : p[k] = b[k]
        BY <3>6, <4>1
      <4> QED
        BY <3>3, <3>5, <4>1, <4>2, SeqEqual
    <3> QED
      BY <3>2, <3>7 DEF p, b
  <2>6. [i \in 1 .. count |-> SubSeq(f, from[i] + 1, from[i + 1])] = blobs
    <3>1. blobs = [i \in 1 .. N |-> blobs[i]]
      BY LenProperties DEF N
    <3> QED
      BY <1>12, <2>5, <3>1
  <2>7. Decode(f) = [ok |-> TRUE, id |-> id, meta |-> meta, blobs |-> blobs]
    BY <1>4, <1>7, <1>10, <2>1, <2>2, <2>3, <2>4, <2>6, Zenon
  <2> QED
    BY <1>12, <2>7 DEF N
<1> QED
  BY <1>11, <1>12

-----------------------------------------------------------------------------
(* The stream.                                                             *)

Metas == {r.meta : r \in Requests}
Symbol == Byte \cup {<<k>> : k \in Nat} \cup {<<"object", m>> : m \in Metas}
SentSet == [id : Nat, meta : Metas, blobs : Seq(Seq(Byte))]

(* A sent request's frame, and it with its length before it.               *)
Frame(r) == Encode(r.id, r.meta, r.blobs)
Packet(r) == << <<Len(Frame(r)) \div 16>>, <<Len(Frame(r)) % 16>> >> \o Frame(r)

(* The packets of sent requests; the symbols of all, and of the first h.   *)
Packets(s) == [i \in 1 .. Len(s) |-> Packet(s[i])]
All(s) == Joined(Packets(s))[Len(s)]
At(s, h) == Len(Joined(Packets(s))[h])

(* A sequence of sequences is one over a larger set too.                   *)
LEMMA OverLargerSet ==
  ASSUME NEW B, NEW S, B \subseteq S, NEW s \in Seq(Seq(B))
  PROVE  s \in Seq(Seq(S))
<1>1. Len(s) \in Nat /\ s = [i \in 1 .. Len(s) |-> s[i]]
  BY LenProperties
<1>2. ASSUME NEW i \in 1 .. Len(s) PROVE s[i] \in Seq(S)
  <2>1. s[i] \in Seq(B)
    BY ElementOfSeq
  <2> DEFINE u == s[i]
  <2>2. Len(u) \in Nat /\ u = [k \in 1 .. Len(u) |-> u[k]] /\ \A k \in 1 .. Len(u) : u[k] \in S
    BY <2>1, LenProperties, ElementOfSeq
  <2> HIDE DEF u
  <2>3. u \in Seq(S)
    BY <2>2
  <2> QED
    BY <2>3 DEF u
<1> DEFINE n == Len(s)
<1>3. n \in Nat /\ \A i \in 1 .. n : s[i] \in Seq(S)
  BY <1>1, <1>2
<1>4. s = [i \in 1 .. n |-> s[i]]
  BY <1>1
<1> HIDE DEF n
<1>5. [i \in 1 .. n |-> s[i]] \in Seq(Seq(S))
  BY <1>3
<1> QED
  BY <1>4, <1>5

(* Every part of a frame is a symbol.                                      *)
LEMMA SymbolsAre ==
  /\ \A k \in Nat : <<k>> \in Symbol
  /\ \A r \in SentSet :
       /\ <<r.id>> \in Symbol /\ <<"object", r.meta>> \in Symbol /\ r.id \in Nat
       /\ r.blobs \in Seq(Seq(Symbol)) /\ Len(r.blobs) \in Nat
       /\ Len(r.blobs) % CountBase \in 0 .. Len(r.blobs)
       /\ Len(r.blobs) % CountBase # Len(r.blobs) => Wraps(r)
<1>1. \A k \in Nat : <<k>> \in Symbol
  BY DEF Symbol
<1> SUFFICES ASSUME NEW r \in SentSet
             PROVE  /\ <<r.id>> \in Symbol /\ <<"object", r.meta>> \in Symbol /\ r.id \in Nat
                    /\ r.blobs \in Seq(Seq(Symbol)) /\ Len(r.blobs) \in Nat
                    /\ Len(r.blobs) % CountBase \in 0 .. Len(r.blobs)
                    /\ Len(r.blobs) % CountBase # Len(r.blobs) => Wraps(r)
  BY <1>1
<1>2. r.id \in Nat /\ r.meta \in Metas /\ r.blobs \in Seq(Seq(Byte))
  BY DEF SentSet
<1>3. r.blobs \in Seq(Seq(Symbol)) /\ Len(r.blobs) \in Nat
  <2>1. Byte \subseteq Symbol
    BY DEF Symbol
  <2> QED
    BY <1>2, <2>1, OverLargerSet, LenProperties
<1> DEFINE n == Len(r.blobs)
<1>4. /\ n % CountBase \in 0 .. n
      /\ n % CountBase # n => n >= CountBase
  <2>1. n \in Nat /\ CountBase \in Nat \ {0}
    BY <1>3, BoundAssumption
  <2> HIDE DEF n
  <2> QED
    BY <2>1
<1> QED
  BY <1>1, <1>2, <1>3, <1>4 DEF Symbol, Wraps

(* What a packet consists of.                                              *)
LEMMA PacketIs ==
  ASSUME NEW r \in SentSet
  PROVE  /\ Frame(r) \in Seq(Symbol) /\ Len(Frame(r)) \in Nat
         /\ Packet(r) \in Seq(Symbol) /\ Len(Packet(r)) = 2 + Len(Frame(r))
         /\ 16 * Number(Packet(r)[1]) + Number(Packet(r)[2]) = Len(Frame(r))
         /\ \A k \in 1 .. Len(Frame(r)) : Packet(r)[2 + k] = Frame(r)[k]
<1> DEFINE f == Frame(r)
           n == Len(f)
           a == << <<n \div 16>>, <<n % 16>> >>
<1>1. f \in Seq(Symbol) /\ n \in Nat
  <2> DEFINE count == Len(r.blobs) % CountBase
             g == Layout(r.id, count, r.meta, r.blobs)
  <2>1. /\ \A k \in Nat : <<k>> \in Symbol
        /\ <<r.id>> \in Symbol /\ <<"object", r.meta>> \in Symbol
        /\ r.blobs \in Seq(Seq(Symbol)) /\ count \in Nat
    BY SymbolsAre
  <2>2. f = g
    BY DEF Frame, Encode
  <2>3. <<count>> \in Symbol
    BY <2>1
  <2> HIDE DEF count, f
  <2>4. IsLayout(g, Symbol, r.id, count, r.meta, r.blobs)
    BY <2>1, <2>3, LayoutIs
  <2>5. g \in Seq(Symbol)
    BY <2>4 DEF IsLayout
  <2> QED
    BY <2>2, <2>5, LenProperties
<1>2. Packet(r) = a \o f
  BY DEF Packet
<1> HIDE DEF f
<1>3. n \div 16 \in Nat /\ n % 16 \in Nat /\ 16 * (n \div 16) + (n % 16) = n
  <2>1. n \in Nat
    BY <1>1
  <2> HIDE DEF n
  <2>2. n \div 16 \in Nat
    BY <2>1
  <2>3. n % 16 \in Nat
    BY <2>1
  <2>4. 16 * (n \div 16) + (n % 16) = n
    BY <2>1
  <2> QED
    BY <2>2, <2>3, <2>4
<1>4. /\ a \in Seq(Symbol) /\ Len(a) = 2
      /\ Number(a[1]) = n \div 16 /\ Number(a[2]) = n % 16
  <2>1. <<n \div 16>> \in Symbol /\ <<n % 16>> \in Symbol
    BY <1>3, SymbolsAre
  <2> HIDE DEF n
  <2> QED
    BY <2>1 DEF Number
<1>5. a \in Seq(Symbol)
  BY <1>4
<1> HIDE DEF a
<1>6. /\ a \o f \in Seq(Symbol) /\ Len(a \o f) = Len(a) + Len(f)
      /\ \A k \in 1 .. Len(a) : (a \o f)[k] = a[k]
      /\ \A k \in 1 .. Len(f) : (a \o f)[Len(a) + k] = f[k]
  BY <1>1, <1>5, ConcatIs
<1> DEFINE p == a \o f
<1> HIDE DEF p, n
<1>7. /\ p \in Seq(Symbol) /\ Len(p) = 2 + Len(f)
      /\ \A k \in 1 .. 2 : p[k] = a[k]
      /\ \A k \in 1 .. Len(f) : p[2 + k] = f[k]
  BY <1>4, <1>6 DEF p
<1>8. p[1] = a[1] /\ p[2] = a[2]
  BY <1>7
<1> QED
  BY <1>1, <1>2, <1>3, <1>4, <1>7, <1>8 DEF p, n, f

(* Where the packets are in the stream.                                    *)
StreamIs(s) ==
  /\ Len(s) \in Nat /\ All(s) \in Seq(Symbol) /\ Len(All(s)) = At(s, Len(s))
  /\ At(s, 0) = 0 /\ \A h \in 0 .. Len(s) : At(s, h) \in Nat /\ At(s, h) <= Len(All(s))
  /\ \A h \in 1 .. Len(s) :
       /\ At(s, h) = At(s, h - 1) + Len(Packet(s[h]))
       /\ \A k \in 1 .. Len(Packet(s[h])) : All(s)[At(s, h - 1) + k] = Packet(s[h])[k]

(* The packets of sent requests are sequences of symbols.                  *)
LEMMA PacketsAre ==
  ASSUME NEW s \in Seq(SentSet)
  PROVE  /\ Len(s) \in Nat /\ Packets(s) \in Seq(Seq(Symbol)) /\ Len(Packets(s)) = Len(s)
         /\ \A i \in 1 .. Len(s) : Packets(s)[i] = Packet(s[i]) /\ s[i] \in SentSet
<1> DEFINE n == Len(s)
<1>1. n \in Nat /\ \A i \in 1 .. n : s[i] \in SentSet
  BY LenProperties, ElementOfSeq
<1>2. \A i \in 1 .. n : Packet(s[i]) \in Seq(Symbol)
  BY <1>1, PacketIs
<1>3. Packets(s) = [i \in 1 .. n |-> Packet(s[i])]
  BY DEF Packets
<1> HIDE DEF n
<1>4. [i \in 1 .. n |-> Packet(s[i])] \in Seq(Seq(Symbol))
  BY <1>1, <1>2
<1>5. Len([i \in 1 .. n |-> Packet(s[i])]) = n
  BY <1>1
<1> QED
  BY <1>1, <1>3, <1>4, <1>5 DEF n

(* ... so that they are where the lengths before them say.                 *)
LEMMA StreamIsSo ==
  ASSUME NEW s \in Seq(SentSet)
  PROVE  StreamIs(s)
<1> DEFINE ps == Packets(s)
           J == Joined(ps)
           n == Len(s)
<1>1. /\ n \in Nat /\ ps \in Seq(Seq(Symbol)) /\ Len(ps) = n
      /\ \A i \in 1 .. n : ps[i] = Packet(s[i])
  BY PacketsAre
<1>2. n \in 0 .. n
  BY <1>1
<1> HIDE DEF ps, n
<1>3. /\ \A i \in 0 .. Len(ps) : Joined(ps)[i] \in Seq(Symbol) /\ Len(Joined(ps)[i]) \in Nat
      /\ Len(Joined(ps)[0]) = 0
      /\ \A i \in 1 .. Len(ps) : Len(Joined(ps)[i]) = Len(Joined(ps)[i - 1]) + Len(ps[i])
  BY <1>1, JoinedFacts
<1>4. All(s) = J[n] /\ \A h : At(s, h) = Len(J[h])
  BY DEF All, At, ps, n
<1>5. All(s) \in Seq(Symbol) /\ Len(All(s)) = At(s, n) /\ At(s, 0) = 0
  BY <1>1, <1>2, <1>3, <1>4
<1>6. ASSUME NEW h \in 0 .. n PROVE At(s, h) \in Nat /\ At(s, h) <= Len(All(s))
  <2>1. h \in 0 .. Len(ps) /\ n \in h .. Len(ps)
    BY <1>1
  <2>2. Begins(Joined(ps)[h], Joined(ps)[n])
    BY <1>1, <2>1, JoinedBegins
  <2> QED
    BY <1>3, <1>4, <2>1, <2>2 DEF Begins
<1>7. ASSUME NEW h \in 1 .. n
      PROVE  /\ At(s, h) = At(s, h - 1) + Len(Packet(s[h]))
             /\ \A k \in 1 .. Len(Packet(s[h])) : All(s)[At(s, h - 1) + k] = Packet(s[h])[k]
  <2>1. h \in 1 .. Len(ps) /\ n \in h .. Len(ps) /\ ps[h] = Packet(s[h])
    BY <1>1
  <2>2. /\ Len(Joined(ps)[h]) = Len(Joined(ps)[h - 1]) + Len(ps[h])
        /\ \A k \in 1 .. Len(ps[h]) : Joined(ps)[n][Len(Joined(ps)[h - 1]) + k] = ps[h][k]
    BY <1>1, <2>1, PartOfJoined
  <2> QED
    BY <1>4, <2>1, <2>2
<1> QED
  BY <1>1, <1>5, <1>6, <1>7 DEF StreamIs, n

(* Joins of sequences that agree agree.                                    *)
LEMMA JoinedAgree ==
  ASSUME NEW S, NEW s \in Seq(Seq(S)), NEW t \in Seq(Seq(S)), Len(s) <= Len(t),
         \A i \in 1 .. Len(s) : t[i] = s[i]
  PROVE  \A i \in 0 .. Len(s) : Joined(t)[i] = Joined(s)[i]
<1> DEFINE I == Joined(s)
           J == Joined(t)
           m == Len(s)
           n == Len(t)
           A == {i \in 0 .. m : J[i] = I[i]}
<1>1. m \in Nat /\ n \in Nat
  BY LenProperties
<1>2. I[0] = <<>> /\ \A i \in 1 .. m : I[i] = I[i - 1] \o s[i]
  BY JoinedFacts
<1>3. J[0] = <<>> /\ \A i \in 1 .. n : J[i] = J[i - 1] \o t[i]
  BY JoinedFacts
<1>4. m <= n /\ \A i \in 1 .. m : t[i] = s[i]
  OBVIOUS
<1> HIDE DEF I, J, m, n
<1>5. 0 \in A
  BY <1>1, <1>2, <1>3
<1>6. ASSUME NEW i \in 0 .. m, i \in A, i < m PROVE i + 1 \in A
  <2>1. i + 1 \in 1 .. m /\ i + 1 \in 1 .. n /\ i + 1 \in 0 .. m /\ (i + 1) - 1 = i
    BY <1>1, <1>4, <1>6
  <2>2. I[i + 1] = I[i] \o s[i + 1]
    BY <1>2, <2>1
  <2>3. J[i + 1] = J[i] \o t[i + 1]
    BY <1>3, <2>1
  <2> QED
    BY <1>4, <1>6, <2>1, <2>2, <2>3
<1>7. 0 .. m \subseteq A
  <2> HIDE DEF A
  <2> QED
    BY <1>1, <1>5, <1>6, UpTo
<1>8. \A i \in 0 .. m : J[i] = I[i]
  BY <1>7
<1> QED
  BY <1>8 DEF I, J, m

(* One more request puts its packet behind the others.                     *)
LEMMA StreamGrows ==
  ASSUME NEW s \in Seq(SentSet), NEW r \in SentSet
  PROVE  /\ Append(s, r) \in Seq(SentSet) /\ Len(Append(s, r)) = Len(s) + 1
         /\ \A i \in 1 .. Len(s) : Append(s, r)[i] = s[i]
         /\ Append(s, r)[Len(s) + 1] = r
         /\ All(Append(s, r)) = All(s) \o Packet(r)
         /\ \A h \in 0 .. Len(s) : At(Append(s, r), h) = At(s, h)
<1> DEFINE t == Append(s, r)
           n == Len(s)
           m == n + 1
           I == Joined(Packets(s))
           J == Joined(Packets(t))
<1>1. /\ t \in Seq(SentSet) /\ Len(t) = m /\ t[m] = r
      /\ \A i \in 1 .. n : t[i] = s[i]
  BY AppendProperties
<1> HIDE DEF t
<1>2. /\ n \in Nat /\ Packets(s) \in Seq(Seq(Symbol)) /\ Len(Packets(s)) = n
      /\ \A i \in 1 .. n : Packets(s)[i] = Packet(s[i])
  BY PacketsAre
<1>3. /\ Packets(t) \in Seq(Seq(Symbol)) /\ Len(Packets(t)) = m
      /\ \A i \in 1 .. m : Packets(t)[i] = Packet(t[i])
  BY <1>1, PacketsAre
<1>4. m \in Nat /\ m = n + 1
  BY <1>2
<1> HIDE DEF n, m
<1>5. \A i \in 0 .. n : J[i] = I[i]
  <2>1. Len(Packets(s)) <= Len(Packets(t))
    BY <1>2, <1>3, <1>4
  <2>2. ASSUME NEW i \in 1 .. Len(Packets(s)) PROVE Packets(t)[i] = Packets(s)[i]
    <3>1. i \in 1 .. n /\ i \in 1 .. m
      BY <1>2, <1>4
    <3> QED
      BY <1>1, <1>2, <1>3, <3>1
  <2>3. \A i \in 0 .. Len(Packets(s)) : Joined(Packets(t))[i] = Joined(Packets(s))[i]
    BY <1>2, <1>3, <2>1, <2>2, JoinedAgree
  <2> QED
    BY <1>2, <2>3
<1>6. J[m] = J[m - 1] \o Packet(r)
  <2>1. m \in 1 .. Len(Packets(t)) /\ m \in 1 .. m
    BY <1>2, <1>3, <1>4
  <2>2. Joined(Packets(t))[m] = Joined(Packets(t))[m - 1] \o Packets(t)[m]
    BY <1>3, <2>1, JoinedFacts
  <2> QED
    BY <1>1, <1>3, <2>1, <2>2
<1>7. m - 1 = n /\ n \in 0 .. n
  BY <1>2, <1>4
<1>8. All(t) = J[m] /\ All(s) = I[n]
  BY <1>1 DEF All, n
<1>9. \A h : At(t, h) = Len(J[h]) /\ At(s, h) = Len(I[h])
  BY DEF At
<1> QED
  BY <1>1, <1>4, <1>5, <1>6, <1>7, <1>8, <1>9 DEF t, n

-----------------------------------------------------------------------------
(* Sequences of anything.                                                  *)

IsSequence(s) == s \in Seq({s[i] : i \in 1 .. Len(s)})

(* What is appended is the last, and the others stay.                      *)
LEMMA AppendIs ==
  ASSUME NEW s, IsSequence(s), NEW e
  PROVE  /\ Len(s) \in Nat /\ IsSequence(Append(s, e)) /\ Len(Append(s, e)) = Len(s) + 1
         /\ DOMAIN s = 1 .. Len(s) /\ DOMAIN Append(s, e) = 1 .. Len(s) + 1
         /\ \A i \in 1 .. Len(s) : Append(s, e)[i] = s[i]
         /\ Append(s, e)[Len(s) + 1] = e /\ Last(Append(s, e)) = e
<1> DEFINE T == {s[i] : i \in 1 .. Len(s)}
           U == T \cup {e}
           t == Append(s, e)
           n == Len(s)
<1>1. s \in Seq(T) /\ n \in Nat /\ DOMAIN s = 1 .. n
  BY LenProperties DEF IsSequence
<1>2. s \in Seq(U) /\ e \in U
  <2>1. \A i \in 1 .. n : s[i] \in U
    OBVIOUS
  <2>2. s = [i \in 1 .. n |-> s[i]]
    BY <1>1, LenProperties
  <2> HIDE DEF n, U
  <2>3. [i \in 1 .. n |-> s[i]] \in Seq(U)
    BY <1>1, <2>1
  <2>4. s \in Seq(U)
    BY <2>2, <2>3
  <2> QED
    BY <2>4 DEF U
<1> HIDE DEF U
<1>3. /\ t \in Seq(U) /\ Len(t) = Len(s) + 1 /\ t[Len(s) + 1] = e
      /\ \A i \in 1 .. Len(s) : t[i] = s[i]
  BY <1>2, AppendProperties
<1> HIDE DEF t
<1>4. IsSequence(t) /\ DOMAIN t = 1 .. Len(t)
  <2> DEFINE V == {t[i] : i \in 1 .. Len(t)}
             m == Len(t)
  <2>1. m \in Nat /\ DOMAIN t = 1 .. m /\ t = [i \in 1 .. m |-> t[i]]
    BY <1>3, LenProperties
  <2>2. \A i \in 1 .. m : t[i] \in V
    OBVIOUS
  <2> HIDE DEF m, V
  <2>3. [i \in 1 .. m |-> t[i]] \in Seq(V)
    BY <2>1, <2>2
  <2> QED
    BY <2>1, <2>3 DEF IsSequence, m, V
<1>5. Last(t) = e
  BY <1>3 DEF Last
<1> QED
  BY <1>1, <1>3, <1>4, <1>5 DEF t, n

-----------------------------------------------------------------------------
(* The commands.                                                           *)

(* A buffer made from a blob: whole elements, as their carrier has them.   *)
Carries(b, made) ==
  /\ b.dtype = made.dtype /\ made.dtype \in Supported /\ made.blob \in Seq(Byte)
  /\ Len(made.blob) % Itemsize[made.dtype] = 0
  /\ \E shape : b.tensor = WireTensor(FromBuffer(made.blob, made.dtype), made.dtype, shape)

(* What the registry holds: such buffers, under ids that were given out.   *)
RegistryInv ==
  /\ nextId \in Nat
  /\ \A b \in DOMAIN origin : b \in Nat /\ b < nextId
  /\ \A b \in DOMAIN registry : b \in DOMAIN origin /\ Carries(registry[b], origin[b])

(* The elements of a blob.                                                 *)
LEMMA ElementsAre ==
  ASSUME NEW blob \in Seq(Byte), NEW dtype \in Supported
  PROVE  LET arr == FromBuffer(blob, dtype)
             n   == Len(blob) \div Itemsize[dtype]
         IN  /\ n \in Nat /\ arr = [i \in 1 .. n |-> arr[i]]
             /\ \A i \in 1 .. n : arr[i] \in Seq(Byte) /\ Len(arr[i]) = Itemsize[dtype]
<1> DEFINE l == Len(blob)
           z == Itemsize[dtype]
           n == l \div z
           arr == FromBuffer(blob, dtype)
<1>1. l \in Nat /\ z \in {1, 2, 4}
  BY LenProperties DEF Supported, Itemsize
<1>2. arr = [i \in 1 .. n |-> SubSeq(blob, (i - 1) * z + 1, i * z)]
  BY DEF FromBuffer
<1> HIDE DEF arr, z
<1>3. n \in Nat /\ \A i \in 1 .. n : (i - 1) * z \in Nat /\ i * z \in Nat
                                     /\ (i - 1) * z <= i * z /\ i * z - (i - 1) * z = z
                                     /\ i * z <= l
  <2> HIDE DEF l
  <2>1. CASE z = 1
    BY <1>1, <2>1
  <2>2. CASE z = 2
    BY <1>1, <2>2
  <2>3. CASE z = 4
    BY <1>1, <2>3
  <2> QED
    BY <1>1, <2>1, <2>2, <2>3
<1> HIDE DEF n
<1>4. ASSUME NEW i \in 1 .. n PROVE arr[i] \in Seq(Byte) /\ Len(arr[i]) = z
  <2> DEFINE a == (i - 1) * z
             b == i * z
             part == SubSeq(blob, a + 1, b)
  <2>1. arr[i] = part
    BY <1>2
  <2>2. a \in Nat /\ b \in Nat /\ a <= b /\ b <= Len(blob) /\ b - a = z
    BY <1>3
  <2> HIDE DEF a, b
  <2>3. part \in Seq(Byte) /\ Len(part) = b - a
    BY <2>2, PartIs
  <2> HIDE DEF part
  <2> QED
    BY <2>1, <2>2, <2>3
<1>5. arr = [i \in 1 .. n |-> arr[i]]
  BY <1>2
<1> QED
  BY <1>3, <1>4, <1>5 DEF arr, n, l, z

(* The places where elements of one size end.                              *)
LEMMA Multiples ==
  ASSUME NEW n \in Nat, NEW z \in {1, 2, 4}
  PROVE  /\ n * z \in Nat /\ (n * z) \div z = n /\ 0 * z = 0
         /\ \A i \in 1 .. n : /\ (i - 1) * z \in Nat /\ i * z \in Nat /\ (i - 1) * z <= i * z
                              /\ i * z = (i - 1) * z + z /\ i * z - (i - 1) * z = z
                              /\ i * z <= n * z
         /\ \A l \in Nat : l % z = 0 /\ l \div z = n => n * z = l
<1>1. CASE z = 1
  BY <1>1
<1>2. CASE z = 2
  BY <1>2
<1>3. CASE z = 4
  BY <1>3
<1> QED
  BY <1>1, <1>2, <1>3

(* Elements of one size, joined, are found again where they were put.      *)
LEMMA ElementsJoin ==
  ASSUME NEW dtype \in Supported, NEW n \in Nat, NEW w, w = [i \in 1 .. n |-> w[i]],
         \A i \in 1 .. n : w[i] \in Seq(Byte) /\ Len(w[i]) = Itemsize[dtype]
  PROVE  /\ ToBytes(w) \in Seq(Byte) /\ Len(ToBytes(w)) = n * Itemsize[dtype]
         /\ \A i \in 1 .. n : FromBuffer(ToBytes(w), dtype)[i] = w[i]
<1> DEFINE z == Itemsize[dtype]
           J == Joined(w)
           end(i) == i * z
           A == {i \in 0 .. n : Len(J[i]) = end(i)}
<1>1. z \in {1, 2, 4}
  BY DEF Supported, Itemsize
<1>2. \A i \in 1 .. n : w[i] \in Seq(Byte) /\ Len(w[i]) = z
  OBVIOUS
<1>3. FromBuffer(ToBytes(w), dtype)
        = [i \in 1 .. (Len(ToBytes(w)) \div z) |-> SubSeq(ToBytes(w), (i - 1) * z + 1, i * z)]
  BY DEF FromBuffer
<1> HIDE DEF z
<1>4. /\ end(n) \in Nat /\ end(n) \div z = n /\ end(0) = 0
      /\ \A i \in 1 .. n : /\ end(i - 1) \in Nat /\ end(i) \in Nat /\ end(i - 1) <= end(i)
                           /\ end(i) = end(i - 1) + z /\ end(i) - end(i - 1) = z
                           /\ end(i) <= end(n)
  BY <1>1, Multiples
<1>5. w \in Seq(Seq(Byte)) /\ Len(w) = n
  <2> DEFINE e(i) == w[i]
  <2>1. \A i \in 1 .. n : e(i) \in Seq(Byte)
    BY <1>2
  <2>2. w = [i \in 1 .. n |-> e(i)]
    OBVIOUS
  <2> HIDE DEF e
  <2> QED
    BY <2>1, <2>2
<1>6. /\ Len(J[0]) = 0
      /\ \A i \in 1 .. n : Len(J[i]) = Len(J[i - 1]) + Len(w[i])
  BY <1>5, JoinedFacts
<1>7. ToBytes(w) = J[n] /\ J[n] \in Seq(Byte)
  BY <1>5, FlattenIs DEF ToBytes
<1>8. ASSUME NEW i \in 1 .. n
      PROVE  \A x \in 1 .. Len(w[i]) : J[n][Len(J[i - 1]) + x] = w[i][x]
  <2>1. w \in Seq(Seq(Byte)) /\ i \in 1 .. Len(w) /\ n \in i .. Len(w)
    BY <1>5
  <2> QED
    BY ONLY <2>1, PartOfJoined
<1> HIDE DEF J
<1> DEFINE t == J[n]
<1>9. \A i \in 0 .. n : Len(J[i]) = end(i)
  <2> HIDE DEF end
  <2>1. 0 \in A
    BY <1>4, <1>6
  <2>2. ASSUME NEW i \in 0 .. n, i \in A, i < n PROVE i + 1 \in A
    <3>1. i + 1 \in 1 .. n /\ i + 1 \in 0 .. n /\ (i + 1) - 1 = i
      BY <2>2
    <3>2. Len(J[i + 1]) = Len(J[i]) + Len(w[i + 1]) /\ end(i + 1) = end(i) + z
      BY <1>4, <1>6, <3>1
    <3>3. Len(w[i + 1]) = z /\ Len(J[i]) = end(i)
      BY <1>2, <2>2, <3>1
    <3> QED
      BY <3>1, <3>2, <3>3
  <2>3. 0 .. n \subseteq A
    <3> HIDE DEF A
    <3> QED
      BY <2>1, <2>2, UpTo
  <2> QED
    BY <2>3
<1>10. t \in Seq(Byte) /\ Len(t) = end(n)
  <2>1. n \in 0 .. n
    OBVIOUS
  <2> QED
    BY <1>7, <1>9, <2>1
<1>11. FromBuffer(t, dtype) = [i \in 1 .. n |-> SubSeq(t, end(i - 1) + 1, end(i))]
  <2>1. Len(t) \div z = n
    <3> HIDE DEF end, t
    <3> QED
      BY <1>4, <1>10
  <2> QED
    BY <1>3, <1>7, <2>1
<1> HIDE DEF end
<1>12. ASSUME NEW i \in 1 .. n PROVE SubSeq(t, end(i - 1) + 1, end(i)) = w[i]
  <2> DEFINE a == end(i - 1)
             b == end(i)
             part == SubSeq(t, a + 1, b)
  <2>1. /\ a \in Nat /\ b \in Nat /\ a <= b /\ b - a = z /\ b <= Len(t)
        /\ w[i] \in Seq(Byte) /\ Len(w[i]) = z
    BY <1>2, <1>4, <1>10
  <2>2. \A x \in 1 .. z : t[a + x] = w[i][x]
    <3>1. i - 1 \in 0 .. n
      OBVIOUS
    <3> QED
      BY <1>8, <1>9, <2>1, <3>1
  <2>5. t \in Seq(Byte)
    BY <1>10
  <2> HIDE DEF a, b, t
  <2>3. part \in Seq(Byte) /\ Len(part) = b - a /\ \A x \in 1 .. b - a : part[x] = t[a + x]
    BY ONLY <2>1, <2>5, PartIs
  <2> DEFINE v == w[i]
  <2>6. v \in Seq(Byte) /\ Len(v) = z /\ \A x \in 1 .. z : t[a + x] = v[x]
    BY <2>1, <2>2
  <2> HIDE DEF part, v
  <2>7. part \in Seq(Byte) /\ v \in Seq(Byte) /\ Len(part) = Len(v)
        /\ \A x \in 1 .. Len(part) : part[x] = v[x]
    BY <2>1, <2>3, <2>6
  <2>8. part = v
    BY ONLY <2>7, SeqEqual
  <2>4. part = w[i]
    BY <2>8 DEF v
  <2> QED
    BY <2>4 DEF part, a, b
<1> QED
  BY <1>7, <1>10, <1>11, <1>12 DEF z, end

(* Pairs, one after the other.                                             *)
LEMMA PairsJoin ==
  ASSUME NEW S, NEW pair \in Seq(Seq(S)), \A i \in 1 .. Len(pair) : Len(pair[i]) = 2
  PROVE  /\ FlattenSeq(pair) \in Seq(S) /\ Len(FlattenSeq(pair)) = 2 * Len(pair)
         /\ \A i \in 1 .. Len(pair) : /\ FlattenSeq(pair)[2 * i - 1] = pair[i][1]
                                      /\ FlattenSeq(pair)[2 * i] = pair[i][2]
<1> DEFINE n == Len(pair)
           J == Joined(pair)
           A == {i \in 0 .. n : Len(J[i]) = 2 * i}
<1>1. n \in Nat
  BY LenProperties
<1>2. /\ Len(J[0]) = 0
      /\ \A i \in 1 .. n : Len(J[i]) = Len(J[i - 1]) + Len(pair[i])
  BY JoinedFacts
<1>3. FlattenSeq(pair) = J[n] /\ FlattenSeq(pair) \in Seq(S)
  BY FlattenIs
<1>4. \A i \in 1 .. n : Len(pair[i]) = 2
  OBVIOUS
<1>5. ASSUME NEW i \in 1 .. n
      PROVE  \A k \in 1 .. 2 : J[n][Len(J[i - 1]) + k] = pair[i][k]
  <2>1. i \in 1 .. Len(pair) /\ n \in i .. Len(pair)
    BY <1>1
  <2>2. \A k \in 1 .. Len(pair[i]) : Joined(pair)[n][Len(Joined(pair)[i - 1]) + k] = pair[i][k]
    <3>1. pair \in Seq(Seq(S))
      OBVIOUS
    <3> QED
      BY ONLY <2>1, <3>1, PartOfJoined
  <2> QED
    BY <1>4, <2>2
<1> HIDE DEF n, J
<1>6. 0 \in A
  BY <1>1, <1>2
<1>7. ASSUME NEW i \in 0 .. n, i \in A, i < n PROVE i + 1 \in A
  <2>1. i + 1 \in 1 .. n /\ i + 1 \in 0 .. n /\ (i + 1) - 1 = i
    BY <1>1, <1>7
  <2>2. Len(J[i + 1]) = Len(J[i]) + Len(pair[i + 1]) /\ Len(pair[i + 1]) = 2
    BY <1>2, <1>4, <2>1
  <2>3. Len(J[i]) = 2 * i
    BY <1>7
  <2> QED
    BY <1>7, <2>1, <2>2, <2>3
<1>8. \A i \in 0 .. n : Len(J[i]) = 2 * i
  <2>1. 0 .. n \subseteq A
    <3> HIDE DEF A
    <3> QED
      BY <1>1, <1>6, <1>7, UpTo
  <2> QED
    BY <2>1
<1>9. Len(J[n]) = 2 * n
  <2>1. n \in 0 .. n
    BY <1>1
  <2> QED
    BY <1>8, <2>1
<1>10. ASSUME NEW i \in 1 .. n
       PROVE  J[n][2 * i - 1] = pair[i][1] /\ J[n][2 * i] = pair[i][2]
  <2>1. i - 1 \in 0 .. n /\ 2 * (i - 1) + 1 = 2 * i - 1 /\ 2 * (i - 1) + 2 = 2 * i
    BY <1>1
  <2>2. Len(J[i - 1]) = 2 * (i - 1)
    BY <1>8, <2>1
  <2>3. J[n][2 * (i - 1) + 1] = pair[i][1] /\ J[n][2 * (i - 1) + 2] = pair[i][2]
    <3> DEFINE q == Len(J[i - 1])
    <3>1. J[n][q + 1] = pair[i][1] /\ J[n][q + 2] = pair[i][2]
      <4>1. 1 \in 1 .. 2 /\ 2 \in 1 .. 2
        OBVIOUS
      <4>2. \A k \in 1 .. 2 : J[n][q + k] = pair[i][k]
        BY <1>5
      <4> HIDE DEF q
      <4> QED
        BY <4>1, <4>2
    <3> QED
      BY <2>2, <3>1
  <2> QED
    BY <2>1, <2>3
<1> QED
  BY <1>3, <1>9, <1>10 DEF n

(* The two components of a complex element, joined again.                  *)
LEMMA HalvesJoin ==
  ASSUME NEW e \in Seq(Byte), Len(e) = 4
  PROVE  /\ SubSeq(e, 1, 2) \in Seq(Byte) /\ SubSeq(e, 3, 4) \in Seq(Byte)
         /\ Len(SubSeq(e, 1, 2)) = 2 /\ Len(SubSeq(e, 3, 4)) = 2
         /\ SubSeq(e, 1, 2) \o SubSeq(e, 3, 4) = e
<1> DEFINE z == 0
           h == 2
           l == 4
           a == SubSeq(e, z + 1, h)
           b == SubSeq(e, h + 1, l)
<1>1. z \in Nat /\ h \in Nat /\ l \in Nat /\ z <= h /\ h <= l /\ l <= Len(e) /\ h <= Len(e)
  OBVIOUS
<1>2. a = SubSeq(e, 1, 2) /\ b = SubSeq(e, 3, 4)
  OBVIOUS
<1>3. z = 0 /\ h = 2 /\ l = 4
  OBVIOUS
<1> HIDE DEF z, h, l
<1>4. a \in Seq(Byte) /\ Len(a) = h - z /\ \A k \in 1 .. h - z : a[k] = e[z + k]
  BY <1>1, PartIs
<1>5. b \in Seq(Byte) /\ Len(b) = l - h /\ \A k \in 1 .. l - h : b[k] = e[h + k]
  BY <1>1, PartIs
<1> DEFINE c == a \o b
<1>6. a \in Seq(Byte) /\ b \in Seq(Byte)
  BY <1>4, <1>5
<1>11. Len(a) = 2 /\ Len(b) = 2
  BY <1>3, <1>4, <1>5
<1> HIDE DEF a, b
<1>7. /\ c \in Seq(Byte) /\ Len(c) = Len(a) + Len(b)
      /\ \A k \in 1 .. Len(a) : c[k] = a[k]
      /\ \A k \in 1 .. Len(b) : c[Len(a) + k] = b[k]
  BY ONLY <1>6, ConcatIs
<1> HIDE DEF c
<1>8. Len(c) = Len(e)
  BY <1>3, <1>4, <1>5, <1>7
<1>9. ASSUME NEW k \in 1 .. 4 PROVE c[k] = e[k]
  <2>1. Len(a) = 2 /\ Len(b) = 2
    BY <1>3, <1>4, <1>5
  <2>2. CASE k \in 1 .. 2
    <3>1. c[k] = a[k]
      BY <1>7, <2>1, <2>2
    <3>2. k \in 1 .. h - z /\ z + k = k
      BY <1>3, <2>2
    <3>3. a[k] = e[z + k]
      BY <1>4, <3>2
    <3> QED
      BY <3>1, <3>2, <3>3
  <2>3. CASE k \notin 1 .. 2
    <3> DEFINE i == k - 2
    <3>1. i \in 1 .. 2 /\ 2 + i = k
      BY <2>3
    <3> HIDE DEF i
    <3>2. c[2 + i] = b[i]
      BY <1>7, <2>1, <3>1
    <3>3. i \in 1 .. l - h /\ h + i = k
      BY <1>3, <3>1
    <3>4. b[i] = e[h + i]
      BY <1>5, <3>3
    <3> QED
      BY <3>1, <3>2, <3>3, <3>4
  <2> QED
    BY <2>2, <2>3
<1>10. c = e
  <2>1. \A k \in 1 .. Len(c) : c[k] = e[k]
    BY <1>8, <1>9
  <2> QED
    BY <1>7, <1>8, <2>1, SeqEqual
<1> QED
  BY <1>2, <1>6, <1>10, <1>11 DEF c

(* What re + 1j * im makes of two components.                              *)
LEMMA ComponentsAre ==
  ASSUME NEW re \in Seq(Byte), NEW im \in Seq(Byte), Len(re) = 2, Len(im) = 2
  PROVE  /\ RealPart(re, im) \o AddZero(im) \in Seq(Byte)
         /\ Len(RealPart(re, im) \o AddZero(im)) = 4
         /\ Steady(re, im) => RealPart(re, im) = re /\ AddZero(im) = im
<1>1. /\ Zero \in Seq(Byte) /\ NaN \in Seq(Byte) /\ Len(Zero) = 2 /\ Len(NaN) = 2
      /\ Signaling \subseteq NotFinite
  BY ComponentAssumption
<1>2. RealPart(re, im) \in Seq(Byte) /\ Len(RealPart(re, im)) = 2
  BY <1>1 DEF RealPart, AddZero
<1>3. AddZero(im) \in Seq(Byte) /\ Len(AddZero(im)) = 2
  BY <1>1 DEF AddZero
<1>4. Steady(re, im) => RealPart(re, im) = re /\ AddZero(im) = im
  BY <1>1 DEF Steady, RealPart, AddZero
<1> DEFINE a == RealPart(re, im)
           b == AddZero(im)
<1> HIDE DEF a, b
<1>5. a \in Seq(Byte) /\ b \in Seq(Byte) /\ Len(a) = 2 /\ Len(b) = 2
  BY <1>2, <1>3 DEF a, b
<1>6. a \o b \in Seq(Byte) /\ Len(a \o b) = Len(a) + Len(b)
  BY ONLY <1>5, ConcatIs
<1>7. Len(a \o b) = 4
  BY <1>5, <1>6
<1> QED
  BY <1>4, <1>6, <1>7 DEF a, b

(* What tinygrad is given for an array comes back out as that array, save   *)
(* the complex elements that re + 1j * im changes.                         *)
LEMMA CarrierGivesBack ==
  ASSUME NEW blob \in Seq(Byte), NEW dtype \in Supported, NEW shape
  PROVE  LET arr == FromBuffer(blob, dtype)
             n   == Len(blob) \div Itemsize[dtype]
             w   == WireNumpy(WireTensor(arr, dtype, shape), dtype)
         IN  /\ n \in Nat /\ DOMAIN arr = 1 .. n /\ w = [i \in 1 .. n |-> w[i]]
             /\ \A i \in 1 .. n : /\ w[i] \in Seq(Byte) /\ Len(w[i]) = Itemsize[dtype]
                                  /\ (IsComplex(dtype) => Survives(arr[i])) => w[i] = arr[i]
<1> DEFINE arr == FromBuffer(blob, dtype)
           n == Len(blob) \div Itemsize[dtype]
           t == WireTensor(arr, dtype, shape)
           w == WireNumpy(t, dtype)
<1>1. /\ n \in Nat /\ arr = [i \in 1 .. n |-> arr[i]]
      /\ \A i \in 1 .. n : arr[i] \in Seq(Byte) /\ Len(arr[i]) = Itemsize[dtype]
  BY ElementsAre
<1> HIDE DEF arr, n
<1>4. DOMAIN arr = 1 .. n
  BY <1>1
<1>2. CASE ~IsComplex(dtype)
  <2>1. w = arr
    BY <1>2 DEF WireTensor, WireNumpy
  <2> HIDE DEF w
  <2> QED
    BY <1>1, <1>4, <2>1 DEF w, t, arr, n
<1>3. CASE IsComplex(dtype)
  <2> DEFINE half == Itemsize[dtype] \div 2
             pair == [i \in 1 .. n |->
                        <<SubSeq(arr[i], 1, half), SubSeq(arr[i], half + 1, 2 * half)>>]
             d == t.data
             joined(i) == RealPart(d[2 * i - 1], d[2 * i]) \o AddZero(d[2 * i])
  <2>1. Itemsize[dtype] = 4 /\ half = 2 /\ half + 1 = 3 /\ 2 * half = 4
    BY <1>3 DEF Itemsize, IsComplex
  <2>2. d = FlattenSeq(pair)
    BY <1>3, <1>4 DEF WireTensor
  <2>3. w = [i \in 1 .. (Len(d) \div 2) |-> joined(i)]
    BY <1>3 DEF WireNumpy
  <2>4. pair = [i \in 1 .. n |-> <<SubSeq(arr[i], 1, 2), SubSeq(arr[i], 3, 4)>>]
    <3> HIDE DEF half
    <3> QED
      BY <2>1
  <2> HIDE DEF w, d, t, half, pair
  <2>5. ASSUME NEW i \in 1 .. n
        PROVE  /\ pair[i] \in Seq(Seq(Byte)) /\ Len(pair[i]) = 2
               /\ pair[i][1] = SubSeq(arr[i], 1, 2) /\ pair[i][2] = SubSeq(arr[i], 3, 4)
               /\ pair[i][1] \in Seq(Byte) /\ Len(pair[i][1]) = 2
               /\ pair[i][2] \in Seq(Byte) /\ Len(pair[i][2]) = 2
               /\ pair[i][1] \o pair[i][2] = arr[i]
    <3> DEFINE e == arr[i]
               a == SubSeq(e, 1, 2)
               b == SubSeq(e, 3, 4)
    <3>1. e \in Seq(Byte) /\ Len(e) = 4
      BY <1>1, <2>1
    <3>2. pair[i] = <<a, b>>
      BY <2>4
    <3> HIDE DEF e
    <3>3. a \in Seq(Byte) /\ b \in Seq(Byte) /\ a \o b = e /\ Len(a) = 2 /\ Len(b) = 2
      BY <3>1, HalvesJoin
    <3> HIDE DEF a, b
    <3>4. <<a, b>> \in Seq(Seq(Byte))
      BY ONLY <3>3
    <3>5. Len(<<a, b>>) = 2 /\ <<a, b>>[1] = a /\ <<a, b>>[2] = b
      OBVIOUS
    <3> QED
      BY <3>2, <3>3, <3>4, <3>5 DEF e, a, b
  <2>6. pair \in Seq(Seq(Seq(Byte))) /\ Len(pair) = n
    <3> DEFINE f(i) == pair[i]
    <3>1. pair = [i \in 1 .. n |-> f(i)]
      BY <2>4
    <3>2. \A i \in 1 .. n : f(i) \in Seq(Seq(Byte))
      BY <2>5
    <3> HIDE DEF f
    <3>3. [i \in 1 .. n |-> f(i)] \in Seq(Seq(Seq(Byte)))
      BY ONLY <1>1, <3>2
    <3>4. Len([i \in 1 .. n |-> f(i)]) = n
      BY ONLY <1>1
    <3> QED
      BY <3>1, <3>3, <3>4
  <2>7. /\ Len(d) = 2 * n
        /\ \A i \in 1 .. n : d[2 * i - 1] = pair[i][1] /\ d[2 * i] = pair[i][2]
    <3>1. \A i \in 1 .. Len(pair) : Len(pair[i]) = 2
      BY <2>5, <2>6
    <3>2. /\ Len(FlattenSeq(pair)) = 2 * Len(pair)
          /\ \A i \in 1 .. Len(pair) : /\ FlattenSeq(pair)[2 * i - 1] = pair[i][1]
                                       /\ FlattenSeq(pair)[2 * i] = pair[i][2]
      <4>1. pair \in Seq(Seq(Seq(Byte)))
        BY <2>6
      <4> QED
        BY ONLY <3>1, <4>1, PairsJoin
    <3> QED
      BY <2>2, <2>6, <3>2
  <2>8. Len(d) \div 2 = n
    <3> DEFINE l == Len(d)
    <3>1. l = 2 * n
      BY <2>7
    <3> HIDE DEF l
    <3>2. l \div 2 = n
      BY <1>1, <3>1
    <3> QED
      BY <3>2 DEF l
  <2>9. ASSUME NEW i \in 1 .. n
        PROVE  /\ joined(i) \in Seq(Byte) /\ Len(joined(i)) = 4
               /\ Survives(arr[i]) => joined(i) = arr[i]
    <3> DEFINE re == pair[i][1]
               im == pair[i][2]
    <3>1. /\ re \in Seq(Byte) /\ im \in Seq(Byte) /\ Len(re) = 2 /\ Len(im) = 2
          /\ re \o im = arr[i]
      BY <2>5
    <3>2. joined(i) = RealPart(re, im) \o AddZero(im)
      BY <2>7
    <3>3. Survives(arr[i]) => Steady(re, im)
      BY <2>5 DEF Survives
    <3> HIDE DEF re, im, joined
    <3>4. /\ RealPart(re, im) \o AddZero(im) \in Seq(Byte)
          /\ Len(RealPart(re, im) \o AddZero(im)) = 4
          /\ Steady(re, im) => RealPart(re, im) = re /\ AddZero(im) = im
      BY <3>1, ComponentsAre
    <3>5. ASSUME Survives(arr[i]) PROVE joined(i) = arr[i]
      <4>1. RealPart(re, im) = re /\ AddZero(im) = im
        BY <3>3, <3>4, <3>5
      <4> QED
        BY <3>1, <3>2, <4>1
    <3> QED
      BY <3>2, <3>4, <3>5
  <2> HIDE DEF joined
  <2>10. w = [i \in 1 .. n |-> joined(i)]
    BY <2>3, <2>8
  <2>11. w = [i \in 1 .. n |-> w[i]] /\ \A i \in 1 .. n : w[i] = joined(i)
    BY <2>10
  <2> QED
    BY <1>1, <1>3, <1>4, <2>1, <2>9, <2>11 DEF w, t, arr, n
<1> QED
  BY <1>2, <1>3

(* So the bytes of a buffer are those it was made from ...                 *)
LEMMA BytesAre ==
  ASSUME NEW b, NEW made, Carries(b, made)
  PROVE  LET blob == ToBytes(WireNumpy(b.tensor, b.dtype))
         IN  SameBytes(made, blob) /\ blob \in Seq(Byte)
<1> DEFINE dtype == made.dtype
           z == Itemsize[dtype]
           l == Len(made.blob)
           n == l \div z
           arr == FromBuffer(made.blob, dtype)
           w == WireNumpy(b.tensor, dtype)
<1>1. b.dtype = dtype /\ dtype \in Supported /\ made.blob \in Seq(Byte) /\ l % z = 0
  BY DEF Carries
<1>2. PICK shape : b.tensor = WireTensor(arr, dtype, shape)
  BY DEF Carries
<1>3. /\ n \in Nat /\ DOMAIN arr = 1 .. n /\ w = [i \in 1 .. n |-> w[i]]
      /\ \A i \in 1 .. n : /\ w[i] \in Seq(Byte) /\ Len(w[i]) = z
                           /\ (IsComplex(dtype) => Survives(arr[i])) => w[i] = arr[i]
  <2> DEFINE blob == made.blob
  <2>1. blob \in Seq(Byte) /\ dtype \in Supported
    BY <1>1
  <2> HIDE DEF blob, dtype
  <2>2. LET ar == FromBuffer(blob, dtype)
            nn == Len(blob) \div Itemsize[dtype]
            ww == WireNumpy(WireTensor(ar, dtype, shape), dtype)
         IN  /\ nn \in Nat /\ DOMAIN ar = 1 .. nn /\ ww = [i \in 1 .. nn |-> ww[i]]
             /\ \A i \in 1 .. nn : /\ ww[i] \in Seq(Byte) /\ Len(ww[i]) = Itemsize[dtype]
                                   /\ (IsComplex(dtype) => Survives(ar[i])) => ww[i] = ar[i]
    BY <2>1, CarrierGivesBack
  <2> QED
    BY <1>2, <2>2 DEF blob
<1>4. l \in Nat /\ z \in {1, 2, 4} /\ l \div z = n
  BY <1>1, LenProperties DEF Supported, Itemsize
<1> HIDE DEF w, arr, n
<1>5. /\ ToBytes(w) \in Seq(Byte) /\ Len(ToBytes(w)) = n * z
      /\ \A i \in 1 .. n : FromBuffer(ToBytes(w), dtype)[i] = w[i]
  <2>1. /\ dtype \in Supported /\ n \in Nat /\ w = [i \in 1 .. n |-> w[i]]
        /\ \A i \in 1 .. n : w[i] \in Seq(Byte) /\ Len(w[i]) = Itemsize[dtype]
    BY <1>1, <1>3
  <2> HIDE DEF dtype
  <2>2. /\ ToBytes(w) \in Seq(Byte) /\ Len(ToBytes(w)) = n * Itemsize[dtype]
        /\ \A i \in 1 .. n : FromBuffer(ToBytes(w), dtype)[i] = w[i]
    BY ONLY <2>1, ElementsJoin
  <2> QED
    BY <2>2
<1>6. n * z = l
  <2> HIDE DEF z, l
  <2> QED
    BY <1>1, <1>3, <1>4, Multiples
<1>7. SameBytes(made, ToBytes(w))
  BY <1>3, <1>5, <1>6 DEF SameBytes, arr
<1> QED
  BY <1>1, <1>5, <1>7 DEF w

(* ... and what was received is a buffer made from what was sent.          *)
LEMMA ReceivedIs ==
  ASSUME NEW m, NEW blob \in Seq(Byte), m.dtype \in Supported, Fits(blob, m.dtype, m.shape)
  PROVE  Carries(Received(m, blob), MadeFrom(m, blob))
<1>1. Len(blob) % Itemsize[m.dtype] = 0
  BY DEF Fits
<1>2. /\ Received(m, blob).dtype = m.dtype
      /\ Received(m, blob).tensor = WireTensor(FromBuffer(blob, m.dtype), m.dtype, m.shape)
  BY DEF Received
<1>3. MadeFrom(m, blob).dtype = m.dtype /\ MadeFrom(m, blob).blob = blob
  BY DEF MadeFrom
<1> QED
  BY <1>1, <1>2, <1>3 DEF Carries

(* Every buffer that was made is still what it was made from.              *)
OriginsKept == \A b \in DOMAIN origin : b \in DOMAIN origin' /\ origin'[b] = origin[b]

(* The blobs of an answer are what the buffer it is about was made from.   *)
Returned(made, id, blobs) ==
  \A k \in DOMAIN blobs : id \in DOMAIN made /\ SameBytes(made[id], blobs[k])

(* What a command leaves: one more answer, with the bytes it carries; only  *)
(* buffers in the registry; and after an error every buffer there was.     *)
Outcome(m, a) ==
  /\ answers' = Append(answers, a) /\ a.blobs \in Seq(Seq(Byte))
  /\ RegistryInv' /\ OriginsKept /\ Returned(origin', m.id, a.blobs)
  /\ ~a.ok => /\ \A b \in DOMAIN registry : b \in DOMAIN registry' /\ registry'[b] = registry[b]
              /\ nextId' # nextId => m.command = "execute" /\ nextId' = nextId + 1

(* What is put in under new ids is there with what was there before.       *)
LEMMA PutIs ==
  ASSUME RegistryInv, NEW n \in Nat, NEW buffer, NEW made, Carries(buffer, made),
         Put(n, buffer, made)
  PROVE  /\ RegistryInv' /\ OriginsKept /\ nextId' = nextId + n
         /\ \A b \in DOMAIN registry : b \in DOMAIN registry' /\ registry'[b] = registry[b]
<1> DEFINE ids == nextId .. (nextId + n - 1)
<1>1. /\ nextId \in Nat
      /\ \A b \in DOMAIN origin : b \in Nat /\ b < nextId
      /\ \A b \in DOMAIN registry : b \in DOMAIN origin /\ Carries(registry[b], origin[b])
  BY DEF RegistryInv
<1>2. registry' = With(registry, ids, buffer) /\ origin' = With(origin, ids, made)
      /\ nextId' = nextId + n
  BY DEF Put
<1>3. /\ \A b \in DOMAIN origin : b \notin ids
      /\ \A b \in ids : b \in Nat /\ b < nextId'
      /\ nextId' \in Nat /\ \A b \in DOMAIN origin : b < nextId'
  BY <1>1, <1>2
<1> HIDE DEF ids
<1>4. /\ DOMAIN registry' = (DOMAIN registry) \cup ids
      /\ \A x \in ids : registry'[x] = buffer
      /\ \A x \in (DOMAIN registry) \ ids : registry'[x] = registry[x]
  BY <1>2 DEF With
<1>5. /\ DOMAIN origin' = (DOMAIN origin) \cup ids
      /\ \A x \in ids : origin'[x] = made
      /\ \A x \in (DOMAIN origin) \ ids : origin'[x] = origin[x]
  BY <1>2 DEF With
<1>6. OriginsKept
  BY <1>3, <1>5 DEF OriginsKept
<1>7. \A b \in DOMAIN registry : b \in DOMAIN registry' /\ registry'[b] = registry[b]
  BY <1>1, <1>3, <1>4
<1>8. \A b \in DOMAIN origin' : b \in Nat /\ b < nextId'
  BY <1>1, <1>3, <1>5
<1>9. ASSUME NEW b \in DOMAIN registry'
      PROVE  b \in DOMAIN origin' /\ Carries(registry'[b], origin'[b])
  <2>1. CASE b \in ids
    BY <1>4, <1>5, <2>1
  <2>2. CASE b \in (DOMAIN registry) \ ids
    BY <1>1, <1>3, <1>4, <1>5, <2>2
  <2> QED
    BY <1>4, <2>1, <2>2
<1>10. RegistryInv'
  BY <1>3, <1>8, <1>9 DEF RegistryInv
<1> QED
  BY <1>2, <1>6, <1>7, <1>10

(* An answer without blobs carries bytes.                                  *)
LEMMA PlainAnswers ==
  /\ <<>> \in Seq(Seq(Byte))
  /\ \A r : Ok(r, <<>>).blobs = <<>> /\ Ok(r, <<>>).ok
  /\ \A c : Error(c).blobs = <<>> /\ ~Error(c).ok
  BY DEF Ok, Error

(* ... and brings none back.                                               *)
LEMMA NothingReturned ==
  ASSUME NEW m, NEW a, a.blobs = <<>>
  PROVE  a.blobs \in Seq(Seq(Byte)) /\ Returned(origin', m.id, a.blobs)
<1>1. DOMAIN a.blobs = {} /\ a.blobs \in Seq(Seq(Byte))
  OBVIOUS
<1> QED
  BY <1>1 DEF Returned

(* What a command leaves that puts nothing in.                             *)
LEMMA UnchangedIs ==
  ASSUME RegistryInv, Unchanged
  PROVE  /\ RegistryInv' /\ OriginsKept /\ nextId' = nextId
         /\ \A b \in DOMAIN registry : b \in DOMAIN registry' /\ registry'[b] = registry[b]
         /\ origin' = origin
<1>1. registry' = registry /\ nextId' = nextId /\ origin' = origin
  BY DEF Unchanged
<1> QED
  BY <1>1 DEF RegistryInv, OriginsKept

(* An error that leaves everything.                                        *)
LEMMA ErrorIs ==
  ASSUME RegistryInv, NEW m, NEW class, Answers(Error(class)), Unchanged
  PROVE  \E a : Outcome(m, a)
<1>1. Outcome(m, Error(class))
  BY PlainAnswers, NothingReturned, UnchangedIs DEF Outcome, Answers
<1> QED
  BY <1>1

(* Every command is answered so.                                           *)
LEMMA HandleIs ==
  ASSUME RegistryInv, NEW m, NEW blobs \in Seq(Seq(Byte)), Handle(m, blobs)
  PROVE  \E a : Outcome(m, a)
<1>1. CASE CmdUpload(m, blobs)
  <2>1. CASE UploadError(m, blobs) # ""
    BY <1>1, <2>1, ErrorIs DEF CmdUpload
  <2>2. CASE UploadError(m, blobs) = ""
    <3> DEFINE buffer == Received(m, blobs[1])
               a == Ok(Buffer(nextId), <<>>)
    <3>1. blobs # <<>> /\ m.dtype \in Supported /\ Fits(blobs[1], m.dtype, m.shape)
      BY <2>2 DEF UploadError
    <3>2. blobs[1] \in Seq(Byte)
      <4>1. 1 \in 1 .. Len(blobs)
        BY <3>1, EmptySeq
      <4> QED
        BY <4>1, ElementOfSeq
    <3>3. Carries(buffer, MadeFrom(m, blobs[1]))
      BY <3>1, <3>2, ReceivedIs
    <3>4. Put(1, buffer, MadeFrom(m, blobs[1])) /\ Answers(a) /\ 1 \in Nat
      BY <1>1, <2>2 DEF CmdUpload
    <3>5. a.ok /\ a.blobs = <<>>
      BY PlainAnswers
    <3> HIDE DEF buffer, a
    <3>6. RegistryInv' /\ OriginsKept
      BY <3>3, <3>4, PutIs
    <3>7. Outcome(m, a)
      BY <3>4, <3>5, <3>6, NothingReturned DEF Outcome, Answers
    <3> QED
      BY <3>7
  <2> QED
    BY <2>1, <2>2
<1>2. CASE CmdDownload(m)
  <2>1. Unchanged
    BY <1>2 DEF CmdDownload
  <2>2. CASE Missing(m.id)
    BY <1>2, <2>1, <2>2, ErrorIs DEF CmdDownload
  <2>3. CASE ~Missing(m.id)
    <3> DEFINE d == Data(m.id)
               a == Ok(Buffer(m.id), <<d>>)
    <3>1. m.id \in DOMAIN origin /\ SameBytes(origin[m.id], d) /\ d \in Seq(Byte)
      BY <2>3, BytesAre DEF Missing, RegistryInv, Data
    <3>2. Answers(a)
      BY <1>2, <2>3 DEF CmdDownload
    <3> HIDE DEF d
    <3>3. a.ok /\ a.blobs = <<d>>
      BY DEF Ok
    <3>4. <<d>> \in Seq(Seq(Byte))
      BY <3>1
    <3> HIDE DEF a
    <3>5. Returned(origin, m.id, a.blobs)
      BY <3>1, <3>3 DEF Returned
    <3>6. Outcome(m, a)
      BY <2>1, <3>2, <3>3, <3>4, <3>5, UnchangedIs DEF Outcome, Answers
    <3> QED
      BY <3>6
  <2> QED
    BY <2>2, <2>3
<1>3. CASE CmdRelease(m)
  <2> DEFINE a == Ok([released |-> Cardinality(m.ids \cap DOMAIN registry)], <<>>)
  <2>1. registry' = Without(m.ids) /\ Answers(a) /\ nextId' = nextId /\ origin' = origin
    BY <1>3 DEF CmdRelease
  <2>2. a.ok /\ a.blobs = <<>>
    BY PlainAnswers
  <2>3. \A b \in DOMAIN registry' : b \in DOMAIN registry /\ registry'[b] = registry[b]
    BY <2>1 DEF Without
  <2> HIDE DEF a
  <2>4. RegistryInv' /\ OriginsKept
    BY <2>1, <2>3 DEF RegistryInv, OriginsKept
  <2>5. Outcome(m, a)
    BY <2>1, <2>2, <2>4, NothingReturned DEF Outcome, Answers
  <2> QED
    BY <2>5
<1>4. CASE CmdExecute(m)
  <2>1. CASE Missing(m.id)
    BY <1>4, <2>1, ErrorIs DEF CmdExecute
  <2>2. CASE ~Missing(m.id) /\ m.host
    <3>0. PICK n \in 1 .. HostOutputs :
            Answers(Ok(Buffer(m.id), [i \in 1 .. n |-> Data(m.id)]))
      BY <1>4, <2>2 DEF CmdExecute
    <3> DEFINE d == Data(m.id)
               ds == [i \in 1 .. n |-> Data(m.id)]
               a == Ok(Buffer(m.id), ds)
    <3>1. m.id \in DOMAIN origin /\ SameBytes(origin[m.id], d) /\ d \in Seq(Byte)
      BY <2>2, BytesAre DEF Missing, RegistryInv, Data
    <3>2. Answers(a) /\ Unchanged
      BY <1>4, <2>2, <3>0 DEF CmdExecute
    <3>3. ds = [i \in 1 .. n |-> d]
      OBVIOUS
    <3> HIDE DEF d, ds
    <3>4. ds \in Seq(Seq(Byte))
      <4>1. n \in Nat
        BY <3>0, BoundAssumption
      <4> QED
        BY <3>1, <3>3, <4>1
    <3>5. a.ok /\ a.blobs = ds
      BY DEF Ok
    <3> HIDE DEF a
    <3>6. Returned(origin, m.id, a.blobs)
      BY <3>1, <3>3, <3>5 DEF Returned
    <3>7. Outcome(m, a)
      BY <3>2, <3>4, <3>5, <3>6, UnchangedIs DEF Outcome, Answers
    <3> QED
      BY <3>7
  <2>3. CASE ~Missing(m.id) /\ ~m.host
    <3>1. PICK n \in 0 .. 2 :
            /\ Put(n, registry[m.id], origin[m.id])
            /\ Answers(IF n = 2 THEN Ok(Buffer(nextId), <<>>) ELSE Error("RuntimeError"))
      BY <1>4, <2>3 DEF CmdExecute
    <3> DEFINE a == IF n = 2 THEN Ok(Buffer(nextId), <<>>) ELSE Error("RuntimeError")
    <3>2. Carries(registry[m.id], origin[m.id]) /\ nextId \in Nat
      BY <2>3 DEF Missing, RegistryInv
    <3>3. n \in Nat /\ Answers(a)
      BY <3>1
    <3>4. a.blobs = <<>> /\ (~a.ok => n # 2)
      BY PlainAnswers
    <3> HIDE DEF a
    <3>5. /\ RegistryInv' /\ OriginsKept /\ nextId' = nextId + n
          /\ \A b \in DOMAIN registry : b \in DOMAIN registry' /\ registry'[b] = registry[b]
      BY <3>1, <3>2, <3>3, PutIs
    <3>6. n # 2 /\ nextId' # nextId => nextId' = nextId + 1
      BY <3>1, <3>2, <3>5
    <3>7. m.command = "execute"
      BY <1>4 DEF CmdExecute
    <3>8. Outcome(m, a)
      BY <3>3, <3>4, <3>5, <3>6, <3>7, NothingReturned DEF Outcome, Answers
    <3> QED
      BY <3>8
  <2> QED
    BY <2>1, <2>2, <2>3
<1>5. CASE CmdRunNode(m, blobs)
  <2>1. CASE Unchanged /\ Answers(Error("ProtocolError"))
    BY <2>1, ErrorIs
  <2>2. CASE /\ blobs # <<>> /\ UploadError(m, <<Last(blobs)>>) = ""
             /\ Put(1, Received(m, Last(blobs)), MadeFrom(m, Last(blobs)))
             /\ Answers(Ok(Buffer(nextId), <<>>))
    <3> DEFINE buffer == Received(m, Last(blobs))
               a == Ok(Buffer(nextId), <<>>)
    <3>1. m.dtype \in Supported /\ Fits(Last(blobs), m.dtype, m.shape)
      <4> DEFINE e == Last(blobs)
      <4>1. UploadError(m, <<e>>) = ""
        BY <2>2
      <4> HIDE DEF e
      <4>2. m.dtype \in Supported /\ Fits(e, m.dtype, m.shape)
        BY <4>1 DEF UploadError
      <4> QED
        BY <4>2 DEF e
    <3>2. Last(blobs) \in Seq(Byte)
      <4>1. Len(blobs) \in 1 .. Len(blobs)
        <5> DEFINE n == Len(blobs)
        <5>1. n \in Nat \ {0}
          BY <2>2, EmptySeq
        <5> HIDE DEF n
        <5>2. n \in 1 .. n
          BY <5>1
        <5> QED
          BY <5>2 DEF n
      <4> QED
        BY <4>1, ElementOfSeq DEF Last
    <3>3. Carries(buffer, MadeFrom(m, Last(blobs)))
      BY <3>1, <3>2, ReceivedIs
    <3>4. Put(1, buffer, MadeFrom(m, Last(blobs))) /\ Answers(a) /\ 1 \in Nat
      BY <2>2
    <3>5. a.ok /\ a.blobs = <<>>
      BY PlainAnswers
    <3> HIDE DEF buffer, a
    <3>6. RegistryInv' /\ OriginsKept
      BY <3>3, <3>4, PutIs
    <3>7. Outcome(m, a)
      BY <3>4, <3>5, <3>6, NothingReturned DEF Outcome, Answers
    <3> QED
      BY <3>7
  <2> QED
    BY <1>5, <2>1, <2>2 DEF CmdRunNode
<1>6. CASE CmdShutdown(m)
  <2>1. Answers(Ok(None, <<>>)) /\ Unchanged
    BY <1>6 DEF CmdShutdown
  <2>2. Outcome(m, Ok(None, <<>>))
    BY <2>1, PlainAnswers, NothingReturned, UnchangedIs DEF Outcome, Answers
  <2> QED
    BY <2>2
<1>7. CASE CmdUnknown(m)
  BY <1>7, ErrorIs DEF CmdUnknown
<1> QED
  BY <1>1, <1>2, <1>3, <1>4, <1>5, <1>6, <1>7 DEF Handle

-----------------------------------------------------------------------------
(* Where a sequence is in the stream.                                      *)

Within(w, at, s) == at + Len(s) <= Len(w) /\ \A k \in 1 .. Len(s) : w[at + k] = s[k]

(* What is in the stream stays in it as it grows.                          *)
LEMMA WithinGrows ==
  ASSUME NEW S, NEW w \in Seq(S), NEW p \in Seq(S), NEW s \in Seq(S), NEW at \in Nat,
         Within(w, at, s)
  PROVE  /\ Within(w \o p, at, s)
         /\ at + Len(s) = Len(w) => /\ Within(w \o p, at, s \o p)
                                    /\ at + Len(s \o p) = Len(w \o p)
<1> DEFINE l == Len(w)
           m == Len(s)
           n == Len(p)
           v == w \o p
           t == s \o p
<1>1. l \in Nat /\ m \in Nat /\ n \in Nat
  BY LenProperties
<1>2. /\ Len(v) = l + n
      /\ \A k \in 1 .. l : v[k] = w[k]
      /\ \A k \in 1 .. n : v[l + k] = p[k]
  BY ConcatIs
<1>3. /\ Len(t) = m + n
      /\ \A k \in 1 .. m : t[k] = s[k]
      /\ \A k \in 1 .. n : t[m + k] = p[k]
  BY ConcatIs
<1>4. at + m <= l /\ \A k \in 1 .. m : w[at + k] = s[k]
  BY DEF Within
<1> HIDE DEF l, m, n, v, t
<1>5. ASSUME NEW k \in 1 .. m PROVE v[at + k] = s[k]
  <2>1. at + k \in 1 .. l
    BY <1>1, <1>4
  <2> QED
    BY <1>2, <1>4, <2>1
<1>6. at + m <= Len(v)
  BY <1>1, <1>2, <1>4
<1>7. ASSUME at + m = l
      PROVE  at + Len(t) = Len(v) /\ \A k \in 1 .. Len(t) : v[at + k] = t[k]
  <2>1. at + Len(t) = Len(v)
    BY <1>1, <1>2, <1>3, <1>7
  <2>2. ASSUME NEW k \in 1 .. Len(t) PROVE v[at + k] = t[k]
    <3>1. CASE k \in 1 .. m
      BY <1>3, <1>5, <3>1
    <3>2. CASE k \notin 1 .. m
      <4> DEFINE i == k - m
      <4>1. i \in 1 .. n /\ m + i = k /\ l + i = at + k
        BY <1>1, <1>3, <1>7, <3>2
      <4> HIDE DEF i
      <4> QED
        BY <1>2, <1>3, <4>1
    <3> QED
      BY <3>1, <3>2
  <2> QED
    BY <2>1, <2>2
<1>8. Len(v) \in Nat /\ Len(t) \in Nat
  BY <1>1, <1>2, <1>3
<1>9. at + m = l => at + Len(t) <= Len(v)
  BY <1>7, <1>8
<1>10. Within(v, at, s)
  BY <1>5, <1>6 DEF Within, m
<1>11. at + m = l => Within(v, at, t) /\ at + Len(t) = Len(v)
  BY <1>7, <1>9 DEF Within
<1> QED
  BY <1>10, <1>11 DEF v, t, m, l

(* So are the parts it is cut into.                                        *)
LEMMA WithinCut ==
  ASSUME NEW S, NEW w \in Seq(S), NEW s \in Seq(S), NEW at \in Nat, Within(w, at, s),
         NEW n \in 0 .. Len(s)
  PROVE  /\ SubSeq(s, 1, n) \in Seq(S) /\ Len(SubSeq(s, 1, n)) = n
         /\ SubSeq(s, n + 1, Len(s)) \in Seq(S) /\ Len(SubSeq(s, n + 1, Len(s))) = Len(s) - n
         /\ Within(w, at, SubSeq(s, 1, n))
         /\ Within(w, at + n, SubSeq(s, n + 1, Len(s)))
<1> DEFINE l == Len(s)
           z == 0
           a == SubSeq(s, z + 1, n)
           b == SubSeq(s, n + 1, l)
<1>1. l \in Nat /\ n \in Nat /\ n <= l /\ l <= Len(s) /\ z \in Nat /\ z <= n /\ Len(w) \in Nat
  BY LenProperties
<1>2. z + 1 = 1 /\ n - z = n /\ \A k \in 1 .. n : z + k = k
  OBVIOUS
<1>3. at + l <= Len(w) /\ \A k \in 1 .. l : w[at + k] = s[k]
  BY DEF Within
<1>4. a = SubSeq(s, 1, n) /\ b = SubSeq(s, n + 1, Len(s))
  BY <1>2
<1> HIDE DEF l, z
<1>5. a \in Seq(S) /\ Len(a) = n - z /\ \A k \in 1 .. n - z : a[k] = s[z + k]
  BY <1>1, PartIs
<1>6. b \in Seq(S) /\ Len(b) = l - n /\ \A k \in 1 .. l - n : b[k] = s[n + k]
  BY <1>1, PartIs
<1> HIDE DEF a, b
<1>7. Len(a) = n /\ \A k \in 1 .. n : a[k] = s[k]
  BY <1>2, <1>5
<1>8. Within(w, at, a)
  <2>1. at + n <= Len(w)
    BY <1>1, <1>3
  <2>2. \A k \in 1 .. n : k \in 1 .. l
    BY <1>1
  <2> QED
    BY <1>3, <1>7, <2>1, <2>2 DEF Within
<1>9. Within(w, at + n, b)
  <2>1. (at + n) + (l - n) <= Len(w)
    BY <1>1, <1>3
  <2>2. ASSUME NEW k \in 1 .. l - n PROVE w[(at + n) + k] = b[k]
    <3>1. n + k \in 1 .. l /\ at + (n + k) = (at + n) + k
      BY <1>1
    <3> QED
      BY <1>3, <1>6, <3>1
  <2> QED
    BY <1>6, <2>1, <2>2 DEF Within
<1> QED
  BY <1>4, <1>5, <1>6, <1>7, <1>8, <1>9 DEF l

(* ... and what consecutive parts are joined to.                           *)
LEMMA WithinJoin ==
  ASSUME NEW S, NEW w \in Seq(S), NEW a \in Seq(S), NEW b \in Seq(S), NEW at \in Nat,
         Within(w, at, a), Within(w, at + Len(a), b)
  PROVE  a \o b \in Seq(S) /\ Len(a \o b) = Len(a) + Len(b) /\ Within(w, at, a \o b)
<1> DEFINE m == Len(a)
           n == Len(b)
           c == a \o b
<1>1. m \in Nat /\ n \in Nat /\ Len(w) \in Nat
  BY LenProperties
<1>2. /\ c \in Seq(S) /\ Len(c) = m + n
      /\ \A k \in 1 .. m : c[k] = a[k]
      /\ \A k \in 1 .. n : c[m + k] = b[k]
  BY ConcatIs
<1>3. /\ \A k \in 1 .. m : w[at + k] = a[k]
      /\ (at + m) + n <= Len(w) /\ \A k \in 1 .. n : w[(at + m) + k] = b[k]
  BY DEF Within
<1> HIDE DEF m, n, c
<1>4. at + (m + n) <= Len(w)
  BY <1>1, <1>3
<1>5. ASSUME NEW k \in 1 .. m + n PROVE w[at + k] = c[k]
  <2>1. CASE k \in 1 .. m
    BY <1>2, <1>3, <2>1
  <2>2. CASE k \notin 1 .. m
    <3> DEFINE i == k - m
    <3>1. i \in 1 .. n /\ m + i = k /\ (at + m) + i = at + k
      BY <1>1, <2>2
    <3> HIDE DEF i
    <3> QED
      BY <1>2, <1>3, <3>1
  <2> QED
    BY <2>1, <2>2
<1>6. Within(w, at, c)
  BY <1>2, <1>4, <1>5 DEF Within
<1> QED
  BY <1>2, <1>6 DEF c, m, n

(* There is one sequence of a length at a place.                           *)
LEMMA WithinSame ==
  ASSUME NEW S, NEW w, NEW a \in Seq(S), NEW b \in Seq(S), NEW at,
         Within(w, at, a), Within(w, at, b), Len(a) = Len(b)
  PROVE  a = b
<1>1. \A k \in 1 .. Len(a) : w[at + k] = a[k]
  BY DEF Within
<1>2. \A k \in 1 .. Len(a) : w[at + k] = b[k]
  BY DEF Within
<1>3. \A k \in 1 .. Len(a) : a[k] = b[k]
  BY <1>1, <1>2
<1> QED
  BY <1>3, SeqEqual

(* The next packet, and its frame, are where the ones before it end.       *)
LEMMA NextIs ==
  ASSUME NEW s \in Seq(SentSet), NEW h \in 0 .. Len(s), h < Len(s)
  PROVE  /\ s[h + 1] \in SentSet
         /\ At(s, h) \in Nat /\ h + 1 \in 0 .. Len(s)
         /\ At(s, h + 1) = At(s, h) + 2 + Len(Frame(s[h + 1]))
         /\ Within(All(s), At(s, h), Packet(s[h + 1]))
         /\ Within(All(s), At(s, h) + 2, Frame(s[h + 1]))
<1> DEFINE i == h + 1
           r == s[i]
           f == Frame(r)
           p == Packet(r)
           w == All(s)
           b == At(s, h)
           n == Len(f)
<1>1. Len(s) \in Nat /\ i \in 1 .. Len(s) /\ i - 1 = h /\ h + 1 \in 0 .. Len(s)
  BY LenProperties
<1>2. /\ r \in SentSet
  BY <1>1, ElementOfSeq
<1>3. /\ b \in Nat /\ i \in 0 .. Len(s) /\ At(s, i) \in Nat /\ At(s, i) <= Len(w) /\ Len(w) \in Nat
      /\ At(s, i) = b + Len(p)
      /\ \A k \in 1 .. Len(p) : w[b + k] = p[k]
  <2>1. StreamIs(s)
    BY StreamIsSo
  <2>2. At(s, i) = At(s, i - 1) + Len(p) /\ \A k \in 1 .. Len(p) : w[At(s, i - 1) + k] = p[k]
    BY <1>1, <2>1 DEF StreamIs
  <2>3. b \in Nat /\ At(s, i) \in Nat /\ At(s, i) <= Len(w) /\ Len(w) \in Nat
    BY <1>1, <2>1, LenProperties DEF StreamIs
  <2> QED
    BY <1>1, <2>2, <2>3
<1>4. n \in Nat /\ Len(p) = 2 + n /\ \A k \in 1 .. n : p[2 + k] = f[k]
  BY <1>2, PacketIs
<1> HIDE DEF b, n, w, p, f, r
<1>5. b + Len(p) <= Len(w)
  BY <1>3
<1>6. Within(w, b, p)
  BY <1>3, <1>5 DEF Within
<1>7. Within(w, b + 2, f)
  <2>1. (b + 2) + n <= Len(w) /\ At(s, i) = b + 2 + n
    BY <1>3, <1>4
  <2>2. ASSUME NEW k \in 1 .. n PROVE w[(b + 2) + k] = f[k]
    <3>1. 2 + k \in 1 .. Len(p) /\ b + (2 + k) = (b + 2) + k
      BY <1>3, <1>4
    <3> QED
      BY <1>3, <1>4, <3>1
  <2> QED
    BY <2>1, <2>2 DEF Within, n
<1>8. At(s, i) = b + 2 + n
  BY <1>3, <1>4
<1> QED
  BY <1>1, <1>2, <1>3, <1>6, <1>7, <1>8 DEF b, n, w, p, f, r

-----------------------------------------------------------------------------
(* What the worker sees.                                                   *)

HistoryInv ==
  /\ sent \in Seq(SentSet) /\ handled \in Seq(SentSet)
  /\ Len(handled) <= Len(sent) /\ \A i \in 1 .. Len(handled) : handled[i] = sent[i]
  /\ IsSequence(answers) /\ IsSequence(replies) /\ Len(answers) = Len(handled)

(* Where the stream is that the worker has not handled yet.                *)
Begun == At(sent, Len(handled)) + (IF reading = "prefix" THEN 0 ELSE 2)

(* What it holds and what is in the pipe are the next of what was written, *)
(* and all of the rest until the port is closed.                           *)
Stream ==
  /\ Within(All(sent), Begun, buf)
  /\ Within(All(sent), Begun + Len(buf), stdin)
  /\ ~closed => Begun + Len(buf) + Len(stdin) = Len(All(sent))
  /\ Len(buf) <= need
  /\ reading = "prefix" => need = 2
  /\ reading # "prefix" =>
       Len(handled) < Len(sent) /\ need = Len(Frame(sent[Len(handled) + 1]))

StreamInv ==
  /\ buf \in Seq(Symbol) /\ stdin \in Seq(Symbol) /\ need \in Nat
  /\ exit = Running => Stream

IInv == HistoryInv /\ StreamInv /\ RegistryInv /\ OneReplyEach /\ EndsForAReason

(* The place of what is not handled is one in the stream.                  *)
LEMMA BegunIs ==
  ASSUME HistoryInv
  PROVE  /\ Len(sent) \in Nat /\ Len(handled) \in 0 .. Len(sent)
         /\ At(sent, Len(handled)) \in Nat /\ Begun \in Nat
         /\ All(sent) \in Seq(Symbol) /\ StreamIs(sent)
<1>1. /\ sent \in Seq(SentSet) /\ Len(sent) \in Nat /\ Len(handled) \in Nat
      /\ Len(handled) <= Len(sent)
  BY LenProperties DEF HistoryInv
<1>2. Len(handled) \in 0 .. Len(sent)
  BY <1>1
<1>3. StreamIs(sent)
  BY <1>1, StreamIsSo
<1>4. At(sent, Len(handled)) \in Nat
  BY <1>2, <1>3 DEF StreamIs
<1> QED
  BY <1>1, <1>2, <1>3, <1>4 DEF StreamIs, Begun

(* The frame that was read is the next one written.                        *)
LEMMA ReadFrame ==
  ASSUME HistoryInv, StreamInv, HasPacket
  PROVE  /\ Len(handled) < Len(sent) /\ sent[Len(handled) + 1] \in SentSet
         /\ buf = Frame(sent[Len(handled) + 1])
<1> DEFINE h == Len(handled)
           f == Frame(sent[h + 1])
<1>1. /\ Within(All(sent), At(sent, h) + 2, buf) /\ Len(buf) = Len(f)
      /\ h < Len(sent) /\ buf \in Seq(Symbol)
  BY DEF StreamInv, Stream, HasPacket, Begun
<1>2. sent \in Seq(SentSet) /\ h \in 0 .. Len(sent)
  BY BegunIs DEF HistoryInv
<1> HIDE DEF h
<1>3. sent[h + 1] \in SentSet /\ Within(All(sent), At(sent, h) + 2, f)
  BY <1>1, <1>2, NextIs
<1>4. f \in Seq(Symbol)
  BY <1>3, PacketIs
<1> HIDE DEF f
<1>5. buf = f
  BY <1>1, <1>3, <1>4, WithinSame
<1> QED
  BY <1>1, <1>3, <1>5 DEF f, h

(* A frame that decodes is the request; one that does not wrapped.         *)
LEMMA ReadRequest ==
  ASSUME NEW r \in SentSet
  PROVE  /\ DecodeFrame(Frame(r)).ok =>
              DecodeFrame(Frame(r)) =
                [ok |-> TRUE, id |-> r.id, meta |-> r.meta, blobs |-> r.blobs]
         /\ ~DecodeFrame(Frame(r)).ok => Wraps(r)
<1> DEFINE count == Len(r.blobs) % CountBase
           f == Layout(r.id, count, r.meta, r.blobs)
<1>1. /\ \A k \in Nat : <<k>> \in Symbol
      /\ <<r.id>> \in Symbol /\ <<"object", r.meta>> \in Symbol
      /\ r.blobs \in Seq(Seq(Symbol)) /\ count \in 0 .. Len(r.blobs)
      /\ count # Len(r.blobs) => Wraps(r)
  BY SymbolsAre
<1>2. Frame(r) = f
  BY DEF Frame, Encode
<1> HIDE DEF count
<1>3. /\ count = Len(r.blobs) =>
           Decode(f) = [ok |-> TRUE, id |-> r.id, meta |-> r.meta, blobs |-> r.blobs]
      /\ count # Len(r.blobs) => Decode(f) = Bad
  <2> DEFINE i == r.id
             m == r.meta
             bs == r.blobs
             g == Layout(i, count, m, bs)
  <2>1. /\ \A k \in Nat : <<k>> \in Symbol
        /\ <<i>> \in Symbol /\ <<"object", m>> \in Symbol
        /\ bs \in Seq(Seq(Symbol)) /\ count \in 0 .. Len(bs)
    BY <1>1
  <2> HIDE DEF i, m, bs
  <2>2. /\ count = Len(bs) => Decode(g) = [ok |-> TRUE, id |-> i, meta |-> m, blobs |-> bs]
        /\ count # Len(bs) => Decode(g) = Bad
    BY <2>1, FrameIsRead
  <2> QED
    BY <2>2 DEF i, m, bs
<1> HIDE DEF f
<1>4. DecodeFrame(Frame(r)) = Decode(f)
  BY <1>2 DEF DecodeFrame
<1>5. ~Bad.ok
  BY DEF Bad
<1> QED
  BY <1>1, <1>3, <1>4, <1>5

(* An answer that is encoded is decoded as it was.                         *)
LEMMA AnswerIsRead ==
  ASSUME NEW id \in Nat, NEW meta, NEW blobs \in Seq(Seq(Byte))
  PROVE  DecodeFrame(EncodeFrame(id, meta, blobs)) =
           [ok |-> TRUE, id |-> id, meta |-> meta, blobs |-> blobs]
<1> DEFINE S == Byte \cup {<<k>> : k \in Nat} \cup {<<"object", meta>>}
           f == Layout(id, Len(blobs), meta, blobs)
<1>1. (\A k \in Nat : <<k>> \in S) /\ <<id>> \in S /\ <<"object", meta>> \in S /\ Byte \subseteq S
  OBVIOUS
<1> HIDE DEF S
<1>2. blobs \in Seq(Seq(S)) /\ Len(blobs) \in 0 .. Len(blobs)
  <2>1. blobs \in Seq(Seq(S))
    BY <1>1, OverLargerSet
  <2> DEFINE n == Len(blobs)
  <2>2. n \in Nat
    BY LenProperties
  <2> HIDE DEF n
  <2>3. n \in 0 .. n
    BY <2>2
  <2> QED
    BY <2>1, <2>3 DEF n
<1>3. Decode(f) = [ok |-> TRUE, id |-> id, meta |-> meta, blobs |-> blobs]
  BY <1>1, <1>2, FrameIsRead
<1> QED
  BY <1>3 DEF DecodeFrame, EncodeFrame

(* At first there is nothing to see.                                       *)
LEMMA InitIInv ==
  ASSUME Init
  PROVE  IInv
<1>1. /\ sent = <<>> /\ closed = FALSE /\ stdin = <<>>
      /\ buf = <<>> /\ need = 2 /\ reading = "prefix" /\ exit = Running
      /\ handled = <<>> /\ answers = <<>>
      /\ registry = <<>> /\ nextId = 1 /\ origin = <<>> /\ replies = <<>>
  BY DEF Init
<1>2. HistoryInv
  <2>1. \A S : <<>> \in Seq(S) /\ Len(<<>>) = 0
    BY EmptySeq
  <2> QED
    BY <1>1, <2>1 DEF HistoryInv, IsSequence
<1>3. StreamInv
  <2>1. StreamIs(sent) /\ Len(sent) = 0 /\ Len(handled) = 0 /\ Len(buf) = 0 /\ Len(stdin) = 0
    BY <1>1, <1>2, BegunIs
  <2>2. Len(All(sent)) = 0 /\ At(sent, 0) = 0
    BY <2>1 DEF StreamIs
  <2>3. Begun = 0
    BY <1>1, <2>1, <2>2 DEF Begun
  <2>4. Within(All(sent), 0, buf) /\ Within(All(sent), 0, stdin)
    BY <2>1, <2>2 DEF Within
  <2>5. buf \in Seq(Symbol) /\ stdin \in Seq(Symbol)
    BY <1>1, EmptySeq
  <2> QED
    BY <1>1, <2>1, <2>2, <2>3, <2>4, <2>5 DEF StreamInv, Stream
<1>4. RegistryInv
  BY <1>1 DEF RegistryInv
<1>5. OneReplyEach
  BY <1>1 DEF OneReplyEach, Running
<1>6. EndsForAReason
  BY <1>1 DEF EndsForAReason, Running
<1> QED
  BY <1>2, <1>3, <1>4, <1>5, <1>6 DEF IInv

-----------------------------------------------------------------------------
(* Steps.                                                                  *)

(* Only a running worker and its client do anything.                       *)
LEMMA StepsAreOfRunning ==
  ASSUME Next
  PROVE  exit = Running
  BY DEF Next, Write, Close, Worker, ReadChunk, InputEnds, ReadPrefix, Undecodable, Serve, HasPacket

(* While it runs there is nothing to give a reason for.                    *)
LEMMA RunningNeedsNoReason ==
  ASSUME exit' = Running
  PROVE  EndsForAReason'
  BY DEF EndsForAReason, Running

(* What was answered stays answered.                                       *)
LEMMA RepliesKept ==
  ASSUME HistoryInv, OneReplyEach, exit = Running, exit' # 1,
         UNCHANGED <<handled, answers, replies>>,
         \A i \in 1 .. Len(sent) : sent'[i] = sent[i]
  PROVE  OneReplyEach'
<1>1. /\ Len(replies) = Len(handled)
      /\ \A i \in DOMAIN replies :
           /\ replies[i].ok /\ replies[i].id = sent[i].id
           /\ replies[i].meta = Meta(answers[i]) /\ replies[i].blobs = answers[i].blobs
  <2>1. Len(handled) \in Nat /\ exit # 1
    BY BegunIs DEF Running
  <2> QED
    BY <2>1 DEF OneReplyEach
<1>2. DOMAIN replies = 1 .. Len(replies)
  BY AppendIs DEF HistoryInv
<1>3. \A i \in DOMAIN replies : sent'[i] = sent[i]
  BY <1>1, <1>2, BegunIs
<1>4. Len(handled) \in Nat
  BY BegunIs
<1>5. handled' = handled /\ answers' = answers /\ replies' = replies
  OBVIOUS
<1>6. \A i \in DOMAIN replies' :
        /\ replies'[i].ok /\ replies'[i].id = sent'[i].id
        /\ replies'[i].meta = Meta(answers'[i]) /\ replies'[i].blobs = answers'[i].blobs
  BY <1>1, <1>3, <1>5
<1>7. Len(replies') = Len(handled') - (IF exit' = 1 THEN 1 ELSE 0)
  BY <1>1, <1>4, <1>5
<1> QED
  BY <1>6, <1>7 DEF OneReplyEach

(* A request is written behind the others.                                 *)
LEMMA WriteKeeps ==
  ASSUME IInv, NEW r \in Requests, Write(r)
  PROVE  IInv'
<1> DEFINE rec == [id |-> Len(sent) + 1, meta |-> r.meta, blobs |-> r.blobs]
           P == Packet(rec)
           w == All(sent)
           h == Len(handled)
<1>1. /\ HistoryInv /\ StreamInv /\ RegistryInv /\ OneReplyEach
      /\ ~closed /\ exit = Running /\ exit' = Running /\ closed' = closed
      /\ UNCHANGED <<workerVars, replies>> /\ sent' = Append(sent, rec)
  BY DEF IInv, Write, workerVars
<1>2. /\ buf' = buf /\ need' = need /\ reading' = reading
      /\ handled' = handled /\ answers' = answers /\ replies' = replies
      /\ registry' = registry /\ nextId' = nextId /\ origin' = origin
  BY <1>1 DEF workerVars
<1>3. /\ Len(sent) \in Nat /\ h \in 0 .. Len(sent) /\ Begun \in Nat /\ w \in Seq(Symbol)
      /\ sent \in Seq(SentSet)
  BY <1>1, BegunIs DEF HistoryInv
<1>4. rec \in SentSet
  <2>1. r.meta \in Metas /\ r.blobs \in Seq(Seq(Byte)) /\ Len(sent) + 1 \in Nat
    BY <1>3, RequestAssumption DEF Metas
  <2> QED
    BY <2>1 DEF SentSet
<1>5. /\ Frame(rec) \in Seq(Symbol) /\ P \in Seq(Symbol)
  BY <1>4, PacketIs
<1>6. stdin' = stdin \o P
  <2> DEFINE f == Frame(rec)
             a == << <<Len(f) \div 16>>, <<Len(f) % 16>> >>
  <2>1. stdin' = stdin \o a \o f
    BY DEF Write, Frame
  <2>2. P = a \o f
    BY DEF Packet
  <2>3. a \in Seq({<<Len(f) \div 16>>, <<Len(f) % 16>>} \cup Symbol)
    OBVIOUS
  <2> DEFINE T == {<<Len(f) \div 16>>, <<Len(f) % 16>>} \cup Symbol
  <2>4. Symbol \subseteq T /\ \A s \in Seq(Symbol) : s \in Seq(T)
    <3>1. Symbol \subseteq T
      OBVIOUS
    <3> HIDE DEF T
    <3>2. ASSUME NEW s \in Seq(Symbol) PROVE s \in Seq(T)
      <4>1. Len(s) \in Nat /\ s = [i \in 1 .. Len(s) |-> s[i]]
            /\ \A i \in 1 .. Len(s) : s[i] \in T
        BY <3>1, LenProperties, ElementOfSeq
      <4> QED
        BY <4>1
    <3> QED
      BY <3>1, <3>2
  <2>5. a \in Seq(T) /\ f \in Seq(T) /\ stdin \in Seq(T)
    BY <1>1, <1>5, <2>3, <2>4 DEF StreamInv
  <2> HIDE DEF a, f, T, P
  <2>6. (stdin \o a) \o f = stdin \o (a \o f)
    BY <2>5, ConcatAssociative
  <2> QED
    BY <2>1, <2>2, <2>6
<1> HIDE DEF rec, P
<1>7. /\ sent' \in Seq(SentSet) /\ Len(sent') = Len(sent) + 1
      /\ \A i \in 1 .. Len(sent) : sent'[i] = sent[i]
      /\ All(sent') = w \o P
      /\ \A i \in 0 .. Len(sent) : At(sent', i) = At(sent, i)
  BY <1>1, <1>3, <1>4, StreamGrows DEF P
<1>8. HistoryInv'
  <2>1. \A i \in 1 .. h : i \in 1 .. Len(sent)
    BY <1>3
  <2>2. Len(handled) <= Len(sent')
    BY <1>3, <1>7
  <2> QED
    BY <1>1, <1>2, <1>7, <2>1, <2>2 DEF HistoryInv, IsSequence
<1>9. StreamInv'
  <2>1. Stream /\ buf \in Seq(Symbol) /\ stdin \in Seq(Symbol) /\ need \in Nat
    BY <1>1 DEF StreamInv
  <2>2. Begun' = Begun
    BY <1>2, <1>3, <1>7 DEF Begun
  <2> DEFINE at == Begun + Len(buf)
  <2>3. at \in Nat /\ at + Len(stdin) = Len(w)
    BY <1>1, <1>3, <2>1, LenProperties DEF Stream
  <2>4. Within(w, Begun, buf) /\ Within(w, at, stdin)
    BY <2>1 DEF Stream
  <2> HIDE DEF w, at
  <2>5. Within(w \o P, Begun, buf)
    BY <1>3, <1>5, <2>1, <2>4, WithinGrows
  <2>6. Within(w \o P, at, stdin \o P) /\ at + Len(stdin \o P) = Len(w \o P)
    BY <1>3, <1>5, <2>1, <2>3, <2>4, WithinGrows
  <2>7. reading # "prefix" => h < Len(sent') /\ need = Len(Frame(sent'[h + 1]))
    <3>1. CASE reading # "prefix"
      <4>1. h < Len(sent) /\ need = Len(Frame(sent[h + 1]))
        BY <2>1, <3>1 DEF Stream
      <4>2. h + 1 \in 1 .. Len(sent) /\ h < Len(sent) + 1
        BY <1>3, <4>1
      <4> QED
        BY <1>7, <4>1, <4>2
    <3> QED
      BY <3>1
  <2>8. Len(buf) <= need /\ (reading = "prefix" => need = 2)
    BY <2>1 DEF Stream
  <2>9. stdin \o P \in Seq(Symbol)
    BY <1>5, <2>1, ConcatIs
  <2>10. Stream'
    BY <1>2, <1>6, <1>7, <2>2, <2>5, <2>6, <2>7, <2>8 DEF Stream, at
  <2> QED
    BY <1>2, <1>6, <2>1, <2>9, <2>10 DEF StreamInv
<1>10. RegistryInv'
  BY <1>1, <1>2 DEF RegistryInv
<1>11. OneReplyEach'
  <2>1. exit' # 1
    BY <1>1 DEF Running
  <2> QED
    BY <1>1, <1>2, <1>7, <2>1, RepliesKept
<1>12. EndsForAReason'
  BY <1>1, RunningNeedsNoReason
<1> QED
  BY <1>8, <1>9, <1>10, <1>11, <1>12 DEF IInv

(* A step that leaves the requests, the answers and the registry keeps what *)
(* is said of them.                                                        *)
LEMMA HistoryKept ==
  ASSUME IInv, Next, UNCHANGED <<sent, replies>>, NotHandled, exit' # 1
  PROVE  HistoryInv' /\ RegistryInv' /\ OneReplyEach'
<1>1. HistoryInv /\ RegistryInv /\ OneReplyEach /\ exit = Running
  BY StepsAreOfRunning DEF IInv
<1>2. /\ sent' = sent /\ replies' = replies /\ handled' = handled /\ answers' = answers
      /\ registry' = registry /\ nextId' = nextId /\ origin' = origin
  BY DEF NotHandled
<1>3. HistoryInv'
  BY <1>1, <1>2 DEF HistoryInv, IsSequence
<1>4. RegistryInv'
  BY <1>1, <1>2 DEF RegistryInv
<1>5. OneReplyEach'
  BY <1>1, <1>2, RepliesKept
<1> QED
  BY <1>3, <1>4, <1>5

(* Closing the port loses the end of the stream only.                      *)
LEMMA CloseKeeps ==
  ASSUME IInv, Close
  PROVE  IInv'
<1>1. HistoryInv /\ StreamInv /\ exit = Running /\ exit' = Running /\ closed' = TRUE
  BY DEF IInv, Close, workerVars
<1>2. /\ buf' = buf /\ need' = need /\ reading' = reading
      /\ sent' = sent /\ handled' = handled
  BY DEF Close, workerVars
<1>3. HistoryInv' /\ RegistryInv' /\ OneReplyEach'
  <2>1. Next /\ UNCHANGED <<sent, replies>> /\ NotHandled
    BY DEF Next, Close, workerVars, NotHandled
  <2>2. exit' # 1
    BY <1>1 DEF Running
  <2> QED
    BY <2>1, <2>2, HistoryKept
<1>4. PICK n \in 0 .. Len(stdin) : stdin' = SubSeq(stdin, 1, n)
  BY DEF Close
<1>5. StreamInv'
  <2> DEFINE at == Begun + Len(buf)
             w == All(sent)
  <2>1. Stream /\ buf \in Seq(Symbol) /\ stdin \in Seq(Symbol) /\ need \in Nat
    BY <1>1 DEF StreamInv
  <2>2. w \in Seq(Symbol) /\ at \in Nat /\ Within(w, at, stdin)
    BY <1>1, <2>1, BegunIs, LenProperties DEF Stream
  <2> HIDE DEF w, at
  <2>3. SubSeq(stdin, 1, n) \in Seq(Symbol) /\ Within(w, at, SubSeq(stdin, 1, n))
    BY <2>1, <2>2, WithinCut
  <2>4. Begun' = Begun
    BY <1>2 DEF Begun
  <2>5. Stream'
    BY <1>1, <1>2, <1>4, <2>1, <2>3, <2>4 DEF Stream, w, at
  <2> QED
    BY <1>2, <1>4, <2>1, <2>3, <2>5 DEF StreamInv
<1> QED
  BY <1>1, <1>3, <1>5, RunningNeedsNoReason DEF IInv

(* A read takes the next symbols.                                          *)
LEMMA ReadKeeps ==
  ASSUME IInv, ReadChunk
  PROVE  IInv'
<1>1. /\ HistoryInv /\ StreamInv /\ exit = Running /\ exit' = Running /\ closed' = closed
      /\ Len(buf) < need
  BY DEF IInv, ReadChunk, OnlyReads
<1>2. /\ need' = need /\ reading' = reading /\ sent' = sent /\ handled' = handled
  BY DEF ReadChunk, OnlyReads, NotHandled
<1>3. HistoryInv' /\ RegistryInv' /\ OneReplyEach'
  <2>1. Next /\ UNCHANGED <<sent, replies>> /\ NotHandled
    BY DEF Next, Worker, ReadChunk, OnlyReads
  <2>2. exit' # 1
    BY <1>1 DEF Running
  <2> QED
    BY <2>1, <2>2, HistoryKept
<1>4. Stream /\ buf \in Seq(Symbol) /\ stdin \in Seq(Symbol) /\ need \in Nat
      /\ Len(buf) \in Nat /\ Len(stdin) \in Nat
  BY <1>1, LenProperties DEF StreamInv
<1>5. PICK n \in {1, need - Len(buf)} :
        /\ n <= Len(stdin) /\ buf' = buf \o SubSeq(stdin, 1, n)
        /\ stdin' = SubSeq(stdin, n + 1, Len(stdin))
  BY DEF ReadChunk, Chunk
<1>6. n \in 0 .. Len(stdin) /\ n \in Nat /\ Len(buf) + n <= need
  BY <1>1, <1>4, <1>5
<1>7. StreamInv'
  <2> DEFINE m == Len(buf)
             l == Len(stdin)
             b == Begun
             at == b + m
             w == All(sent)
             x == SubSeq(stdin, 1, n)
             y == SubSeq(stdin, n + 1, l)
  <2>1. /\ w \in Seq(Symbol) /\ b \in Nat /\ m \in Nat /\ l \in Nat /\ at \in Nat
        /\ Within(w, at, stdin) /\ Within(w, b, buf)
    BY <1>1, <1>4, BegunIs DEF Stream
  <2>2. /\ x \in Seq(Symbol) /\ Len(x) = n /\ y \in Seq(Symbol) /\ Len(y) = l - n
        /\ Within(w, at, x) /\ Within(w, at + n, y)
    <3> HIDE DEF at, w
    <3> QED
      BY <1>4, <1>6, <2>1, WithinCut
  <2>3. buf' = buf \o x /\ stdin' = y
    BY <1>5
  <2> HIDE DEF x, y, w, b
  <2>4. buf \o x \in Seq(Symbol) /\ Len(buf \o x) = Len(buf) + Len(x) /\ Within(w, b, buf \o x)
    BY <1>4, <2>1, <2>2, WithinJoin
  <2>5. Len(buf') = m + n
    BY <2>2, <2>3, <2>4
  <2>6. b + Len(buf') = at + n
    BY <1>6, <2>1, <2>5
  <2>7. Begun' = b
    BY <1>2 DEF Begun, b
  <2>8. ~closed => b + Len(buf') + Len(stdin') = Len(w)
    <3>1. ~closed => b + m + l = Len(w)
      BY <1>4 DEF Stream, w, b
    <3> DEFINE u == Len(buf')
               v == Len(stdin')
               k == Len(w)
    <3>2. v = l - n /\ u = m + n /\ (~closed => b + m + l = k)
      BY <2>2, <2>3, <2>5, <3>1
    <3>3. n \in Nat /\ b \in Nat /\ m \in Nat /\ l \in Nat
      BY <1>6, <2>1
    <3> HIDE DEF m, l, u, v, k
    <3>4. ~closed => b + u + v = k
      BY <3>2, <3>3
    <3> QED
      BY <3>4 DEF u, v, k
  <2>9. Len(buf') <= need
    BY <1>6, <2>5
  <2>10. Within(w, b, buf') /\ Within(w, b + Len(buf'), stdin')
    BY <2>2, <2>3, <2>4, <2>6
  <2>11. /\ reading = "prefix" => need = 2
         /\ reading # "prefix" => Len(handled) < Len(sent) /\ need = Len(Frame(sent[Len(handled) + 1]))
    BY <1>4 DEF Stream
  <2>12. Stream'
    BY <1>1, <1>2, <2>7, <2>8, <2>9, <2>10, <2>11 DEF Stream, w
  <2> QED
    BY <1>2, <1>4, <2>2, <2>3, <2>4, <2>12 DEF StreamInv
<1> QED
  BY <1>1, <1>3, <1>7, RunningNeedsNoReason DEF IInv

(* The end of the input ends the worker.                                   *)
LEMMA InputEndsKeeps ==
  ASSUME IInv, InputEnds
  PROVE  IInv'
<1>1. /\ StreamInv /\ closed /\ closed' = closed /\ exit' \in {0, 2}
      /\ buf' = buf /\ stdin' = stdin /\ need' = need
  BY DEF IInv, InputEnds, OnlyReads
<1>2. exit' # 1 /\ exit' # Running
  BY <1>1 DEF Running
<1>3. HistoryInv' /\ RegistryInv' /\ OneReplyEach'
  <2>1. Next /\ UNCHANGED <<sent, replies>> /\ NotHandled
    BY DEF Next, Worker, InputEnds, OnlyReads
  <2> QED
    BY <1>2, <2>1, HistoryKept
<1>4. StreamInv'
  BY <1>1, <1>2 DEF StreamInv
<1>5. EndsForAReason'
  BY <1>1, <1>2 DEF EndsForAReason
<1> QED
  BY <1>3, <1>4, <1>5 DEF IInv

(* The prefix that was read is the length of the next frame.               *)
LEMMA ReadLength ==
  ASSUME HistoryInv, StreamInv, exit = Running, reading = "prefix", Len(buf) = need
  PROVE  /\ Len(handled) < Len(sent) /\ sent[Len(handled) + 1] \in SentSet
         /\ PacketLength = Len(Frame(sent[Len(handled) + 1]))
<1> DEFINE h == Len(handled)
           r == sent[h + 1]
           w == All(sent)
           b == At(sent, h)
           p == Packet(r)
<1>1. Within(w, b, buf) /\ Len(buf) = 2
  <2>1. Begun = b
    BY BegunIs DEF Begun
  <2> QED
    BY <2>1 DEF StreamInv, Stream
<1>2. b + 2 <= Len(w) /\ w[b + 1] = buf[1] /\ w[b + 2] = buf[2]
  <2>1. \A k \in 1 .. 2 : w[b + k] = buf[k]
    BY <1>1 DEF Within
  <2> QED
    BY <1>1, <2>1 DEF Within
<1>3. /\ sent \in Seq(SentSet) /\ h \in 0 .. Len(sent) /\ b \in Nat /\ Len(sent) \in Nat
      /\ Len(w) = At(sent, Len(sent))
  BY BegunIs DEF HistoryInv, StreamIs
<1>4. h < Len(sent)
  <2>1. h # Len(sent)
    <3> SUFFICES ASSUME h = Len(sent) PROVE FALSE
      OBVIOUS
    <3>1. Len(w) = b
      BY <1>3
    <3> DEFINE l == Len(w)
    <3> HIDE DEF w, b, l
    <3>2. l = b /\ b + 2 <= l /\ b \in Nat
      BY <1>2, <1>3, <3>1 DEF l
    <3> QED
      BY <3>2
  <2> QED
    BY <1>3, <2>1
<1> HIDE DEF h
<1>5. r \in SentSet /\ Within(w, b, p)
  BY <1>3, <1>4, NextIs
<1>6. /\ Len(p) = 2 + Len(Frame(r)) /\ Len(Frame(r)) \in Nat
      /\ 16 * Number(p[1]) + Number(p[2]) = Len(Frame(r))
  BY <1>5, PacketIs
<1>7. p[1] = buf[1] /\ p[2] = buf[2]
  <2>1. 1 \in 1 .. Len(p) /\ 2 \in 1 .. Len(p)
    BY <1>6
  <2> HIDE DEF p, w, b
  <2>2. w[b + 1] = p[1] /\ w[b + 2] = p[2]
    BY <1>5, <2>1 DEF Within
  <2> QED
    BY <1>2, <2>2
<1>8. PacketLength = Len(Frame(r))
  BY <1>6, <1>7 DEF PacketLength
<1> QED
  BY <1>4, <1>5, <1>8 DEF h

(* A length is taken for the frame to come, or is too large.               *)
LEMMA ReadPrefixKeeps ==
  ASSUME IInv, ReadPrefix
  PROVE  IInv'
<1> DEFINE h == Len(handled)
           r == sent[h + 1]
<1>1. /\ HistoryInv /\ StreamInv /\ exit = Running /\ closed' = closed
      /\ sent' = sent /\ handled' = handled /\ stdin' = stdin
  BY DEF IInv, ReadPrefix, OnlyReads, NotHandled
<1>2. h < Len(sent) /\ r \in SentSet /\ PacketLength = Len(Frame(r))
  BY <1>1, ReadLength DEF ReadPrefix
<1>3. /\ sent \in Seq(SentSet) /\ Len(sent) \in Nat /\ h \in 0 .. Len(sent)
      /\ Begun \in Nat /\ At(sent, h) \in Nat
  BY <1>1, BegunIs DEF HistoryInv
<1>4. exit' # 1
  BY <1>1 DEF ReadPrefix, Running
<1>5. HistoryInv' /\ RegistryInv' /\ OneReplyEach'
  <2>1. Next /\ UNCHANGED <<sent, replies>> /\ NotHandled
    BY DEF Next, Worker, ReadPrefix, OnlyReads
  <2> QED
    BY <1>4, <2>1, HistoryKept
<1>6. CASE PacketLength > MaxFrame
  <2>1. exit' = 2 /\ exit' # Running /\ buf' = buf /\ need' = need
    BY <1>6 DEF ReadPrefix, Running
  <2>2. StreamInv'
    BY <1>1, <2>1 DEF StreamInv
  <2>3. TooLarge(r) /\ h + 1 \in DOMAIN sent
    <3>1. h + 1 \in 1 .. Len(sent)
      BY <1>2, <1>3
    <3> QED
      BY <1>2, <1>3, <1>6, <3>1, LenProperties DEF TooLarge, Frame
  <2>4. EndsForAReason'
    BY <1>1, <2>1, <2>3 DEF EndsForAReason, TooLarge, Wraps
  <2> QED
    BY <1>5, <2>2, <2>4 DEF IInv
<1>7. CASE ~(PacketLength > MaxFrame)
  <2>1. buf' = <<>> /\ need' = PacketLength /\ reading' = "body" /\ exit' = exit
    BY <1>7 DEF ReadPrefix
  <2> DEFINE w == All(sent)
             n == Len(Frame(r))
  <2>2. Stream /\ stdin \in Seq(Symbol) /\ Len(buf) = 2 /\ reading = "prefix"
    BY <1>1 DEF StreamInv, ReadPrefix, Stream
  <2>3. n \in Nat
    BY <1>2, PacketIs
  <2>4. Begun' = At(sent, h) + 2 /\ Begun = At(sent, h) /\ Begun' \in Nat
    BY <1>1, <1>3, <2>1, <2>2 DEF Begun
  <2>5. Len(buf') = 0 /\ buf' \in Seq(Symbol)
    BY <2>1, EmptySeq
  <2>6. Begun' + Len(buf') = Begun + Len(buf)
    BY <1>3, <2>2, <2>4, <2>5
  <2>7. Within(w, Begun', buf')
    <3>1. Within(w, Begun, buf)
      BY <2>2 DEF Stream
    <3> HIDE DEF w
    <3>2. Begun + Len(buf) <= Len(w)
      BY <3>1 DEF Within
    <3>3. Begun' + Len(buf') <= Len(w)
      BY <2>6, <3>2
    <3> QED
      BY <2>5, <3>3 DEF Within
  <2>8. Within(w, Begun' + Len(buf'), stdin)
    BY <2>2, <2>6 DEF Stream
  <2>9. ~closed => Begun' + Len(buf') + Len(stdin) = Len(w)
    BY <2>2, <2>6 DEF Stream
  <2>10. Len(buf') <= need' /\ need' = n /\ need' \in Nat
    BY <1>2, <2>1, <2>3, <2>5
  <2>11. Stream'
    BY <1>1, <1>2, <2>1, <2>7, <2>8, <2>9, <2>10 DEF Stream
  <2>12. StreamInv'
    BY <1>1, <2>2, <2>5, <2>10, <2>11 DEF StreamInv
  <2> QED
    BY <1>1, <1>5, <2>1, <2>12, RunningNeedsNoReason DEF IInv
<1> QED
  BY <1>6, <1>7

(* A frame that cannot be decoded is one whose count wrapped.              *)
LEMMA UndecodableKeeps ==
  ASSUME IInv, Undecodable
  PROVE  IInv'
<1> DEFINE h == Len(handled)
           r == sent[h + 1]
<1>1. /\ HistoryInv /\ StreamInv /\ HasPacket /\ ~DecodeFrame(buf).ok
      /\ sent' = sent /\ stdin' = stdin /\ buf' = buf /\ need' = need /\ exit' = 2
  BY DEF IInv, Undecodable, OnlyReads
<1>2. exit' # 1 /\ exit' # Running /\ exit' # 0
  BY <1>1 DEF Running
<1>3. HistoryInv' /\ RegistryInv' /\ OneReplyEach'
  <2>1. Next /\ UNCHANGED <<sent, replies>> /\ NotHandled
    BY DEF Next, Worker, Undecodable, OnlyReads
  <2> QED
    BY <1>2, <2>1, HistoryKept
<1>4. StreamInv'
  BY <1>1, <1>2 DEF StreamInv
<1>5. h < Len(sent) /\ r \in SentSet /\ buf = Frame(r)
  BY <1>1, ReadFrame
<1>6. Wraps(r)
  BY <1>1, <1>5, ReadRequest
<1>7. h + 1 \in DOMAIN sent
  <2>1. Len(sent) \in Nat /\ h \in 0 .. Len(sent) /\ sent \in Seq(SentSet)
    BY <1>1, BegunIs DEF HistoryInv
  <2>2. h + 1 \in 1 .. Len(sent)
    BY <1>5, <2>1
  <2> QED
    BY <2>1, <2>2, LenProperties
<1>8. EndsForAReason'
  BY <1>1, <1>2, <1>6, <1>7 DEF EndsForAReason, Wraps, TooLarge
<1> QED
  BY <1>3, <1>4, <1>8 DEF IInv

(* A turn of the loop: what was read is the next request, the worker does   *)
(* what it asks, and its answer is read as it was given.                    *)
Turn(r, a) ==
  /\ Len(handled) < Len(sent) /\ r = sent[Len(handled) + 1] /\ r \in SentSet
  /\ buf = Frame(r)
  /\ handled' = Append(handled, r) /\ Outcome(r.meta, a) /\ Last(answers') = a
  /\ EncodeRaises(r.id, Meta(a), a.blobs) \/ closed => exit' = 1 /\ replies' = replies
  /\ ~(EncodeRaises(r.id, Meta(a), a.blobs) \/ closed) =>
       /\ replies' = Append(replies, [ok |-> TRUE, id |-> r.id, meta |-> Meta(a), blobs |-> a.blobs])
       /\ exit' = IF r.meta.command = "shutdown" THEN 0 ELSE Running

(* Serve is such a turn.                                                   *)
LEMMA ServeIsTurn ==
  ASSUME IInv, Serve
  PROVE  \E a : Turn(sent[Len(handled) + 1], a)
<1> DEFINE r == sent[Len(handled) + 1]
           d == DecodeFrame(buf)
<1>1. HistoryInv /\ StreamInv /\ RegistryInv
  BY DEF IInv
<1>2. HasPacket /\ d.ok
  BY DEF Serve
<1>3. Len(handled) < Len(sent) /\ r \in SentSet /\ buf = Frame(r)
  BY <1>1, <1>2, ReadFrame
<1>4. /\ handled' = Append(handled, [id |-> d.id, meta |-> d.meta, blobs |-> d.blobs])
      /\ Handle(d.meta, d.blobs)
      /\ LET a == Last(answers')
         IN  IF EncodeRaises(d.id, Meta(a), a.blobs) \/ closed THEN exit' = 1 /\ replies' = replies
             ELSE /\ replies' = Append(replies, DecodeFrame(EncodeFrame(d.id, Meta(a), a.blobs)))
                  /\ exit' = IF d.meta.command = "shutdown" THEN 0 ELSE Running
  BY DEF Serve
<1> HIDE DEF r, d
<1>5. d = [ok |-> TRUE, id |-> r.id, meta |-> r.meta, blobs |-> r.blobs]
  BY <1>2, <1>3, ReadRequest DEF d
<1>6. /\ d.id = r.id /\ d.meta = r.meta /\ d.blobs = r.blobs
      /\ r = [id |-> r.id, meta |-> r.meta, blobs |-> r.blobs]
      /\ r.id \in Nat /\ r.blobs \in Seq(Seq(Byte))
  BY <1>3, <1>5 DEF SentSet
<1>7. Handle(r.meta, r.blobs)
  BY <1>4, <1>6
<1>8. PICK a : Outcome(r.meta, a)
  <2> DEFINE m == r.meta
             bs == r.blobs
  <2>1. bs \in Seq(Seq(Byte)) /\ Handle(m, bs)
    BY <1>6, <1>7
  <2> HIDE DEF m, bs
  <2>2. \E a : Outcome(m, a)
    BY <1>1, <2>1, HandleIs
  <2> QED
    BY <2>2 DEF m
<1>9. Last(answers') = a /\ a.blobs \in Seq(Seq(Byte))
  BY <1>1, <1>8, AppendIs DEF Outcome, HistoryInv
<1>10. DecodeFrame(EncodeFrame(r.id, Meta(a), a.blobs)) =
         [ok |-> TRUE, id |-> r.id, meta |-> Meta(a), blobs |-> a.blobs]
  <2> DEFINE i == r.id
             m == Meta(a)
             bs == a.blobs
  <2>1. i \in Nat /\ bs \in Seq(Seq(Byte))
    BY <1>6, <1>9
  <2> HIDE DEF i, m, bs
  <2>2. DecodeFrame(EncodeFrame(i, m, bs)) = [ok |-> TRUE, id |-> i, meta |-> m, blobs |-> bs]
    BY <2>1, AnswerIsRead
  <2> QED
    BY <2>2 DEF i, m, bs
<1>11. handled' = Append(handled, r)
  BY <1>4, <1>6
<1>12. EncodeRaises(r.id, Meta(a), a.blobs) \/ closed => exit' = 1 /\ replies' = replies
  BY <1>4, <1>6, <1>9
<1>13. ~(EncodeRaises(r.id, Meta(a), a.blobs) \/ closed) =>
         /\ replies' = Append(replies, [ok |-> TRUE, id |-> r.id, meta |-> Meta(a), blobs |-> a.blobs])
         /\ exit' = IF r.meta.command = "shutdown" THEN 0 ELSE Running
  BY <1>4, <1>6, <1>9, <1>10
<1>14. Turn(r, a)
  BY <1>3, <1>8, <1>9, <1>11, <1>12, <1>13, Zenon DEF Turn, r
<1> QED
  BY <1>14 DEF r

(* ... after which the stream goes on behind the frame.                    *)
LEMMA ServeKeeps ==
  ASSUME IInv, Serve
  PROVE  IInv'
<1> DEFINE h == Len(handled)
           r == sent[h + 1]
<1>1. /\ HistoryInv /\ StreamInv /\ RegistryInv /\ OneReplyEach /\ HasPacket
      /\ exit = Running /\ reading = "body" /\ Len(buf) = need
      /\ sent' = sent /\ closed' = closed /\ stdin' = stdin
      /\ buf' = <<>> /\ need' = 2 /\ reading' = "prefix"
  BY DEF IInv, Serve, HasPacket
<1>2. PICK a : Turn(r, a)
  BY ServeIsTurn
<1>3. /\ sent \in Seq(SentSet) /\ handled \in Seq(SentSet)
      /\ Len(sent) \in Nat /\ h \in Nat /\ h <= Len(sent) /\ Begun \in Nat /\ At(sent, h) \in Nat
      /\ \A i \in 1 .. h : handled[i] = sent[i]
      /\ IsSequence(answers) /\ IsSequence(replies) /\ Len(answers) = h
  BY <1>1, BegunIs DEF HistoryInv
<1>4. h < Len(sent) /\ r \in SentSet /\ handled' = Append(handled, r) /\ answers' = Append(answers, a)
  BY <1>2 DEF Turn, Outcome
<1>5. /\ handled' \in Seq(SentSet) /\ Len(handled') = h + 1
      /\ \A i \in 1 .. h : handled'[i] = handled[i]
      /\ handled'[h + 1] = r
  BY <1>3, <1>4, AppendProperties
<1>6. /\ IsSequence(answers') /\ Len(answers') = h + 1 /\ Last(answers') = a
      /\ \A i \in 1 .. h : answers'[i] = answers[i]
      /\ answers'[h + 1] = a
  BY <1>3, <1>4, AppendIs
<1>7. /\ h = Len(replies) /\ DOMAIN replies = 1 .. h
      /\ \A i \in 1 .. h :
           /\ replies[i].ok /\ replies[i].id = sent[i].id
           /\ replies[i].meta = Meta(answers[i]) /\ replies[i].blobs = answers[i].blobs
  <2>1. DOMAIN replies = 1 .. Len(replies) /\ Len(replies) \in Nat
    BY <1>3, AppendIs
  <2>2. exit # 1
    BY <1>1 DEF Running
  <2>3. Len(replies) = h - 0
    BY <1>1, <2>2 DEF OneReplyEach
  <2>4. Len(replies) = h
    BY <1>3, <2>3
  <2> QED
    BY <1>1, <2>1, <2>4 DEF OneReplyEach
<1> HIDE DEF h
<1>8. IsSequence(replies') /\ OneReplyEach'
  <2>1. CASE EncodeRaises(r.id, Meta(a), a.blobs) \/ closed
    <3>1. exit' = 1 /\ replies' = replies
      BY <1>2, <2>1 DEF Turn
    <3>2. Len(replies') = Len(handled') - (IF exit' = 1 THEN 1 ELSE 0)
      BY <1>3, <1>5, <1>7, <3>1
    <3>3. \A i \in DOMAIN replies' :
            /\ replies'[i].ok /\ replies'[i].id = sent'[i].id
            /\ replies'[i].meta = Meta(answers'[i]) /\ replies'[i].blobs = answers'[i].blobs
      BY <1>1, <1>6, <1>7, <3>1
    <3> QED
      BY <1>3, <3>1, <3>2, <3>3 DEF OneReplyEach
  <2>2. CASE ~(EncodeRaises(r.id, Meta(a), a.blobs) \/ closed)
    <3> DEFINE e == [ok |-> TRUE, id |-> r.id, meta |-> Meta(a), blobs |-> a.blobs]
    <3>1. replies' = Append(replies, e) /\ exit' # 1
      BY <1>2, <2>2 DEF Turn, Running
    <3>2. e.ok /\ e.id = r.id /\ e.meta = Meta(a) /\ e.blobs = a.blobs
      OBVIOUS
    <3> HIDE DEF e
    <3>3. /\ IsSequence(replies') /\ Len(replies') = h + 1 /\ DOMAIN replies' = 1 .. h + 1
          /\ \A i \in 1 .. h : replies'[i] = replies[i]
          /\ replies'[h + 1] = e
      BY <1>3, <1>7, <3>1, AppendIs
    <3>4. Len(replies') = Len(handled') - (IF exit' = 1 THEN 1 ELSE 0)
      BY <1>3, <1>5, <3>1, <3>3
    <3>5. ASSUME NEW i \in DOMAIN replies'
          PROVE  /\ replies'[i].ok /\ replies'[i].id = sent'[i].id
                 /\ replies'[i].meta = Meta(answers'[i]) /\ replies'[i].blobs = answers'[i].blobs
      <4>1. CASE i = h + 1
        BY <1>1, <1>6, <3>2, <3>3, <4>1
      <4>2. CASE i # h + 1
        <5>1. i \in 1 .. h
          BY <1>3, <3>3, <4>2
        <5> QED
          BY <1>1, <1>6, <1>7, <3>3, <5>1
      <4> QED
        BY <4>1, <4>2
    <3> QED
      BY <3>3, <3>4, <3>5 DEF OneReplyEach
  <2> QED
    BY <2>1, <2>2
<1>9. HistoryInv'
  <2>1. h + 1 <= Len(sent)
    BY <1>3, <1>4 DEF h
  <2>2. ASSUME NEW i \in 1 .. h + 1 PROVE handled'[i] = sent[i]
    <3>1. CASE i = h + 1
      BY <1>5, <3>1
    <3>2. CASE i # h + 1
      <4>1. i \in 1 .. h
        BY <1>3, <3>2
      <4> QED
        BY <1>3, <1>5, <4>1
    <3> QED
      BY <3>1, <3>2
  <2> QED
    BY <1>1, <1>3, <1>5, <1>6, <1>8, <2>1, <2>2 DEF HistoryInv
<1>10. StreamInv'
  <2> DEFINE w == All(sent)
             n == Len(Frame(r))
  <2>1. Stream /\ stdin \in Seq(Symbol)
    BY <1>1 DEF StreamInv
  <2>2. n = Len(buf) /\ n \in Nat
    BY <1>2, <1>4, PacketIs DEF Turn, h
  <2>3. At(sent, h + 1) = At(sent, h) + 2 + n
    <3>1. h \in 0 .. Len(sent)
      BY <1>3
    <3> QED
      BY <1>3, <1>4, <3>1, NextIs
  <2>4. Begun = At(sent, h) + 2
    BY <1>1 DEF Begun, h
  <2>5. Begun' = At(sent, h + 1) + 0
    BY <1>1, <1>5 DEF Begun
  <2>6. Len(buf') = 0 /\ buf' \in Seq(Symbol)
    BY <1>1, EmptySeq
  <2> HIDE DEF w, n
  <2>7. Begun' \in Nat /\ Begun' + Len(buf') = Begun + Len(buf)
    BY <1>3, <2>2, <2>3, <2>4, <2>5, <2>6
  <2>8. Within(w, Begun', buf')
    <3>1. Within(w, Begun, buf)
      BY <2>1 DEF Stream, w
    <3>2. Begun + Len(buf) <= Len(w)
      BY <3>1 DEF Within
    <3>3. Begun' + Len(buf') <= Len(w)
      BY <2>7, <3>2
    <3> QED
      BY <2>6, <3>3 DEF Within
  <2>9. Within(w, Begun' + Len(buf'), stdin)
    BY <2>1, <2>7 DEF Stream, w
  <2>10. ~closed => Begun' + Len(buf') + Len(stdin) = Len(w)
    BY <2>1, <2>7 DEF Stream, w
  <2>11. Stream'
    BY <1>1, <2>6, <2>8, <2>9, <2>10 DEF Stream, w
  <2> QED
    BY <1>1, <2>1, <2>6, <2>11 DEF StreamInv
<1>11. RegistryInv'
  BY <1>2 DEF Turn, Outcome
<1>12. EndsForAReason'
  <2>1. CASE EncodeRaises(r.id, Meta(a), a.blobs) \/ closed
    <3>1. exit' = 1
      BY <1>2, <2>1 DEF Turn
    <3>2. Last(handled') = r
      BY <1>5 DEF Last
    <3>3. closed' \/ EncodeRaises(Last(handled').id, Meta(Last(answers')), Last(answers').blobs)
      BY <1>1, <1>6, <2>1, <3>2
    <3> QED
      BY <3>1, <3>3 DEF EndsForAReason, Running
  <2>2. CASE ~(EncodeRaises(r.id, Meta(a), a.blobs) \/ closed)
    <3>1. exit' = IF r.meta.command = "shutdown" THEN 0 ELSE Running
      BY <1>2, <2>2 DEF Turn
    <3>2. CASE r.meta.command = "shutdown"
      <4>1. exit' = 0 /\ handled'[Len(handled')].meta.command = "shutdown"
        BY <1>5, <3>1, <3>2
      <4> QED
        BY <4>1 DEF EndsForAReason
    <3>3. CASE r.meta.command # "shutdown"
      BY <3>1, <3>3, RunningNeedsNoReason
    <3> QED
      BY <3>2, <3>3
  <2> QED
    BY <2>1, <2>2
<1> QED
  BY <1>8, <1>9, <1>10, <1>11, <1>12 DEF IInv

(* No step disturbs it.                                                    *)
LEMMA NextIInv ==
  ASSUME IInv, [Next]_vars
  PROVE  IInv'
<1>1. CASE \E r \in Requests : Write(r)
  BY <1>1, WriteKeeps
<1>2. CASE Close
  BY <1>2, CloseKeeps
<1>3. CASE ReadChunk
  BY <1>3, ReadKeeps
<1>4. CASE InputEnds
  BY <1>4, InputEndsKeeps
<1>5. CASE ReadPrefix
  BY <1>5, ReadPrefixKeeps
<1>6. CASE Undecodable
  BY <1>6, UndecodableKeeps
<1>7. CASE Serve
  BY <1>7, ServeKeeps
<1>8. CASE UNCHANGED vars
  <2>1. /\ sent' = sent /\ closed' = closed /\ stdin' = stdin /\ replies' = replies
        /\ buf' = buf /\ need' = need /\ reading' = reading /\ exit' = exit
        /\ handled' = handled /\ answers' = answers /\ registry' = registry /\ nextId' = nextId
        /\ origin' = origin
    BY <1>8 DEF vars, workerVars
  <2>2. HistoryInv' /\ RegistryInv'
    BY <2>1 DEF IInv, HistoryInv, RegistryInv, IsSequence
  <2>3. StreamInv'
    BY <2>1 DEF IInv, StreamInv, Stream, Begun
  <2>4. OneReplyEach'
    BY <2>1 DEF IInv, OneReplyEach
  <2>5. EndsForAReason'
    BY <2>1 DEF IInv, EndsForAReason, Wraps, TooLarge
  <2> QED
    BY <2>2, <2>3, <2>4, <2>5 DEF IInv
<1> QED
  BY <1>1, <1>2, <1>3, <1>4, <1>5, <1>6, <1>7, <1>8 DEF Next, Worker

(* So it always holds.                                                     *)
LEMMA AlwaysIInv == Spec => []IInv
<1>1. Init => IInv
  BY InitIInv
<1>2. IInv /\ [Next]_vars => IInv'
  BY NextIInv
<1> QED
  BY <1>1, <1>2, PTL DEF Spec

-----------------------------------------------------------------------------
(* Theorems.                                                               *)

(* However the pipe cuts the stream and wherever it ends, what the worker   *)
(* carries out is what was written, in its order, with its ids, arguments  *)
(* and blobs; for every request, number of blobs and size of frame         *)
(* (protocol.py: read_exact, read_packet, decode_frame).                   *)
THEOREM NothingIsMisread == Spec => []NeverMisread
<1>1. IInv => NeverMisread
  <2> SUFFICES ASSUME IInv PROVE NeverMisread
    OBVIOUS
  <2> DEFINE n == Len(handled)
             z == 0
             a == SubSeq(handled, z + 1, n)
             b == SubSeq(sent, z + 1, n)
  <2>1. /\ handled \in Seq(SentSet) /\ sent \in Seq(SentSet) /\ n <= Len(sent)
        /\ \A i \in 1 .. n : handled[i] = sent[i]
    BY DEF IInv, HistoryInv
  <2>2. n \in Nat /\ z \in Nat /\ z <= n /\ n <= Len(handled) /\ z + 1 = 1
    BY <2>1, LenProperties
  <2>3. a = SubSeq(handled, 1, Len(handled)) /\ b = SubSeq(sent, 1, Len(handled))
    OBVIOUS
  <2> HIDE DEF n, z
  <2>4. a \in Seq(SentSet) /\ Len(a) = n - z /\ \A k \in 1 .. n - z : a[k] = handled[z + k]
    BY <2>1, <2>2, PartIs
  <2>5. b \in Seq(SentSet) /\ Len(b) = n - z /\ \A k \in 1 .. n - z : b[k] = sent[z + k]
    BY <2>1, <2>2, PartIs
  <2>6. \A k \in 1 .. n - z : z + k \in 1 .. n
    BY <2>2
  <2>7. \A k \in 1 .. n - z : a[k] = b[k]
    BY <2>1, <2>4, <2>5, <2>6
  <2> HIDE DEF a, b
  <2>8. a = b
    BY <2>4, <2>5, <2>7, SeqEqual
  <2> QED
    BY <2>1, <2>3, <2>8 DEF NeverMisread, IsPrefix, n
<1> QED
  BY <1>1, AlwaysIInv, PTL

(* The i-th reply decodes, has the i-th request's id and is what the worker *)
(* answered, blob for blob; none is missing, save the one whose writing    *)
(* ended the worker (main.py: main; docs/protocol.md:24).                  *)
THEOREM EachIsAnsweredOnce == Spec => []OneReplyEach
<1>1. IInv => OneReplyEach
  BY DEF IInv
<1> QED
  BY <1>1, AlwaysIInv, PTL

(* The worker ends over the end of its input, a shutdown, a request of a    *)
(* size or a count it cannot take, or an answer of a size or a count that   *)
(* its frame cannot say, and over nothing else (main.py: main; protocol.py: *)
(* write_packet, encode_frame).                                            *)
THEOREM WorkerEndsForAReason == Spec => []EndsForAReason
<1>1. IInv => EndsForAReason
  BY DEF IInv
<1> QED
  BY <1>1, AlwaysIInv, PTL

(* A request that is answered with an error leaves every buffer as it was,  *)
(* and none behind, save an execute whose second output fails: an id that  *)
(* is given out is of no buffer there is (main.py: TensorRegistry.put,     *)
(* cmd_upload, cmd_execute).                                               *)
THEOREM ErrorsCostNoBuffer == Spec => ErrorsKeepBuffers
<1> DEFINE A == LET i == Len(answers')
                IN  i > Len(answers) /\ ~answers'[i].ok =>
                      /\ \A b \in DOMAIN registry : b \in DOMAIN registry' /\ registry'[b] = registry[b]
                      /\ nextId' # nextId =>
                           handled'[i].meta.command = "execute" /\ nextId' = nextId + 1
<1>1. IInv /\ [Next]_vars => [A]_vars
  <2> SUFFICES ASSUME IInv, Next PROVE A
    OBVIOUS
  <2>1. CASE Serve
    <3> DEFINE h == Len(handled)
               r == sent[h + 1]
    <3>1. PICK a : Turn(r, a)
      BY <2>1, ServeIsTurn
    <3>2. /\ r \in SentSet /\ handled' = Append(handled, r) /\ answers' = Append(answers, a)
          /\ Outcome(r.meta, a)
      BY <3>1 DEF Turn, Outcome
    <3>3. handled \in Seq(SentSet) /\ IsSequence(answers) /\ Len(answers) = h
      BY DEF IInv, HistoryInv
    <3>4. Len(answers') = h + 1 /\ answers'[h + 1] = a
      BY <3>2, <3>3, AppendIs
    <3>5. handled'[h + 1] = r
      BY <3>2, <3>3, AppendProperties
    <3> HIDE DEF h
    <3>6. /\ ~a.ok => /\ \A b \in DOMAIN registry : b \in DOMAIN registry' /\ registry'[b] = registry[b]
                      /\ nextId' # nextId => r.meta.command = "execute" /\ nextId' = nextId + 1
      BY <3>2 DEF Outcome
    <3> QED
      BY <3>4, <3>5, <3>6
  <2>2. CASE ~Serve
    <3>1. answers' = answers
      BY <2>2 DEF Next, Worker, Write, Close, ReadChunk, InputEnds, ReadPrefix, Undecodable,
                  OnlyReads, NotHandled, workerVars
    <3>2. Len(answers) \in Nat
      BY AppendIs DEF IInv, HistoryInv
    <3>3. ~(Len(answers') > Len(answers))
      BY <3>1, <3>2
    <3> QED
      BY <3>3
  <2> QED
    BY <2>1, <2>2
<1>2. Spec => [][A]_vars
  BY <1>1, AlwaysIInv, PTL DEF Spec
<1> QED
  BY <1>2 DEF ErrorsKeepBuffers

(* What a download or a host output returns has every byte of what the      *)
(* buffer was made from, save those of a complex element that re + 1j * im  *)
(* changes (a NaN or infinite imaginary part, a zero's sign, a signaling    *)
(* NaN): elements that were taken apart into pairs are joined in their      *)
(* place, and no release, copy or later upload gives an id other bytes;     *)
(* for every dtype, blob and order of requests (main.py: cmd_upload,       *)
(* cmd_download, cmd_execute; dtype.py: wire_tensor, wire_numpy).          *)
THEOREM BytesComeBack == Spec => []BytesSurvive
<1>1. Init => BytesSurvive
  BY DEF Init, BytesSurvive
<1>2. IInv /\ BytesSurvive /\ [Next]_vars => BytesSurvive'
  <2> SUFFICES ASSUME IInv, BytesSurvive, [Next]_vars PROVE BytesSurvive'
    OBVIOUS
  <2>1. CASE Serve
    <3> DEFINE h == Len(handled)
               r == sent[h + 1]
    <3>1. PICK a : Turn(r, a)
      BY <2>1, ServeIsTurn
    <3>2. /\ r \in SentSet /\ handled' = Append(handled, r) /\ answers' = Append(answers, a)
          /\ OriginsKept /\ Returned(origin', r.meta.id, a.blobs)
      BY <3>1 DEF Turn, Outcome
    <3>3. handled \in Seq(SentSet) /\ IsSequence(answers) /\ Len(answers) = h /\ h \in Nat
      BY LenProperties DEF IInv, HistoryInv
    <3>4. /\ DOMAIN answers' = 1 .. h + 1 /\ DOMAIN answers = 1 .. h
          /\ answers'[h + 1] = a /\ \A i \in 1 .. h : answers'[i] = answers[i]
      BY <3>2, <3>3, AppendIs
    <3>5. handled'[h + 1] = r /\ \A i \in 1 .. h : handled'[i] = handled[i]
      BY <3>2, <3>3, AppendProperties
    <3> HIDE DEF h
    <3>6. ASSUME NEW i \in 1 .. h + 1, NEW k \in DOMAIN answers'[i].blobs
          PROVE  /\ handled'[i].meta.id \in DOMAIN origin'
                 /\ SameBytes(origin'[handled'[i].meta.id], answers'[i].blobs[k])
      <4>1. CASE i = h + 1
        BY <3>2, <3>4, <3>5, <3>6, <4>1 DEF Returned
      <4>2. CASE i # h + 1
        <5>1. i \in 1 .. h
          BY <3>3, <4>2
        <5>2. /\ handled[i].meta.id \in DOMAIN origin
              /\ SameBytes(origin[handled[i].meta.id], answers[i].blobs[k])
          BY <3>4, <3>6, <5>1 DEF BytesSurvive
        <5> QED
          BY <3>2, <3>4, <3>5, <5>1, <5>2 DEF OriginsKept
      <4> QED
        BY <4>1, <4>2
    <3> QED
      BY <3>4, <3>6 DEF BytesSurvive
  <2>2. CASE ~Serve
    <3>1. handled' = handled /\ answers' = answers /\ origin' = origin
      BY <2>2 DEF Next, Worker, Write, Close, ReadChunk, InputEnds, ReadPrefix, Undecodable,
                  OnlyReads, NotHandled, workerVars, vars
    <3> QED
      BY <3>1 DEF BytesSurvive
  <2> QED
    BY <2>1, <2>2
<1> QED
  BY <1>1, <1>2, AlwaysIInv, PTL DEF Spec
=============================================================================
