------------------------- MODULE NxOperations_proofs --------------------------
(*****************************************************************************)
(* Every layout operation answers what Nx defines, whatever the rank, the    *)
(* sizes, the axes and the values, for real tensors and for the stored       *)
(* pairs of complex ones.                                                    *)
(*****************************************************************************)
EXTENDS Tensors_proofs

-----------------------------------------------------------------------------
(* Real tensors: one lemma per operation of apply.                         *)

\* A node of the layout without complex operands.
Real(n) == n \in Nodes /\ n.op \in LayoutOps /\ ~IsComplex(n)
\* What its operands are: the tensors themselves, of Nx's own shapes.
Plainly(n, i) ==
  /\ Operand(n, i) = In(n, i) /\ ShapeOf(n, i) = In(n, i).shape
  /\ Numeric(In(n, i), Len(In(n, i).shape))
\* The tensor t answers node n with Nx's shape and Nx's entries.
Answers(t, n) ==
  /\ Filled(t, n.shape, Len(n.shape))
  /\ \A c \in Cells(n.shape, Len(n.shape)) : t.at[c] = NxLayout(n, c)

\* Two coordinates that agree on every axis are one (the map of priv/worker
\* tensors from coordinates to values).
LEMMA SameCell ==
  ASSUME NEW r \in Nat, NEW c \in [1 .. r -> Nat], NEW d \in [1 .. r -> Nat],
         \A a \in 1 .. r : c[a] = d[a]
  PROVE  c = d
OBVIOUS

\* A shape Nx declares, or a stored one, has a rank.
LEMMA SeqRanked ==
  ASSUME NEW shape \in Seq(Dims)
  PROVE  Ranked(shape, Len(shape))
BY DEF Ranked, Dims

\* An operand of a real node is the stored tensor (operations.py reads it as it is).
LEMMA RealNode ==
  ASSUME NEW n, Real(n)
  PROVE  /\ LayoutAsks(n) /\ Ranked(n.shape, Len(n.shape)) /\ Expected(n) = n.shape
         /\ n.dtype # "c64" /\ n.ins = [i \in 1 .. Len(n.ins) |-> n.ins[i]] /\ Len(n.ins) \in Nat
         /\ \A i \in 1 .. Len(n.ins) : Plainly(n, i)
<1>1. WellFormed(n)
  BY NodesAssumption DEF Real
<1>2. LayoutAsks(n) /\ Ranked(n.shape, Len(n.shape))
  BY <1>1, SeqRanked DEF WellFormed, Real
<1>3. n.dtype # "c64" /\ \A i \in DOMAIN n.complex : n.complex[i] # TRUE
  BY DEF Real, IsComplex
<1>4. n.complex \in Seq(BOOLEAN) /\ Len(n.ins) = Len(n.complex) /\ DOMAIN n.ins = 1 .. Len(n.ins)
  BY <1>1 DEF WellFormed
<1>5. Expected(n) = n.shape
  BY <1>3 DEF Expected
<1>6. ASSUME NEW i \in 1 .. Len(n.ins) PROVE Plainly(n, i)
  <2>a. i \in DOMAIN n.complex /\ n.complex[i] \in BOOLEAN
    BY <1>4
  <2>1. n.complex[i] = FALSE
    BY <1>3, <2>a
  <2>2. IsTensor(In(n, i), FALSE)
    BY <1>1, <1>4, <2>1 DEF WellFormed
  <2>3. Ranked(In(n, i).shape, Len(In(n, i).shape))
    BY <2>2, SeqRanked DEF IsTensor
  <2>4. Numeric(In(n, i), Len(In(n, i).shape))
    BY <2>2, <2>3, RankedCells DEF IsTensor, Numeric
  <2>5. Operand(n, i) = In(n, i)
    BY DEF Operand, Logical, Real
  <2>6. ShapeOf(n, i) = In(n, i).shape
    BY <2>1 DEF ShapeOf
  <2> QED
    BY <2>4, <2>5, <2>6 DEF Plainly
<1> QED
  BY <1>1, <1>2, <1>3, <1>4, <1>5, <1>6 DEF WellFormed

\* The first operand of a node that has one.
LEMMA FirstOperand ==
  ASSUME NEW n, Real(n), Len(n.ins) = 1
  PROVE  Plainly(n, 1)
<1> 1 \in 1 .. Len(n.ins)
  OBVIOUS
<1> QED
  BY RealNode

\* _apply "flip": the coordinate counts back from the end on each axis named.
LEMMA ReverseIsNx ==
  ASSUME NEW n, Real(n), n.op = "reverse"
  PROVE  Answers(Apply(n), n)
<1> DEFINE x == In(n, 1)
           r == Len(x.shape)
<1>1. Apply(n) = Flip(x, Range(n.axes))
  BY DEF Apply, Real
<1>2. Len(n.ins) = 1 /\ n.shape = ShapeOf(n, 1)
  BY RealNode DEF LayoutAsks
<1>3. Plainly(n, 1)
  BY <1>2, FirstOperand
<1>4. n.shape = x.shape /\ Operand(n, 1) = x /\ Ranked(x.shape, r)
  BY <1>2, <1>3 DEF Plainly, Numeric
<1>5. /\ Filled(Flip(x, Range(n.axes)), x.shape, r)
      /\ \A c \in Cells(x.shape, r) : \E d \in Cells(x.shape, r) :
               /\ Flip(x, Range(n.axes)).at[c] = x.at[d]
               /\ \A a \in 1 .. r : IF a \in Range(n.axes) THEN d[a] + c[a] = x.shape[a] - 1
                                                  ELSE d[a] = c[a]
  BY <1>4, FlipIs DEF Flipped
<1>6. ASSUME NEW c \in Cells(x.shape, r) PROVE Flip(x, Range(n.axes)).at[c] = NxLayout(n, c)
  <2> DEFINE There(d) == \A a \in 1 .. r : IF a \in Range(n.axes) THEN d[a] + c[a] = x.shape[a] - 1
                                                                 ELSE d[a] = c[a]
             e == CHOOSE d \in Coords(x.shape) : There(d)
  <2>1. PICK d \in Cells(x.shape, r) : Flip(x, Range(n.axes)).at[c] = x.at[d] /\ There(d)
    BY <1>5
  <2>2. Coords(x.shape) = Cells(x.shape, r)
    BY <1>4, RankedCells
  <2>3. e \in Cells(x.shape, r) /\ There(e)
    BY <2>1, <2>2
  <2>4. \A a \in 1 .. r : x.shape[a] \in Nat /\ c[a] \in Nat /\ d[a] \in Nat /\ e[a] \in Nat
    BY <1>4, <2>3, RankedCells
  <2>5. \A a \in 1 .. r : d[a] = e[a]
    BY <2>1, <2>3, <2>4
  <2>6. d = e
    BY <1>4, <2>3, <2>5, SameCell DEF Cells, Ranked
  <2>7. Len(c) = r
    BY <1>4, SeqIs DEF Cells, Ranked
  <2>8. NxLayout(n, c) = x.at[e]
    BY <1>4, <2>7 DEF NxLayout
  <2> QED
    BY <2>1, <2>6, <2>8
<1> QED
  BY <1>1, <1>4, <1>5, <1>6 DEF Answers

\* _apply "permute": entry c of the result comes from the entry that has c's
\* coordinates on the axes the permutation names.
LEMMA TransposeIsNx ==
  ASSUME NEW n, Real(n), n.op = "transpose"
  PROVE  Answers(Apply(n), n)
<1> DEFINE x == In(n, 1)
           r == Len(x.shape)
<1>1. Apply(n) = Permute(x, n.axes)
  BY DEF Apply, Real
<1>2. /\ Len(n.ins) = 1 /\ n.axes \in Bijection(DOMAIN ShapeOf(n, 1), DOMAIN ShapeOf(n, 1))
      /\ n.shape = Pick(ShapeOf(n, 1), n.axes)
  BY RealNode DEF LayoutAsks
<1>3. Plainly(n, 1)
  BY <1>2, FirstOperand
<1>4. n.shape = Pick(x.shape, n.axes) /\ Operand(n, 1) = x /\ Ranked(x.shape, r)
  BY <1>2, <1>3 DEF Plainly, Numeric
<1>5. /\ n.axes \in [1 .. r -> 1 .. r]
      /\ \A i, j \in 1 .. r : n.axes[i] = n.axes[j] => i = j
      /\ \A a \in 1 .. r : \E i \in 1 .. r : n.axes[i] = a
  <2>1. n.axes \in Bijection(1 .. r, 1 .. r)
    BY <1>2, <1>3, <1>4, RankedCells DEF Plainly
  <2> QED
    BY <2>1 DEF Bijection, Injection, Surjection, IsInjective
<1>a. Permuted(x, n.axes, r)
  BY <1>4, <1>5, PermuteIs
<1>6. /\ Ranked(n.shape, r)
      /\ Filled(Permute(x, n.axes), n.shape, r)
      /\ \A c \in Cells(n.shape, r) :
            \E d \in Cells(x.shape, r) : /\ \A i \in 1 .. r : d[n.axes[i]] = c[i]
                                         /\ Permute(x, n.axes).at[c] = x.at[d]
  BY <1>4, <1>a DEF Permuted
<1>7. Len(n.shape) = r
  BY <1>6, RankedCells
<1>8. ASSUME NEW c \in Cells(n.shape, r) PROVE Permute(x, n.axes).at[c] = NxLayout(n, c)
  <2> DEFINE There(d) == \A i \in 1 .. r : d[n.axes[i]] = c[i]
             e == CHOOSE d \in Coords(x.shape) : There(d)
  <2>1. PICK d \in Cells(x.shape, r) : There(d) /\ Permute(x, n.axes).at[c] = x.at[d]
    BY <1>6
  <2>2. Coords(x.shape) = Cells(x.shape, r)
    BY <1>4, RankedCells
  <2>3. e \in Cells(x.shape, r) /\ There(e)
    BY <2>1, <2>2
  <2>4. ASSUME NEW a \in 1 .. r PROVE d[a] = e[a]
    <3>1. PICK i \in 1 .. r : n.axes[i] = a
      BY <1>5
    <3> QED
      BY <2>1, <2>3, <3>1
  <2>5. d = e
    BY <1>4, <2>3, <2>4, SameCell DEF Cells, Ranked
  <2>6. Len(c) = r
    BY <1>6, SeqIs DEF Cells, Ranked
  <2>7. NxLayout(n, c) = x.at[e]
    BY <1>4, <2>6 DEF NxLayout
  <2> QED
    BY <2>1, <2>5, <2>7
<1> QED
  BY <1>1, <1>6, <1>7, <1>8 DEF Answers

\* _apply "reshape" and "squeeze": the entries keep their row-major order.
LEMMA ReshapeIsNx ==
  ASSUME NEW n, Real(n), n.op \in {"reshape", "squeeze"}
  PROVE  Answers(Apply(n), n)
<1> DEFINE x == In(n, 1)
           m == Len(x.shape)
           r == Len(n.shape)
<1>1. Apply(n) = Reshape(x, n.shape)
  <2>1. CASE n.op = "reshape"
    BY <2>1 DEF Apply, Real
  <2>2. CASE n.op = "squeeze"
    BY <2>2 DEF Apply, Real
  <2> QED
    BY <2>1, <2>2
<1>2. Len(n.ins) = 1 /\ Size(n.shape) = Size(ShapeOf(n, 1)) /\ Ranked(n.shape, r)
  BY RealNode DEF LayoutAsks
<1>3. Plainly(n, 1)
  BY <1>2, FirstOperand
<1>4. Size(n.shape) = Size(x.shape) /\ Operand(n, 1) = x /\ Ranked(x.shape, m)
  BY <1>2, <1>3 DEF Plainly, Numeric
<1>5. Reshaped(x, m, n.shape, r)
  BY <1>2, <1>4, ReshapeIs
<1>6. ASSUME NEW c \in Cells(n.shape, r) PROVE Reshape(x, n.shape).at[c] = NxLayout(n, c)
  <2> DEFINE d == CoordAt(x.shape, Offset(n.shape, c))
             e == CHOOSE f \in Coords(x.shape) : Offset(x.shape, f) = Offset(n.shape, c)
  <2>1. /\ Reshape(x, n.shape).at[c] = x.at[d] /\ d \in Cells(x.shape, m)
        /\ Offset(x.shape, d) = Offset(n.shape, c)
    BY <1>5 DEF Reshaped
  <2>2. Coords(x.shape) = Cells(x.shape, m)
    BY <1>4, RankedCells
  <2>3. e \in Cells(x.shape, m) /\ Offset(x.shape, e) = Offset(n.shape, c)
    BY <2>1, <2>2
  <2>4. CoordAt(x.shape, Offset(x.shape, e)) = e
    BY <1>4, <2>3, PlaceOfOffset DEF Ranked
  <2>5. d = e
    BY <2>3, <2>4
  <2>6. NxLayout(n, c) = x.at[e]
    <3>1. CASE n.op = "reshape"
      BY <1>4, <3>1 DEF NxLayout
    <3>2. CASE n.op = "squeeze"
      BY <1>4, <3>2 DEF NxLayout
    <3> QED
      BY <3>1, <3>2
  <2> QED
    BY <2>1, <2>5, <2>6
<1> QED
  BY <1>1, <1>5, <1>6 DEF Answers, Reshaped

\* _broadcast: every axis of the operand is read at the axis it is sent to.
LEMMA BroadcastIsNx ==
  ASSUME NEW n, Real(n), n.op = "broadcast"
  PROVE  Answers(Apply(n), n)
<1> DEFINE x == In(n, 1)
           m == Len(x.shape)
           r == Len(n.shape)
<1>1. Apply(n) = Broadcast(x, n.shape, n.axes)
  BY DEF Apply, Real
<1>2. /\ Len(n.ins) = 1 /\ Ranked(n.shape, r)
      /\ n.axes \in Seq(DOMAIN n.shape) /\ Len(n.axes) = Len(ShapeOf(n, 1))
      /\ \A i, j \in DOMAIN n.axes : i < j => n.axes[i] < n.axes[j]
      /\ \A i \in DOMAIN n.axes : ShapeOf(n, 1)[i] \in {1, n.shape[n.axes[i]]}
  BY RealNode DEF LayoutAsks
<1>3. Plainly(n, 1)
  BY <1>2, FirstOperand
<1>4. Operand(n, 1) = x /\ Ranked(x.shape, m) /\ ShapeOf(n, 1) = x.shape
  BY <1>3 DEF Plainly, Numeric
<1>5. DOMAIN n.axes = 1 .. m /\ n.axes \in [1 .. m -> 1 .. r] /\ DOMAIN x.shape = 1 .. m
  <2>1. DOMAIN n.shape = 1 .. r /\ DOMAIN x.shape = 1 .. m /\ Len(n.axes) = m
    BY <1>2, <1>4, RankedCells
  <2> QED
    BY <1>2, <2>1
<1>a. Spreads(x, n.shape, n.axes, m, r)
  BY <1>2, <1>4, <1>5, BroadcastIs
<1>6. /\ Filled(Broadcast(x, n.shape, n.axes), n.shape, r)
      /\ \A c \in Cells(n.shape, r) :
               /\ Broadcast(x, n.shape, n.axes).at[c] = x.at[Flat(x.shape, Pick(c, n.axes))]
               /\ Flat(x.shape, Pick(c, n.axes)) \in Cells(x.shape, m)
  BY <1>a DEF Spreads
<1>7. ASSUME NEW c \in Cells(n.shape, r)
      PROVE  Broadcast(x, n.shape, n.axes).at[c] = NxLayout(n, c)
  <2> DEFINE e == [i \in DOMAIN x.shape |-> IF x.shape[i] = 1 THEN 0 ELSE c[n.axes[i]]]
  <2>1. Flat(x.shape, Pick(c, n.axes)) = e
    BY <1>5 DEF Flat, Pick
  <2>2. NxLayout(n, c) = x.at[e]
    BY <1>4 DEF NxLayout
  <2> QED
    BY <1>6, <2>1, <2>2
<1> QED
  BY <1>1, <1>6, <1>7 DEF Answers

(* Tensor.arange: entry d is d.                                            *)
LEMMA ArangeIs ==
  ASSUME NEW k \in Dims
  PROVE  /\ Ranked(<<k>>, 1) /\ Arange(k).shape = <<k>> /\ Size(<<k>>) = k
         /\ \A d \in Cells(<<k>>, 1) : /\ Offset(<<k>>, d) = d[1] /\ d[1] \in Nat
                                       /\ Arange(k).at[d] = d[1]
<1> DEFINE s == <<k>>
<1>1. s \in [1 .. 1 -> Dims] /\ s[1] = k /\ k \in Int
  BY DEF Dims
<1>2. Ranked(s, 1)
  BY <1>1 DEF Ranked
<1>3. Size(s) = k
  <2> DEFINE e == [j \in 1 .. 0 |-> 0]
  <2>1. e \in [1 .. 0 -> Int] /\ s \in [1 .. 0 + 1 -> Int] /\ \A j \in 1 .. 0 : e[j] = s[j]
    BY <1>1
  <2> HIDE DEF e, s
  <2>2. Size(s) = Size(e) * s[0 + 1]
    BY <2>1, SizeLast
  <2>3. Size(e) = 1
    <3>1. PICK w \in [0 .. 0 -> Int] : w[0] = 1 /\ Size(e) = w[0]
      BY <2>1, SizeFold
    <3> QED
      BY <3>1
  <2> QED
    BY <1>1, <2>2, <2>3
<1>4. Arange(k).shape = s /\ Arange(k).at = [c \in Cells(s, 1) |-> c[1]]
  BY <1>2, RankedCells DEF Arange, Vector, Tensor
<1>5. ASSUME NEW d \in Cells(s, 1) PROVE Offset(s, d) = d[1] /\ d[1] \in Nat
  <2>1. d \in [1 .. 1 -> Int] /\ d[1] \in Nat /\ s \in [1 .. 1 -> Int]
    BY <1>1 DEF Cells
  <2> HIDE DEF s
  <2>2. PICK w \in [0 .. 1 -> Int] : /\ w[0] = 0 /\ Offset(s, d) = w[1]
                                     /\ \A i \in 0 .. 1 - 1 : w[i + 1] = w[i] * s[i + 1] + d[i + 1]
    BY <2>1, OffsetFold
  <2>3. w[0 + 1] = w[0] * s[0 + 1] + d[0 + 1]
    BY <2>2
  <2> QED
    BY <1>1, <2>1, <2>2, <2>3
<1> QED
  BY <1>2, <1>3, <1>4, <1>5

(* The shape of a vector laid along one axis of a larger shape.            *)
Lies(wide, r, axis, k) ==
  /\ Ranked(wide, r) /\ axis \in 1 .. r /\ wide[axis] = k
  /\ \A a \in 1 .. r : a # axis => wide[a] = 1

(* A vector so laid is read at the coordinate of that axis.                *)
LEMMA LiesIs ==
  ASSUME NEW wide, NEW r, NEW axis, NEW k \in Dims, Lies(wide, r, axis, k)
  PROVE  /\ Filled(Reshape(Arange(k), wide), wide, r)
         /\ \A c \in Cells(wide, r) : Reshape(Arange(k), wide).at[c] = c[axis]
<1> DEFINE s == <<k>>
           axes == <<axis>>
<1>1. Ranked(s, 1) /\ Arange(k).shape = s
      /\ \A d \in Cells(s, 1) : Arange(k).at[d] = d[1]
  BY ArangeIs
<1>2. s[1] = k /\ axes \in [1 .. 1 -> 1 .. r] /\ axes[1] = axis
  BY DEF Lies
<1> HIDE DEF s, axes
<1>3. Widens(wide, r, s, 1, axes)
  BY <1>1, <1>2 DEF Widens, Lies
<1>4. Widened(Arange(k), 1, wide, r, axes)
  BY <1>1, <1>3, WidenIs
<1>5. ASSUME NEW c \in Cells(wide, r) PROVE Reshape(Arange(k), wide).at[c] = c[axis]
  <2>1. Pick(c, axes)[1] = c[axis]
    BY <1>2 DEF Pick
  <2> QED
    BY <1>1, <1>4, <2>1 DEF Widened
<1> QED
  BY <1>4, <1>5 DEF Widened

(* _iota: along an axis its coordinate, without one the row-major position. *)
Counts(t, s, r, axis) ==
  /\ Filled(t, s, r)
  /\ \A c \in Cells(s, r) : t.at[c] = IF axis = 0 THEN Offset(s, c) ELSE c[axis]
LEMMA IotaIs ==
  ASSUME NEW s, NEW r, Ranked(s, r), NEW axis \in 0 .. r
  PROVE  Counts(Iota(s, axis), s, r, axis)
<1>2. Ranked(s, r) /\ r \in Nat /\ s \in [1 .. r -> Dims] /\ Len(s) = r
  BY RankedCells DEF Ranked
<1>4. CASE axis = 0
  <2> DEFINE k == Size(s)
             t == Reshape(Arange(k), s)
  <2>1. k \in Dims
    BY <1>2, SizePositive
  <2>2. Ranked(<<k>>, 1) /\ Arange(k).shape = <<k>> /\ Size(<<k>>) = k
    BY <2>1, ArangeIs
  <2>3. Reshaped(Arange(k), 1, s, r)
    BY <1>2, <2>2, ReshapeIs
  <2>4. ASSUME NEW c \in Cells(s, r) PROVE t.at[c] = Offset(s, c)
    <3> DEFINE d == CoordAt(Arange(k).shape, Offset(s, c))
    <3>1. t.at[c] = Arange(k).at[d] /\ d \in Cells(<<k>>, 1) /\ Offset(<<k>>, d) = Offset(s, c)
      BY <2>2, <2>3 DEF Reshaped
    <3> QED
      BY <2>1, <3>1, ArangeIs
  <2>5. Iota(s, axis) = t
    BY <1>4 DEF Iota
  <2> QED
    BY <1>4, <2>3, <2>4, <2>5 DEF Counts, Reshaped
<1>5. CASE axis # 0
  <2> DEFINE k == s[axis]
             wide == [Ones(r) EXCEPT ![axis] = k]
             u == Reshape(Arange(k), wide)
  <2>1. axis \in 1 .. r /\ k \in Dims
    BY <1>2, <1>5
  <2>2. Ones(r) \in [1 .. r -> Dims] /\ \A i \in 1 .. r : Ones(r)[i] = 1
    BY <1>2, OnesAre DEF Ranked
  <2>3. Lies(wide, r, axis, k)
    BY <1>2, <2>1, <2>2 DEF Lies, Ranked
  <2>4. Iota(s, axis) = Expand(u, s)
    BY <1>2, <1>5 DEF Iota
  <2> HIDE DEF wide
  <2>5. Filled(u, wide, r) /\ \A c \in Cells(wide, r) : u.at[c] = c[axis]
    BY <2>1, <2>3, LiesIs
  <2> HIDE DEF u
  <2>6. u.shape = wide
    BY <2>5 DEF Filled
  <2>7. \A a \in 1 .. r : u.shape[a] \in {1, s[a]}
    BY <2>3, <2>6 DEF Lies
  <2>8. Ranked(u.shape, r)
    BY <2>3, <2>6 DEF Lies
  <2>9. /\ Filled(Expand(u, s), s, r)
        /\ \A c \in Cells(s, r) : /\ Expand(u, s).at[c] = u.at[Flat(u.shape, c)]
                                  /\ Flat(u.shape, c) \in Cells(u.shape, r)
    <3>1. Ranked(s, r)
      BY <1>2
    <3> QED
      BY ONLY <2>7, <2>8, <3>1, ExpandIs
  <2>10. ASSUME NEW c \in Cells(s, r) PROVE Expand(u, s).at[c] = c[axis]
    <3>1. c \in [1 .. r -> Nat] /\ c[axis] \in 0 .. k - 1
      BY <1>2, <2>1, RankedCells
    <3>2. Flat(wide, c)[axis] = IF k = 1 THEN 0 ELSE c[axis]
      BY <2>1, <2>3, <3>1 DEF Flat, Lies
    <3>3. Flat(wide, c)[axis] = c[axis]
      BY <2>1, <3>1, <3>2 DEF Dims
    <3> QED
      BY <2>5, <2>6, <2>9, <3>3
  <2> QED
    BY <1>5, <2>4, <2>9, <2>10 DEF Counts
<1> QED
  BY <1>4, <1>5

(* _iota of a real node.                                                   *)
LEMMA IotaIsNx ==
  ASSUME NEW n, Real(n), n.op = "iota"
  PROVE  Answers(Apply(n), n)
<1> DEFINE t == Iota(n.shape, n.axis)
<1>1. Apply(n) = t
  BY DEF Apply, Real
<1>2. n.axis \in 0 .. Len(n.shape) /\ Ranked(n.shape, Len(n.shape))
  BY RealNode DEF LayoutAsks
<1>3. Counts(t, n.shape, Len(n.shape), n.axis)
  BY <1>2, IotaIs
<1>4. ASSUME NEW c \in Cells(n.shape, Len(n.shape))
      PROVE  NxLayout(n, c) = IF n.axis = 0 THEN Offset(n.shape, c) ELSE c[n.axis]
  BY DEF NxLayout, Real
<1> QED
  BY <1>1, <1>3, <1>4 DEF Answers, Counts

(* Two operands that together have every size of the result and its rank   *)
(* meet in that shape, each read at its own place.                         *)
Meets(t, u, shape, r) ==
  /\ Longer(t, u) = r /\ Meet(t, u) = shape
  /\ \A c \in Cells(shape, r) :
        /\ Spread(Aligned(t, r), c) = t.at[Where(t.shape, c)]
        /\ Spread(Aligned(u, r), c) = u.at[Where(u.shape, c)]
LEMMA MeetsIs ==
  ASSUME NEW t, NEW m, NEW u, NEW k, NEW shape, NEW r,
         Fits(t.shape, m, shape, r), Fits(u.shape, k, shape, r), m = r \/ k = r,
         \A a \in 1 .. r : \/ shape[a] = 1 \/ Covers(t.shape, m, shape, r, a)
                           \/ Covers(u.shape, k, shape, r, a)
  PROVE  Meets(t, u, shape, r)
<1> DEFINE q == IF m >= k THEN m ELSE k
           z == Meet(t, u)
<1>1. m \in Nat /\ k \in Nat /\ r \in Nat /\ m <= r /\ k <= r
  BY DEF Fits, Ranked
<1>2. q = r
  BY <1>1
<1>3. Met(t, m, u, k, q, shape, r)
  BY MeetIs
<1>4. Met(t, m, u, k, r, shape, r)
  BY <1>2, <1>3
<1>5. Fits(z, r, shape, r)
  BY <1>4 DEF Met
<1>6. \A a \in 1 .. r : shape[a] = 1 \/ Covers(z, r, shape, r, a)
  BY <1>4 DEF Met
<1>7. z = shape /\ \A c \in Cells(shape, r) : Where(z, c) = c
  BY <1>5, <1>6, Covered
<1> QED
  BY <1>4, <1>7 DEF Met, Meets

(* _eye: ones where the last two coordinates meet, in every batch.         *)
LEMMA EyeIsNx ==
  ASSUME NEW n, Real(n), n.op = "eye"
  PROVE  Answers(Apply(n), n)
<1> DEFINE s == n.shape
           r == Len(n.shape)
           m == s[r - 1]
           k == s[r]
           t == Reshape(Arange(m), <<m, 1>>)
           u == Reshape(Arange(k), <<1, k>>)
           diag == Zipped(t, u, LAMBDA x, y : IF x = y THEN 1 ELSE 0)
           wide == Ones(r - 2) \o <<m, k>>
           v == Reshape(diag, wide)
<1>1. Apply(n) = Eye(s)
  BY DEF Apply, Real
<1>2. Eye(s) = Expand(v, s)
  BY DEF Eye
<1>3. Ranked(s, r) /\ r \in Nat /\ r >= 2 /\ s \in [1 .. r -> Dims]
  BY RealNode DEF LayoutAsks, Ranked
<1>4. m \in Dims /\ k \in Dims /\ r - 1 \in 1 .. r /\ r \in 1 .. r
  BY <1>3
<1>5. ASSUME NEW c \in Cells(s, r)
      PROVE  NxLayout(n, c) = IF c[r - 1] = c[r] THEN 1 ELSE 0
  <2>1. Len(c) = r
    BY <1>3, SeqIs DEF Cells
  <2> QED
    BY <2>1 DEF NxLayout
<1> HIDE DEF m, k
<1> DEFINE square == <<m, k>>
<1>6. /\ Ranked(<<m, 1>>, 2) /\ Ranked(<<1, k>>, 2) /\ Ranked(square, 2)
      /\ Lies(<<m, 1>>, 2, 1, m) /\ Lies(<<1, k>>, 2, 2, k)
  BY <1>4 DEF Ranked, Lies, Dims
<1>7. /\ Filled(t, <<m, 1>>, 2) /\ \A c \in Cells(<<m, 1>>, 2) : t.at[c] = c[1]
      /\ Filled(u, <<1, k>>, 2) /\ \A c \in Cells(<<1, k>>, 2) : u.at[c] = c[2]
  BY <1>4, <1>6, LiesIs
<1> HIDE DEF t, u
<1>8. t.shape = <<m, 1>> /\ u.shape = <<1, k>>
  BY <1>7 DEF Filled
<1>9. Fits(t.shape, 2, square, 2) /\ Fits(u.shape, 2, square, 2)
  BY <1>6, <1>8 DEF Fits
<1>10. \A a \in 1 .. 2 : \/ square[a] = 1 \/ Covers(t.shape, 2, square, 2, a)
                         \/ Covers(u.shape, 2, square, 2, a)
  BY <1>8 DEF Covers
<1>11. Meets(t, u, square, 2)
  BY <1>9, <1>10, MeetsIs
<1>12. diag.shape = square /\ diag.at =
         [c \in Cells(square, 2) |->
            IF Spread(Aligned(t, 2), c) = Spread(Aligned(u, 2), c) THEN 1 ELSE 0]
  <2>1. Coords(square) = Cells(square, 2)
    BY <1>6, RankedCells
  <2>2. Longer(t, u) = 2 /\ Meet(t, u) = square
    BY <1>11 DEF Meets
  <2> QED
    BY <2>1, <2>2 DEF Zipped, Paired, Tensor, Meet, Longer
<1>b. square[1] = m /\ square[2] = k
  OBVIOUS
<1> HIDE DEF diag, square
<1>13. ASSUME NEW c \in Cells(square, 2)
       PROVE  diag.at[c] = IF c[1] = c[2] THEN 1 ELSE 0
  <2>1. Where(t.shape, c) \in Cells(t.shape, 2)
        /\ \A a \in 1 .. 2 : Where(t.shape, c)[a] = IF t.shape[a] = 1 THEN 0 ELSE c[a + (2 - 2)]
    BY <1>9, WhereIs
  <2>2. Where(u.shape, c) \in Cells(u.shape, 2)
        /\ \A a \in 1 .. 2 : Where(u.shape, c)[a] = IF u.shape[a] = 1 THEN 0 ELSE c[a + (2 - 2)]
    BY <1>9, WhereIs
  <2>3. c[1] \in 0 .. m - 1 /\ c[2] \in 0 .. k - 1
    BY <1>6, <1>b, RankedCells
  <2>4. Where(t.shape, c)[1] = c[1] /\ Where(u.shape, c)[2] = c[2]
    BY <1>4, <1>8, <2>1, <2>2, <2>3 DEF Dims
  <2>5. Spread(Aligned(t, 2), c) = c[1] /\ Spread(Aligned(u, 2), c) = c[2]
    BY <1>7, <1>8, <1>11, <2>1, <2>2, <2>4 DEF Meets
  <2> QED
    BY <1>12, <2>5
<1>14. /\ Ranked(wide, r) /\ \A a \in 1 .. r : wide[a] = IF a <= r - 2 THEN 1 ELSE square[a - (r - 2)]
       /\ Widens(wide, r, square, 2, [i \in 1 .. 2 |-> (r - 2) + i])
  <2>1. r - 2 \in Nat /\ (r - 2) + 2 = r
    BY <1>3
  <2> DEFINE j == r - 2
  <2>2. /\ Ranked(Ones(j) \o square, j + 2)
        /\ \A a \in 1 .. j + 2 : (Ones(j) \o square)[a] = IF a <= j THEN 1 ELSE square[a - j]
        /\ Widens(Ones(j) \o square, j + 2, square, 2, [i \in 1 .. 2 |-> j + i])
    <3> HIDE DEF j
    <3> QED
      BY <1>6, <2>1, OnesBefore DEF j
  <2> QED
    BY <2>1, <2>2 DEF square
<1> DEFINE axes == [i \in 1 .. 2 |-> (r - 2) + i]
<1>15. axes[1] = r - 1 /\ axes[2] = r /\ DOMAIN axes = 1 .. 2
  BY <1>3
<1> HIDE DEF axes, wide
<1>16. Widened(diag, 2, wide, r, axes)
  BY <1>3, <1>12, <1>14, WidenIs DEF axes
<1>17. Filled(v, wide, r) /\ \A c \in Cells(wide, r) : v.at[c] = diag.at[Pick(c, axes)]
                                                  /\ Pick(c, axes) \in Cells(square, 2)
  BY <1>12, <1>16 DEF Widened
<1> HIDE DEF v
<1>18. v.shape = wide /\ Ranked(v.shape, r)
  BY <1>14, <1>17 DEF Filled
<1>a. wide[r - 1] = m /\ wide[r] = k /\ \A a \in 1 .. r : a # r - 1 /\ a # r => wide[a] = 1
  <2>1. \A a \in 1 .. r : a # r - 1 /\ a # r => a <= r - 2
    BY <1>3
  <2>2. ~(r - 1 <= r - 2) /\ ~(r <= r - 2) /\ (r - 1) - (r - 2) = 1 /\ r - (r - 2) = 2
    BY <1>3
  <2>3. wide[r - 1] = square[1] /\ wide[r] = square[2]
    BY <1>4, <1>14, <2>2
  <2>4. \A a \in 1 .. r : a <= r - 2 => wide[a] = 1
    BY <1>14
  <2> QED
    BY <1>b, <2>1, <2>3, <2>4
<1>19. \A a \in 1 .. r : v.shape[a] \in {1, s[a]}
  BY <1>18, <1>a DEF m, k
<1>20. /\ Filled(Expand(v, s), s, r)
       /\ \A c \in Cells(s, r) : /\ Expand(v, s).at[c] = v.at[Flat(v.shape, c)]
                                 /\ Flat(v.shape, c) \in Cells(v.shape, r)
  BY ONLY <1>18, <1>19, <1>3, ExpandIs
<1>21. ASSUME NEW c \in Cells(s, r)
       PROVE  Expand(v, s).at[c] = IF c[r - 1] = c[r] THEN 1 ELSE 0
  <2> DEFINE f == Flat(wide, c)
  <2>1. c \in [1 .. r -> Nat] /\ c[r - 1] \in 0 .. m - 1 /\ c[r] \in 0 .. k - 1
    BY <1>3, <1>4, RankedCells DEF m, k
  <2>2. f[r - 1] = (IF m = 1 THEN 0 ELSE c[r - 1]) /\ f[r] = (IF k = 1 THEN 0 ELSE c[r])
    BY <1>4, <1>a, <2>1 DEF Flat
  <2>3. f[r - 1] = c[r - 1] /\ f[r] = c[r]
    BY <1>4, <2>1, <2>2 DEF Dims
  <2>4. Pick(f, axes)[1] = f[r - 1] /\ Pick(f, axes)[2] = f[r]
    BY <1>15 DEF Pick
  <2> HIDE DEF f
  <2>5. Expand(v, s).at[c] = diag.at[Pick(f, axes)] /\ Pick(f, axes) \in Cells(square, 2)
    BY <1>17, <1>18, <1>20 DEF f
  <2> QED
    BY <1>13, <2>3, <2>4, <2>5
<1> QED
  BY <1>1, <1>2, <1>5, <1>20, <1>21 DEF Answers

(* Three operands that together have every size of the result and its rank. *)
Joint(x, i, y, j, z, k, shape, r) ==
  /\ Fits(x, i, shape, r) /\ Fits(y, j, shape, r) /\ Fits(z, k, shape, r)
  /\ i = r \/ j = r \/ k = r
  /\ \A a \in 1 .. r : \/ shape[a] = 1 \/ Covers(x, i, shape, r, a)
                       \/ Covers(y, j, shape, r, a) \/ Covers(z, k, shape, r, a)

(* Two of them meet, and that and the third meet in the shape.             *)
Staged(t, u, v, p, q, shape, r) ==
  /\ Longer(t, u) = q /\ Ranked(Meet(t, u), q) /\ p.shape = Meet(t, u)
  /\ Longer(p, v) = r /\ Meet(p, v) = shape /\ Longer(v, p) = r /\ Meet(v, p) = shape
  /\ \A c \in Cells(shape, r) :
        /\ Spread(Aligned(v, r), c) = v.at[Where(v.shape, c)]
        /\ Spread(Aligned(p, r), c) = p.at[Where(Meet(t, u), c)]
        /\ Where(Meet(t, u), c) \in Cells(Meet(t, u), q)
        /\ Spread(Aligned(t, q), Where(Meet(t, u), c)) = t.at[Where(t.shape, c)]
        /\ Spread(Aligned(u, q), Where(Meet(t, u), c)) = u.at[Where(u.shape, c)]
LEMMA StagedIs ==
  ASSUME NEW t, NEW i, NEW u, NEW j, NEW v, NEW k, NEW shape, NEW r, NEW p,
         Joint(t.shape, i, u.shape, j, v.shape, k, shape, r), p.shape = Meet(t, u)
  PROVE  \E q : Staged(t, u, v, p, q, shape, r)
<1> DEFINE q == IF i >= j THEN i ELSE j
           z == Meet(t, u)
<1>1. i \in Nat /\ j \in Nat /\ k \in Nat /\ r \in Nat /\ i <= r /\ j <= r /\ k <= r
  BY DEF Joint, Fits, Ranked
<1>2. Met(t, i, u, j, q, shape, r)
  BY MeetIs DEF Joint
<1>3. q = r \/ k = r
  BY <1>1 DEF Joint
<1> HIDE DEF q
<1>4. Fits(z, q, shape, r) /\ Ranked(z, q)
  BY <1>2 DEF Met, Fits
<1>5. \A a \in 1 .. r : \/ shape[a] = 1 \/ Covers(z, q, shape, r, a)
                        \/ Covers(v.shape, k, shape, r, a)
  BY <1>2 DEF Met, Joint
<1>6. Fits(p.shape, q, shape, r) /\ Fits(v.shape, k, shape, r)
      /\ \A a \in 1 .. r : \/ shape[a] = 1 \/ Covers(p.shape, q, shape, r, a)
                           \/ Covers(v.shape, k, shape, r, a)
  BY <1>4, <1>5 DEF Joint
<1>7. Meets(p, v, shape, r)
  BY <1>3, <1>6, MeetsIs
<1>8. \A a \in 1 .. r : \/ shape[a] = 1 \/ Covers(v.shape, k, shape, r, a)
                        \/ Covers(p.shape, q, shape, r, a)
  BY <1>6
<1>9. Meets(v, p, shape, r)
  BY <1>3, <1>6, <1>8, MeetsIs
<1>10. Staged(t, u, v, p, q, shape, r)
  BY <1>2, <1>4, <1>7, <1>9 DEF Met, Meets, Staged
<1> QED
  BY <1>10

(* A choice between two tensors, entry by entry, is read where each of the *)
(* three is stretched from.                                                *)
ChosenFrom(cond, t, u, shape, r) ==
  /\ Filled(WhereElse(cond, t, u), shape, r)
  /\ \A c \in Cells(shape, r) :
        WhereElse(cond, t, u).at[c] = IF cond.at[Where(cond.shape, c)]
                                      THEN t.at[Where(t.shape, c)] ELSE u.at[Where(u.shape, c)]
LEMMA WhereElseIs ==
  ASSUME NEW cond, NEW i, NEW t, NEW j, NEW u, NEW k, NEW shape, NEW r,
         Joint(t.shape, j, u.shape, k, cond.shape, i, shape, r)
  PROVE  ChosenFrom(cond, t, u, shape, r)
<1> DEFINE pair == Zipped(t, u, LAMBDA x, y : <<x, y>>)
           all == WhereElse(cond, t, u)
           z == Meet(t, u)
<1>1. pair.shape = z
  BY DEF Zipped, Paired, Tensor, Meet, Longer
<1>2. PICK q : Staged(t, u, cond, pair, q, shape, r)
  <2> HIDE DEF pair
  <2> QED
    BY <1>1, StagedIs
<1>3. Ranked(z, q) /\ Longer(t, u) = q
  BY <1>2 DEF Staged
<1>4. pair.at = [d \in Cells(z, q) |-> <<Spread(Aligned(t, q), d), Spread(Aligned(u, q), d)>>]
  <2>1. Coords(z) = Cells(z, q)
    BY <1>3, RankedCells
  <2> QED
    BY <1>3, <2>1 DEF Zipped, Paired, Tensor, Meet, Longer
<1> DEFINE whole == Zipped(cond, pair, LAMBDA b, p : IF b THEN p[1] ELSE p[2])
<1>5. all = whole
  BY DEF WhereElse
<1> HIDE DEF pair, all
<1>6. /\ Longer(cond, pair) = r /\ Meet(cond, pair) = shape
  BY <1>2 DEF Staged
<1>7. Ranked(shape, r)
  BY DEF Joint, Fits
<1>8. whole.shape = shape /\ whole.at =
        [c \in Cells(shape, r) |-> IF Spread(Aligned(cond, r), c)
                                   THEN Spread(Aligned(pair, r), c)[1]
                                   ELSE Spread(Aligned(pair, r), c)[2]]
  <2>1. Coords(shape) = Cells(shape, r)
    BY <1>7, RankedCells
  <2> QED
    BY <1>6, <2>1 DEF Zipped, Paired, Tensor, Meet, Longer
<1> HIDE DEF whole
<1>9. ASSUME NEW c \in Cells(shape, r)
      PROVE  all.at[c] = IF cond.at[Where(cond.shape, c)]
                         THEN t.at[Where(t.shape, c)] ELSE u.at[Where(u.shape, c)]
  <2>1. /\ Spread(Aligned(cond, r), c) = cond.at[Where(cond.shape, c)]
        /\ Spread(Aligned(pair, r), c) = pair.at[Where(z, c)]
        /\ Where(z, c) \in Cells(z, q)
        /\ Spread(Aligned(t, q), Where(z, c)) = t.at[Where(t.shape, c)]
        /\ Spread(Aligned(u, q), Where(z, c)) = u.at[Where(u.shape, c)]
    BY <1>2 DEF Staged
  <2>2. Spread(Aligned(pair, r), c) = <<t.at[Where(t.shape, c)], u.at[Where(u.shape, c)]>>
    BY <1>4, <2>1
  <2> QED
    BY <1>5, <1>8, <2>1, <2>2
<1>10. Filled(all, shape, r)
  BY <1>5, <1>8 DEF Filled
<1> QED
  BY <1>9, <1>10 DEF all, ChosenFrom

(* What Nx asks of the three operands of a select or a clip.               *)
LEMMA JointIs ==
  ASSUME NEW n, NEW r, Ranked(n.shape, r), n.ins = [i \in 1 .. 3 |-> n.ins[i]], Broadcasts(n),
         NEW x, NEW i, Ranked(x, i), x = ShapeOf(n, 1),
         NEW y, NEW j, Ranked(y, j), y = ShapeOf(n, 2),
         NEW z, NEW k, Ranked(z, k), z = ShapeOf(n, 3)
  PROVE  /\ Joint(x, i, y, j, z, k, n.shape, r) /\ Joint(y, j, z, k, x, i, n.shape, r)
<1>1. DOMAIN n.ins = {1, 2, 3}
  BY SMT
<1>2. /\ Len(n.shape) = r /\ DOMAIN n.shape = 1 .. r /\ Len(x) = i /\ Len(y) = j /\ Len(z) = k
  BY RankedCells
<1>3. Fits(x, i, n.shape, r) /\ Fits(y, j, n.shape, r) /\ Fits(z, k, n.shape, r)
  <2>1. Stretches(x, n.shape) /\ Stretches(y, n.shape) /\ Stretches(z, n.shape)
    BY <1>1 DEF Broadcasts
  <2> QED
    BY <2>1, StretchesFits
<1>4. i = r \/ j = r \/ k = r
  BY <1>1, <1>2 DEF Broadcasts
<1>5. ASSUME NEW a \in 1 .. r
      PROVE  \/ n.shape[a] = 1 \/ Covers(x, i, n.shape, r, a)
             \/ Covers(y, j, n.shape, r, a) \/ Covers(z, k, n.shape, r, a)
  <2>1. \/ n.shape[a] = 1 \/ HasSize(x, n.shape, a)
        \/ HasSize(y, n.shape, a) \/ HasSize(z, n.shape, a)
    BY <1>1, <1>2 DEF Broadcasts
  <2> QED
    BY <1>2, <2>1 DEF HasSize, Covers
<1> QED
  BY <1>3, <1>4, <1>5 DEF Joint

(* The three operands of a real node.                                      *)
LEMMA ThreeOperands ==
  ASSUME NEW n, Real(n), Len(n.ins) = 3, Broadcasts(n)
  PROVE  /\ Plainly(n, 1) /\ Plainly(n, 2) /\ Plainly(n, 3)
         /\ \E i, j, k :
              /\ Fits(In(n, 1).shape, i, n.shape, Len(n.shape))
              /\ Joint(In(n, 1).shape, i, In(n, 2).shape, j, In(n, 3).shape, k, n.shape, Len(n.shape))
              /\ Joint(In(n, 2).shape, j, In(n, 3).shape, k, In(n, 1).shape, i, n.shape, Len(n.shape))
<1>1. /\ Ranked(n.shape, Len(n.shape)) /\ n.ins = [i \in 1 .. 3 |-> n.ins[i]]
      /\ \A i \in 1 .. 3 : Plainly(n, i)
  BY RealNode
<1>2. Plainly(n, 1) /\ Plainly(n, 2) /\ Plainly(n, 3)
  BY <1>1
<1> DEFINE x == In(n, 1).shape
           y == In(n, 2).shape
           z == In(n, 3).shape
<1>3. /\ Ranked(x, Len(x)) /\ Ranked(y, Len(y)) /\ Ranked(z, Len(z))
      /\ x = ShapeOf(n, 1) /\ y = ShapeOf(n, 2) /\ z = ShapeOf(n, 3)
  BY <1>2 DEF Plainly, Numeric
<1> HIDE DEF x, y, z
<1>4. /\ Joint(x, Len(x), y, Len(y), z, Len(z), n.shape, Len(n.shape))
      /\ Joint(y, Len(y), z, Len(z), x, Len(x), n.shape, Len(n.shape))
  BY <1>1, <1>3, JointIs
<1>5. Fits(x, Len(x), n.shape, Len(n.shape))
  BY <1>4 DEF Joint
<1> QED
  BY <1>2, <1>4, <1>5 DEF x, y, z

(* _select: where the predicate is not zero, the second operand.           *)
LEMMA SelectIsNx ==
  ASSUME NEW n, Real(n), n.op = "select"
  PROVE  Answers(Apply(n), n)
<1> DEFINE x == In(n, 1)
           y == In(n, 2)
           z == In(n, 3)
           s == n.shape
           r == Len(n.shape)
           cond == Each(x, LAMBDA v : v # 0)
<1>1. Apply(n) = WhereElse(cond, y, z)
  BY DEF Apply, Real
<1>2. Len(n.ins) = 3 /\ Broadcasts(n)
  BY RealNode DEF LayoutAsks
<1>3. /\ Operand(n, 2) = y /\ Operand(n, 3) = z /\ Ranked(x.shape, Len(x.shape))
  BY <1>2, ThreeOperands DEF Plainly, Numeric
<1>4. PICK i, j, k : Fits(x.shape, i, s, r) /\ Joint(y.shape, j, z.shape, k, x.shape, i, s, r)
  BY <1>2, ThreeOperands
<1>5. /\ cond.shape = x.shape
      /\ \A d \in Cells(x.shape, i) : cond.at[d] = (x.at[d] # 0)
  <2>1. Coords(x.shape) = Cells(x.shape, i)
    BY <1>4, RankedCells DEF Fits
  <2> QED
    BY <2>1 DEF Each, Tensor
<1> HIDE DEF cond
<1>6. ChosenFrom(cond, y, z, s, r)
  BY <1>4, <1>5, WhereElseIs
<1>7. ASSUME NEW c \in Cells(s, r) PROVE WhereElse(cond, y, z).at[c] = NxLayout(n, c)
  <2>1. Where(x.shape, c) \in Cells(x.shape, i)
    BY <1>4, WhereIs
  <2>2. cond.at[Where(cond.shape, c)] = (Broadcasted(x, c) # 0)
    BY <1>5, <2>1 DEF Broadcasted, Where
  <2>3. y.at[Where(y.shape, c)] = Broadcasted(y, c) /\ z.at[Where(z.shape, c)] = Broadcasted(z, c)
    BY DEF Broadcasted, Where
  <2>4. NxLayout(n, c) = IF Broadcasted(x, c) # 0 THEN Broadcasted(Operand(n, 2), c)
                                                  ELSE Broadcasted(Operand(n, 3), c)
    BY DEF NxLayout
  <2>5. WhereElse(cond, y, z).at[c] = IF cond.at[Where(cond.shape, c)]
                                      THEN y.at[Where(y.shape, c)] ELSE z.at[Where(z.shape, c)]
    BY <1>6 DEF ChosenFrom
  <2> QED
    BY <1>3, <2>2, <2>3, <2>4, <2>5
<1> QED
  BY <1>1, <1>6, <1>7 DEF Answers, ChosenFrom

(* clip: the larger of the operand and the lower bound, cut at the upper.  *)
LEMMA ClipIsNx ==
  ASSUME NEW n, Real(n), n.op = "clip"
  PROVE  Answers(Apply(n), n)
<1> DEFINE x == In(n, 1)
           y == In(n, 2)
           z == In(n, 3)
           s == n.shape
           r == Len(n.shape)
           pair == Zipped(x, y, LAMBDA v, w : Max({v, w}))
           whole == Zipped(pair, z, LAMBDA v, w : Min({v, w}))
           m == Meet(x, y)
<1>1. Apply(n) = whole
  BY DEF Apply, Real
<1>2. Len(n.ins) = 3 /\ Broadcasts(n)
  BY RealNode DEF LayoutAsks
<1>3. /\ Operand(n, 1) = x /\ Operand(n, 2) = y /\ Operand(n, 3) = z
  BY <1>2, ThreeOperands DEF Plainly
<1>4. PICK i, j, k : Joint(x.shape, i, y.shape, j, z.shape, k, s, r)
  BY <1>2, ThreeOperands
<1>5. pair.shape = m
  BY DEF Zipped, Paired, Tensor, Meet, Longer
<1>6. PICK q : Staged(x, y, z, pair, q, s, r)
  <2> HIDE DEF pair
  <2> QED
    BY <1>4, <1>5, StagedIs
<1>7. Ranked(m, q) /\ Longer(x, y) = q
  BY <1>6 DEF Staged
<1>8. pair.at = [d \in Cells(m, q) |-> Max({Spread(Aligned(x, q), d), Spread(Aligned(y, q), d)})]
  <2>1. Coords(m) = Cells(m, q)
    BY <1>7, RankedCells
  <2> QED
    BY <1>7, <2>1 DEF Zipped, Paired, Tensor, Meet, Longer
<1> HIDE DEF pair
<1>9. Longer(pair, z) = r /\ Meet(pair, z) = s
  BY <1>6 DEF Staged
<1>10. whole.shape = s /\ whole.at =
        [c \in Cells(s, r) |-> Min({Spread(Aligned(pair, r), c), Spread(Aligned(z, r), c)})]
  <2>1. Coords(s) = Cells(s, r)
    BY <1>4, RankedCells DEF Joint, Fits
  <2> QED
    BY <1>9, <2>1 DEF Zipped, Paired, Tensor, Meet, Longer
<1> HIDE DEF whole
<1>11. ASSUME NEW c \in Cells(s, r) PROVE whole.at[c] = NxLayout(n, c)
  <2>1. /\ Spread(Aligned(z, r), c) = z.at[Where(z.shape, c)]
        /\ Spread(Aligned(pair, r), c) = pair.at[Where(m, c)]
        /\ Where(m, c) \in Cells(m, q)
        /\ Spread(Aligned(x, q), Where(m, c)) = x.at[Where(x.shape, c)]
        /\ Spread(Aligned(y, q), Where(m, c)) = y.at[Where(y.shape, c)]
    BY <1>6 DEF Staged
  <2>2. Spread(Aligned(pair, r), c) = Max({x.at[Where(x.shape, c)], y.at[Where(y.shape, c)]})
    BY <1>8, <2>1
  <2>3. /\ x.at[Where(x.shape, c)] = Broadcasted(x, c) /\ y.at[Where(y.shape, c)] = Broadcasted(y, c)
        /\ z.at[Where(z.shape, c)] = Broadcasted(z, c)
    BY DEF Broadcasted, Where
  <2>4. NxLayout(n, c) = Min({Max({Broadcasted(Operand(n, 1), c), Broadcasted(Operand(n, 2), c)}),
                              Broadcasted(Operand(n, 3), c)})
    BY DEF NxLayout
  <2>5. whole.at[c] = Min({Spread(Aligned(pair, r), c), Spread(Aligned(z, r), c)})
    BY <1>10
  <2>6. NxLayout(n, c) = Min({Max({Broadcasted(x, c), Broadcasted(y, c)}), Broadcasted(z, c)})
    BY <1>3, <2>4
  <2>7. Spread(Aligned(pair, r), c) = Max({Broadcasted(x, c), Broadcasted(y, c)})
    BY <2>2, <2>3
  <2>8. Spread(Aligned(z, r), c) = Broadcasted(z, c)
    BY <2>1, <2>3
  <2> QED
    BY <2>5, <2>6, <2>7, <2>8
<1> QED
  BY <1>1, <1>10, <1>11 DEF Answers, Filled

(* A clamped start leaves room for the window, and one that does is kept.  *)
LEMMA ClampIs ==
  ASSUME NEW raw \in Int, NEW hi \in Nat
  PROVE  Clamp(raw, hi) \in 0 .. hi /\ (raw \in 0 .. hi => Clamp(raw, hi) = raw)
<1>1. Min({raw, hi}) = IF raw <= hi THEN raw ELSE hi
  BY MinOfTwo
<1> DEFINE low == Min({raw, hi})
<1>2. low \in Int
  BY <1>1
<1> HIDE DEF low
<1>3. Max({0, low}) = IF 0 >= low THEN 0 ELSE low
  BY <1>2, MaxOfTwo
<1>4. Clamp(raw, hi) = Max({0, low})
  BY DEF Clamp, low
<1> QED
  BY <1>1, <1>3, <1>4 DEF low

(* Windows of a tensor: where they start, whichever way a start is given.  *)
Begins(t, starts, lengths, strides, b, r) ==
  /\ Ranked(t.shape, r) /\ Ranked(lengths, r) /\ Ranked(strides, r)
  /\ DOMAIN starts = 1 .. r /\ b \in [1 .. r -> Nat]
  /\ \A a \in 1 .. r :
        /\ b[a] + lengths[a] <= t.shape[a]
        /\ (IF starts[a].kind = "dynamic" THEN Clamp(starts[a].at, t.shape[a] - lengths[a])
                                          ELSE starts[a].at) = b[a]

(* A slice is read from there, by the strides.                             *)
SlicesFrom(t, starts, lengths, strides, b, r) ==
  /\ Ranked(Strided(lengths, strides), r)
  /\ Filled(Slice(t, starts, lengths, strides), Strided(lengths, strides), r)
  /\ \A c \in Cells(Strided(lengths, strides), r) :
        /\ Slice(t, starts, lengths, strides).at[c] = t.at[Stepped(b, c, strides)]
        /\ Stepped(b, c, strides) \in Cells(t.shape, r)
LEMMA SliceIs ==
  ASSUME NEW t, NEW starts, NEW lengths, NEW strides, NEW b, NEW r,
         Begins(t, starts, lengths, strides, b, r)
  PROVE  SlicesFrom(t, starts, lengths, strides, b, r)
<1> DEFINE to == [a \in DOMAIN starts |-> b[a] + lengths[a]]
           zero == [a \in DOMAIN b |-> 0]
           u == Shrink(t, b, to)
           answer == Slice(t, starts, lengths, strides)
<1>1. /\ r \in Nat /\ Ranked(t.shape, r) /\ Ranked(lengths, r) /\ Ranked(strides, r)
      /\ DOMAIN starts = 1 .. r /\ b \in [1 .. r -> Nat] /\ DOMAIN b = 1 .. r
  BY DEF Begins, Ranked
<1>2. \A a \in 1 .. r : /\ lengths[a] \in Nat \ {0} /\ strides[a] \in Nat \ {0}
                        /\ t.shape[a] \in Nat \ {0}
  BY <1>1, RankedCells
<1>3. b = [a \in DOMAIN starts |->
            IF starts[a].kind = "dynamic" THEN Clamp(starts[a].at, t.shape[a] - lengths[a])
                                          ELSE starts[a].at]
  BY <1>1 DEF Begins
<1>4. \A a \in 1 .. r : b[a] \in Nat /\ to[a] = b[a] + lengths[a] /\ to[a] <= t.shape[a]
  BY <1>1 DEF Begins
<1>5. answer = IF \E a \in DOMAIN starts : starts[a].kind = "symbolic"
               THEN SliceBy(u, zero, lengths, strides) ELSE SliceBy(t, b, to, strides)
  BY <1>3 DEF Slice
<1> HIDE DEF to
<1>6. CASE ~\E a \in DOMAIN starts : starts[a].kind = "symbolic"
  <2>1. Sliced(t, b, to, strides, lengths, r)
    BY <1>1, <1>4, SliceByIs
  <2> QED
    BY <1>5, <1>6, <2>1 DEF Sliced, SlicesFrom
<1>7. CASE \E a \in DOMAIN starts : starts[a].kind = "symbolic"
  <2> DEFINE ones == Ones(Rank(t))
  <2>1. Ranked(ones, r) /\ \A a \in 1 .. r : ones[a] = 1
    BY <1>1, RankedCells, OnesAre DEF Rank
  <2> HIDE DEF ones
  <2>2. Sliced(t, b, to, ones, lengths, r)
    BY <1>1, <1>4, <2>1, SliceByIs
  <2>3. Strided(lengths, ones) = lengths
    <3>1. \A a \in 1 .. r : (lengths[a] + ones[a] - 1) \div ones[a] = lengths[a]
      <4> TAKE a \in 1 .. r
      <4>1. ones[a] = 1 /\ lengths[a] \in Nat
        BY <1>2, <2>1
      <4> QED
        BY <4>1
    <3>2. lengths \in [1 .. r -> Dims] /\ DOMAIN lengths = 1 .. r
      BY <1>1 DEF Ranked
    <3> QED
      BY <1>1, <3>1, <3>2 DEF Strided
  <2>4. /\ Filled(u, lengths, r)
        /\ \A c \in Cells(lengths, r) : /\ u.at[c] = t.at[Stepped(b, c, ones)]
                                        /\ Stepped(b, c, ones) \in Cells(t.shape, r)
    BY <2>2, <2>3 DEF Sliced, Shrink, ones
  <2> HIDE DEF u
  <2>5. u.shape = lengths /\ Ranked(u.shape, r)
    BY <1>1, <2>4 DEF Filled
  <2>6. \A a \in 1 .. r : zero[a] \in Nat /\ lengths[a] = zero[a] + lengths[a] /\ lengths[a] <= u.shape[a]
    BY <1>1, <1>2, <2>5
  <2>7. DOMAIN zero = 1 .. r
    BY <1>1
  <2>8. \A a \in 1 .. r : zero[a] = 0
    BY <1>1
  <2> HIDE DEF zero
  <2>9. Sliced(u, zero, lengths, strides, lengths, r)
    BY <1>1, <2>5, <2>6, <2>7, SliceByIs
  <2>10. ASSUME NEW c \in Cells(Strided(lengths, strides), r)
         PROVE  Stepped(b, Stepped(zero, c, strides), ones) = Stepped(b, c, strides)
    <3>1. c \in [1 .. r -> Nat]
      BY DEF Cells
    <3>2. Stepped(zero, c, strides) = [a \in 1 .. r |-> zero[a] + c[a] * strides[a]]
          /\ Stepped(b, c, strides) = [a \in 1 .. r |-> b[a] + c[a] * strides[a]]
      BY <3>1 DEF Stepped
    <3>3. Stepped(b, Stepped(zero, c, strides), ones) =
             [a \in 1 .. r |-> b[a] + (zero[a] + c[a] * strides[a]) * ones[a]]
      BY <3>2 DEF Stepped
    <3>4. \A a \in 1 .. r : b[a] + (zero[a] + c[a] * strides[a]) * ones[a] = b[a] + c[a] * strides[a]
      <4> TAKE a \in 1 .. r
      <4> DEFINE p == c[a] * strides[a]
      <4>1. p \in Int /\ b[a] \in Int /\ zero[a] = 0 /\ ones[a] = 1
        BY <1>1, <1>2, <2>1, <2>8, <3>1
      <4> HIDE DEF p
      <4>2. b[a] + (0 + p) * 1 = b[a] + p
        BY <4>1
      <4> QED
        BY <4>1, <4>2 DEF p
    <3> QED
      BY <3>2, <3>3, <3>4
  <2>11. ASSUME NEW c \in Cells(Strided(lengths, strides), r)
         PROVE  /\ answer.at[c] = t.at[Stepped(b, c, strides)]
                /\ Stepped(b, c, strides) \in Cells(t.shape, r)
    <3>1. /\ answer.at[c] = u.at[Stepped(zero, c, strides)]
          /\ Stepped(zero, c, strides) \in Cells(lengths, r)
      BY <1>5, <1>7, <2>5, <2>9 DEF Sliced
    <3> QED
      BY <2>4, <2>10, <3>1
  <2> QED
    BY <1>5, <1>7, <2>9, <2>11 DEF Sliced, SlicesFrom
<1> QED
  BY <1>6, <1>7

(* The starts a node runs with: the ones asked for, or already clamped to  *)
(* where the window fits.                                                  *)
Starting(s, n, dims, spans, r) ==
  /\ DOMAIN s = 1 .. r
  /\ \A a \in 1 .. r :
        /\ dims[a] - spans[a] \in Nat /\ n.starts[a].at \in Int
        /\ n.starts[a].kind \in {"static", "dynamic"}
        /\ \/ s[a] = n.starts[a]
           \/ /\ s[a].kind \in {"static", "symbolic"}
              /\ s[a].at = Clamp(n.starts[a].at, dims[a] - spans[a])
LEMMA StartsAre ==
  ASSUME NEW n, NEW dims, NEW spans, NEW r, Ranked(dims, r), Ranked(spans, r),
         dims = In(n, 1).shape, StartsFit(n, dims, spans)
  PROVE  Starting(Starts(n, spans), n, dims, spans, r)
<1>1. /\ DOMAIN dims = 1 .. r /\ Len(dims) = r
      /\ \A a \in 1 .. r : dims[a] \in Nat \ {0} /\ spans[a] \in Nat \ {0}
  BY RankedCells
<1>2. /\ n.starts \in Seq([kind : {"static", "dynamic"}, at : Int]) /\ Len(n.starts) = r
      /\ n.captured \in BOOLEAN /\ \A a \in 1 .. r : spans[a] <= dims[a]
  BY <1>1 DEF StartsFit
<1>3. DOMAIN n.starts = 1 .. r
      /\ \A a \in 1 .. r : n.starts[a] \in [kind : {"static", "dynamic"}, at : Int]
  <2> DEFINE S == [kind : {"static", "dynamic"}, at : Int]
  <2>1. n.starts \in Seq(S) /\ Len(n.starts) = r
    BY <1>2
  <2> HIDE DEF S
  <2>2. DOMAIN n.starts = 1 .. r /\ \A a \in 1 .. r : n.starts[a] \in S
    BY <2>1
  <2> QED
    BY <2>2 DEF S
<1>4. \A a \in 1 .. r : /\ dims[a] - spans[a] \in Nat /\ n.starts[a].at \in Int
                        /\ n.starts[a].kind \in {"static", "dynamic"}
  BY <1>1, <1>2, <1>3
<1>5. CASE ~n.captured
  BY <1>3, <1>4, <1>5 DEF Starts, Starting
<1>6. CASE n.captured
  <2> DEFINE s == Starts(n, spans)
  <2>1. s = [a \in 1 .. r |->
               IF n.starts[a].kind = "static" THEN n.starts[a]
               ELSE IF dims[a] - spans[a] <= 0 THEN [kind |-> "static", at |-> 0]
               ELSE [kind |-> "symbolic", at |-> Clamp(n.starts[a].at, dims[a] - spans[a])]]
    BY <1>3, <1>6 DEF Starts, Symbolic
  <2> HIDE DEF s
  <2>2. ASSUME NEW a \in 1 .. r
        PROVE  \/ s[a] = n.starts[a]
               \/ /\ s[a].kind \in {"static", "symbolic"}
                  /\ s[a].at = Clamp(n.starts[a].at, dims[a] - spans[a])
    <3> DEFINE hi == dims[a] - spans[a]
               raw == n.starts[a].at
    <3>1. hi \in Nat /\ raw \in Int
      BY <1>4
    <3> HIDE DEF hi, raw
    <3>2. hi <= 0 => Clamp(raw, hi) = 0
      BY <3>1, ClampIs
    <3>3. CASE n.starts[a].kind = "static"
      BY <2>1, <3>3
    <3>4. CASE n.starts[a].kind # "static" /\ hi <= 0
      <4>1. s[a] = [kind |-> "static", at |-> 0]
        BY <2>1, <3>4 DEF hi
      <4> QED
        BY <3>2, <3>4, <4>1 DEF hi, raw
    <3>5. CASE n.starts[a].kind # "static" /\ ~(hi <= 0)
      <4>1. s[a] = [kind |-> "symbolic", at |-> Clamp(raw, hi)]
        BY <2>1, <3>5 DEF hi, raw
      <4> QED
        BY <4>1 DEF hi, raw
    <3> QED
      BY <3>3, <3>4, <3>5
  <2> QED
    BY <1>4, <2>1, <2>2 DEF Starting, s
<1> QED
  BY <1>2, <1>5, <1>6

(* _slice: whether the starts are known, read when the node runs or bound  *)
(* to Variables, the window is the one Nx moved to fit.                    *)
LEMMA SliceIsNx ==
  ASSUME NEW n, Real(n), n.op = "slice"
  PROVE  Answers(Apply(n), n)
<1> DEFINE x == In(n, 1)
           r == Len(x.shape)
           l == n.lengths
           starts == Starts(n, l)
           b == [a \in 1 .. r |-> NxStart(n, a, l[a])]
<1>1. Apply(n) = Slice(x, starts, l, n.strides)
  BY DEF Apply, Real
<1>2. /\ Len(n.ins) = 1 /\ l \in Seq(Dims) /\ n.strides \in Seq(Dims)
      /\ StartsFit(n, ShapeOf(n, 1), l) /\ Len(n.strides) = Len(ShapeOf(n, 1))
      /\ n.shape = [a \in DOMAIN ShapeOf(n, 1) |-> (l[a] + n.strides[a] - 1) \div n.strides[a]]
  BY RealNode DEF LayoutAsks
<1>3. Plainly(n, 1)
  BY <1>2, FirstOperand
<1>4. Operand(n, 1) = x /\ ShapeOf(n, 1) = x.shape /\ Ranked(x.shape, r)
  BY <1>3 DEF Plainly, Numeric
<1>5. Ranked(l, r) /\ Ranked(n.strides, r) /\ r \in Nat
  <2>1. Len(l) = r /\ Len(n.strides) = r
    BY <1>2, <1>4 DEF StartsFit
  <2> QED
    BY <1>2, <1>4, <2>1, SeqRanked DEF Ranked
<1>6. n.shape = Strided(l, n.strides)
  <2>1. DOMAIN l = 1 .. r /\ DOMAIN x.shape = 1 .. r
    BY <1>4, <1>5, RankedCells
  <2> QED
    BY <1>2, <1>4, <2>1 DEF Strided
<1>7. Starting(starts, n, x.shape, l, r)
  BY <1>2, <1>4, <1>5, StartsAre
<1>8. ASSUME NEW a \in 1 .. r
      PROVE  /\ b[a] = Clamp(n.starts[a].at, x.shape[a] - l[a]) /\ b[a] \in Nat
             /\ b[a] + l[a] <= x.shape[a]
             /\ (IF starts[a].kind = "dynamic" THEN Clamp(starts[a].at, x.shape[a] - l[a])
                                               ELSE starts[a].at) = b[a]
  <2> DEFINE hi == x.shape[a] - l[a]
             raw == n.starts[a].at
  <2>1. hi \in Nat /\ raw \in Int /\ x.shape[a] \in Nat /\ l[a] \in Nat
    BY <1>4, <1>5, <1>7, RankedCells DEF Starting
  <2>2. Clamp(raw, hi) \in 0 .. hi /\ (raw \in 0 .. hi => Clamp(raw, hi) = raw)
    <3> HIDE DEF raw, hi
    <3> QED
      BY <2>1, ClampIs
  <2>3. b[a] = Clamp(raw, hi)
    BY DEF NxStart, Clamp
  <2>4. n.starts[a].kind = "static" => raw \in 0 .. hi
    <3>1. a \in DOMAIN x.shape
      BY <1>4, RankedCells
    <3>2. n.starts[a].kind = "static" => 0 <= raw /\ raw + l[a] <= x.shape[a]
      <4>1. StartsFit(n, x.shape, l)
        BY <1>2, <1>4
      <4>2. \A i \in DOMAIN x.shape : n.starts[i].kind = "static" =>
               0 <= n.starts[i].at /\ n.starts[i].at + l[i] <= x.shape[i]
        BY ONLY <4>1, n.op = "slice" DEF StartsFit
      <4> QED
        BY ONLY <3>1, <4>2
    <3> HIDE DEF raw
    <3> QED
      BY <2>1, <3>2
  <2>5. \/ starts[a] = n.starts[a]
        \/ /\ starts[a].kind \in {"static", "symbolic"}
           /\ starts[a].at = Clamp(raw, hi)
    BY <1>7 DEF Starting
  <2>6. n.starts[a].kind \in {"static", "dynamic"}
    BY <1>7 DEF Starting
  <2> HIDE DEF starts, b
  <2>7. (IF starts[a].kind = "dynamic" THEN Clamp(starts[a].at, hi) ELSE starts[a].at) = b[a]
    BY <2>2, <2>3, <2>4, <2>5, <2>6
  <2> QED
    BY <2>1, <2>2, <2>3, <2>7
<1>9. b \in [1 .. r -> Nat]
  BY <1>8
<1>10. DOMAIN starts = 1 .. r
  BY <1>7 DEF Starting
<1>11. Begins(x, starts, l, n.strides, b, r)
  <2> HIDE DEF b, starts
  <2> QED
    BY <1>4, <1>5, <1>8, <1>9, <1>10 DEF Begins
<1>12. SlicesFrom(x, starts, l, n.strides, b, r)
  <2> HIDE DEF b, starts
  <2> QED
    BY <1>11, SliceIs
<1>13. Len(n.shape) = r
  BY <1>6, <1>12, RankedCells DEF SlicesFrom
<1>14. ASSUME NEW c \in Cells(n.shape, r)
       PROVE  Slice(x, starts, l, n.strides).at[c] = NxLayout(n, c)
  <2>1. c \in [1 .. r -> Nat] /\ Len(c) = r /\ DOMAIN c = 1 .. r
    BY <1>5, SeqIs DEF Cells
  <2>2. NxLayout(n, c) = x.at[[a \in 1 .. r |-> NxStart(n, a, l[a]) + c[a] * n.strides[a]]]
    BY <1>4, <2>1 DEF NxLayout
  <2>3. Stepped(b, c, n.strides) = [a \in 1 .. r |-> NxStart(n, a, l[a]) + c[a] * n.strides[a]]
    BY <2>1 DEF Stepped
  <2>4. Slice(x, starts, l, n.strides).at[c] = x.at[Stepped(b, c, n.strides)]
    <3> HIDE DEF b, starts
    <3> QED
      BY <1>6, <1>12 DEF SlicesFrom
  <2> QED
    BY <2>2, <2>3, <2>4
<1> QED
  BY <1>1, <1>6, <1>12, <1>13, <1>14 DEF Answers, SlicesFrom

(* A shape fits itself, and each coordinate is read where it is.           *)
LEMMA FitsItself ==
  ASSUME NEW shape, NEW r, Ranked(shape, r)
  PROVE  /\ Joint(shape, r, shape, r, shape, r, shape, r)
         /\ \A c \in Cells(shape, r) : Where(shape, c) = c
<1>1. Fits(shape, r, shape, r)
  BY DEF Fits, Ranked
<1>2. \A a \in 1 .. r : Covers(shape, r, shape, r, a)
  BY DEF Covers, Ranked
<1> QED
  BY <1>1, <1>2, Covered DEF Joint

(* A tensor put over another where its window starts.                      *)
Puts(t, starts, s, b, r) ==
  /\ Numeric(t, r) /\ Numeric(s, r) /\ DOMAIN starts = 1 .. r /\ b \in [1 .. r -> Nat]
  /\ \A a \in 1 .. r :
        (IF starts[a].kind = "symbolic" THEN starts[a].at
         ELSE Clamp(starts[a].at, t.shape[a] - s.shape[a])) = b[a]

(* PutSlice reads the one inside the window and the other elsewhere.       *)
PutAt(t, starts, s, b, r) ==
  /\ Filled(PutSlice(t, starts, s), t.shape, r)
  /\ \A c \in Cells(t.shape, r) :
        PutSlice(t, starts, s).at[c] =
          IF Inside([a \in 1 .. r |-> c[a] - b[a]], s.shape)
          THEN s.at[[a \in 1 .. r |-> c[a] - b[a]]] ELSE t.at[c]
LEMMA PutSliceIs ==
  ASSUME NEW t, NEW starts, NEW s, NEW b, NEW r, Puts(t, starts, s, b, r)
  PROVE  PutAt(t, starts, s, b, r)
<1> DEFINE room(a) == t.shape[a] - s.shape[a]
           pad == [a \in DOMAIN starts |->
                     LET start == IF starts[a].kind = "symbolic" THEN starts[a].at
                                  ELSE Clamp(starts[a].at, room(a))
                     IN  <<start, room(a) - start>>]
           ones == Each(s, LAMBDA v : v * 0 + 1)
           mask == PadWith(ones, pad, 0)
           cond == Each(mask, LAMBDA v : v # 0)
           moved == PadWith(s, pad, 0)
           at(c) == [a \in 1 .. r |-> c[a] - b[a]]
<1>1. /\ r \in Nat /\ Ranked(t.shape, r) /\ Ranked(s.shape, r) /\ DOMAIN starts = 1 .. r
      /\ s.at \in [Cells(s.shape, r) -> Int]
  BY DEF Puts, Numeric, Ranked
<1>2. PutSlice(t, starts, s) = WhereElse(cond, moved, t)
  BY DEF PutSlice
<1>3. DOMAIN pad = 1 .. r /\ \A a \in 1 .. r : pad[a] = <<b[a], room(a) - b[a]>>
  BY <1>1 DEF Puts
<1> HIDE DEF pad
<1>4. \A a \in 1 .. r : pad[a][1] \in Int /\ pad[a][1] = b[a]
                        /\ t.shape[a] = pad[a][1] + s.shape[a] + pad[a][2]
  <2> TAKE a \in 1 .. r
  <2>1. t.shape[a] \in Nat /\ s.shape[a] \in Nat /\ b[a] \in Nat
    BY <1>1, RankedCells DEF Puts
  <2>2. pad[a][1] = b[a] /\ pad[a][2] = room(a) - b[a]
    BY <1>3
  <2> QED
    BY <2>1, <2>2
<1>5. ones.shape = s.shape /\ ones.at = [d \in Cells(s.shape, r) |-> s.at[d] * 0 + 1]
  BY <1>1, RankedCells DEF Each, Tensor
<1> HIDE DEF ones
<1>6. ASSUME NEW d \in Cells(s.shape, r) PROVE ones.at[d] = 1
  <2> DEFINE p == s.at[d]
  <2>1. p \in Int /\ ones.at[d] = p * 0 + 1
    BY <1>1, <1>5
  <2> HIDE DEF p
  <2> QED
    BY <2>1
<1>7. Padded(s, pad, 0, t.shape, r)
  BY <1>1, <1>3, <1>4, PadWithIs
<1>8. Padded(ones, pad, 0, t.shape, r)
  <2>1. Ranked(ones.shape, r)
        /\ \A a \in 1 .. r : pad[a][1] \in Int /\ t.shape[a] = pad[a][1] + ones.shape[a] + pad[a][2]
    BY <1>1, <1>4, <1>5
  <2> QED
    BY <1>1, <1>3, <2>1, PadWithIs
<1>9. ASSUME NEW c \in Cells(t.shape, r) PROVE Under(c, pad) = at(c)
  <2>1. Under(c, pad) = [a \in 1 .. r |-> c[a] - pad[a][1]]
    BY <1>3 DEF Under
  <2> QED
    BY <1>4, <2>1
<1> HIDE DEF at
<1>10. ASSUME NEW c \in Cells(t.shape, r)
       PROVE  /\ (mask.at[c] # 0) = Inside(at(c), s.shape)
              /\ Inside(at(c), s.shape) => moved.at[c] = s.at[at(c)]
  <2>1. mask.at[c] = IF Inside(at(c), s.shape) THEN ones.at[at(c)] ELSE 0
    BY <1>5, <1>8, <1>9 DEF Padded
  <2>2. Inside(at(c), s.shape) => at(c) \in Cells(s.shape, r) /\ moved.at[c] = s.at[at(c)]
    BY <1>7, <1>9 DEF Padded
  <2>3. Inside(at(c), s.shape) \in BOOLEAN
    BY DEF Inside
  <2> QED
    BY <1>6, <2>1, <2>2, <2>3
<1>11. mask.shape = t.shape /\ moved.shape = t.shape
  BY <1>7, <1>8 DEF Padded, Filled
<1> HIDE DEF mask, moved
<1>12. cond.shape = t.shape /\ \A c \in Cells(t.shape, r) : cond.at[c] = (mask.at[c] # 0)
  BY <1>1, <1>11, RankedCells DEF Each, Tensor
<1> HIDE DEF cond
<1>13. ChosenFrom(cond, moved, t, t.shape, r)
  <2>1. Joint(moved.shape, r, t.shape, r, cond.shape, r, t.shape, r)
    BY <1>1, <1>11, <1>12, FitsItself
  <2> QED
    BY <2>1, WhereElseIs
<1>14. ASSUME NEW c \in Cells(t.shape, r)
       PROVE  PutSlice(t, starts, s).at[c] =
                IF Inside(at(c), s.shape) THEN s.at[at(c)] ELSE t.at[c]
  <2>1. Where(t.shape, c) = c
    BY <1>1, FitsItself
  <2>2. PutSlice(t, starts, s).at[c] = IF cond.at[c] THEN moved.at[c] ELSE t.at[c]
    BY <1>2, <1>11, <1>12, <1>13, <2>1 DEF ChosenFrom
  <2> QED
    BY <1>10, <1>12, <2>2
<1> QED
  BY <1>2, <1>13, <1>14 DEF ChosenFrom, PutAt, at

(* _put_slice: the second operand where Nx moved its window to fit.        *)
LEMMA PutSliceIsNx ==
  ASSUME NEW n, Real(n), n.op = "put_slice"
  PROVE  Answers(Apply(n), n)
<1> DEFINE x == In(n, 1)
           y == In(n, 2)
           r == Len(x.shape)
           starts == Starts(n, y.shape)
           b == [a \in 1 .. r |-> NxStart(n, a, y.shape[a])]
<1>1. Apply(n) = PutSlice(x, starts, y)
  BY DEF Apply, Real
<1>2. Len(n.ins) = 2 /\ n.shape = ShapeOf(n, 1) /\ StartsFit(n, ShapeOf(n, 1), ShapeOf(n, 2))
  BY RealNode DEF LayoutAsks
<1>3. Plainly(n, 1) /\ Plainly(n, 2)
  <2>1. 1 \in 1 .. Len(n.ins) /\ 2 \in 1 .. Len(n.ins)
    BY <1>2
  <2> QED
    BY <2>1, RealNode
<1>4. /\ Operand(n, 1) = x /\ Operand(n, 2) = y /\ ShapeOf(n, 1) = x.shape /\ ShapeOf(n, 2) = y.shape
      /\ Numeric(x, r) /\ Numeric(y, Len(y.shape))
  BY <1>3 DEF Plainly
<1>5. Len(y.shape) = r /\ r \in Nat /\ Ranked(x.shape, r) /\ Ranked(y.shape, r)
  BY <1>2, <1>4 DEF StartsFit, Numeric, Ranked
<1>6. Starting(starts, n, x.shape, y.shape, r)
  BY <1>2, <1>4, <1>5, StartsAre
<1>7. ASSUME NEW a \in 1 .. r
      PROVE  /\ b[a] \in Nat
             /\ (IF starts[a].kind = "symbolic" THEN starts[a].at
                 ELSE Clamp(starts[a].at, x.shape[a] - y.shape[a])) = b[a]
  <2> DEFINE hi == x.shape[a] - y.shape[a]
             raw == n.starts[a].at
             at == Clamp(raw, hi)
  <2>1. hi \in Nat /\ raw \in Int
    BY <1>6 DEF Starting
  <2>2. b[a] = at
    BY DEF NxStart, Clamp
  <2>3. \/ starts[a] = n.starts[a]
        \/ /\ starts[a].kind \in {"static", "symbolic"}
           /\ starts[a].at = at
    BY <1>6 DEF Starting
  <2>4. n.starts[a].kind \in {"static", "dynamic"}
    BY <1>6 DEF Starting
  <2>5. at \in 0 .. hi
    <3> HIDE DEF raw, hi
    <3> QED
      BY <2>1, ClampIs
  <2>6. Clamp(at, hi) = at /\ at \in Nat
    <3>1. at \in Int
      BY <2>1, <2>5
    <3> HIDE DEF at, hi
    <3> QED
      BY <2>1, <2>5, <3>1, ClampIs
  <2>7. n.starts[a].kind # "symbolic"
    BY <2>4
  <2> HIDE DEF starts, b
  <2> QED
    BY <2>2, <2>3, <2>6, <2>7
<1>8. b \in [1 .. r -> Nat]
  BY <1>7
<1>9. PutAt(x, starts, y, b, r)
  <2>1. DOMAIN starts = 1 .. r
    BY <1>6 DEF Starting
  <2> HIDE DEF b, starts
  <2>2. Puts(x, starts, y, b, r)
    BY <1>4, <1>5, <1>7, <1>8, <2>1 DEF Puts
  <2> QED
    BY <2>2, PutSliceIs
<1>10. ASSUME NEW c \in Cells(x.shape, r) PROVE PutSlice(x, starts, y).at[c] = NxLayout(n, c)
  <2> DEFINE d == [a \in 1 .. r |-> c[a] - NxStart(n, a, y.shape[a])]
  <2>1. Len(c) = r
    BY <1>5, SeqIs DEF Cells
  <2>2. NxLayout(n, c) = IF Inside(d, y.shape) THEN y.at[d] ELSE x.at[c]
    BY <1>4, <2>1 DEF NxLayout
  <2>3. [a \in 1 .. r |-> c[a] - b[a]] = d
    OBVIOUS
  <2> HIDE DEF b, starts, d
  <2> QED
    BY <1>9, <2>2, <2>3 DEF PutAt
<1> QED
  BY <1>1, <1>2, <1>4, <1>9, <1>10 DEF Answers, PutAt

(* What a pad asks for of a tensor: a shape that is nowhere empty, and     *)
(* nothing between the entries.                                            *)
Pads(x, config, shape, r) ==
  /\ Ranked(x.shape, r) /\ Ranked(shape, r) /\ DOMAIN config = 1 .. r
  /\ \A a \in 1 .. r : /\ config[a][1] \in Int /\ config[a][2] \in Int
                       /\ shape[a] = x.shape[a] + config[a][1] + config[a][2]

(* A pad, outwards or cropping, is the operand where it reaches.           *)
PadsTo(x, config, v, shape, r) ==
  /\ Filled(EagerPad(x, config, v, shape), shape, r)
  /\ \A c \in Cells(shape, r) :
        EagerPad(x, config, v, shape).at[c] =
          IF Inside([a \in 1 .. r |-> c[a] - config[a][1]], x.shape)
          THEN x.at[[a \in 1 .. r |-> c[a] - config[a][1]]] ELSE v

(* Pad with nothing to crop.                                               *)
PadsOut(x, config, v, shape, r) ==
  /\ Filled(Pad(x, config, v), shape, r)
  /\ \A c \in Cells(shape, r) :
        Pad(x, config, v).at[c] =
          IF Inside([a \in 1 .. r |-> c[a] - config[a][1]], x.shape)
          THEN x.at[[a \in 1 .. r |-> c[a] - config[a][1]]] ELSE v
LEMMA PadOutwards ==
  ASSUME NEW x, NEW config, NEW v, NEW shape, NEW r, Pads(x, config, shape, r)
  PROVE  PadsOut(x, config, v, shape, r)
<1> DEFINE pad == [a \in DOMAIN config |-> <<config[a][1], config[a][2]>>]
<1>1. DOMAIN pad = 1 .. r
      /\ \A a \in 1 .. r : pad[a][1] = config[a][1] /\ pad[a][2] = config[a][2]
  BY DEF Pads
<1>2. Pad(x, config, v) = PadWith(x, pad, v)
  BY DEF Pad
<1> HIDE DEF pad
<1>3. \A a \in 1 .. r : pad[a][1] \in Int /\ shape[a] = pad[a][1] + x.shape[a] + pad[a][2]
  <2> TAKE a \in 1 .. r
  <2>1. x.shape[a] \in Int
    BY RankedCells DEF Pads
  <2> QED
    BY <1>1, <2>1 DEF Pads
<1>4. Padded(x, pad, v, shape, r)
  BY <1>1, <1>3, PadWithIs DEF Pads
<1>5. ASSUME NEW c \in Cells(shape, r)
      PROVE  Under(c, pad) = [a \in 1 .. r |-> c[a] - config[a][1]]
  BY <1>1 DEF Under
<1> QED
  BY <1>2, <1>4, <1>5 DEF Padded, PadsOut

(* Backend.pad: what is negative is cropped off what was padded.           *)
LEMMA EagerPadIs ==
  ASSUME NEW x, NEW config, NEW v, NEW shape, NEW r, Pads(x, config, shape, r)
  PROVE  PadsTo(x, config, v, shape, r)
<1> DEFINE pos == [a \in DOMAIN config |-> [i \in 1..3 |-> Max({config[a][i], 0})]]
           starts == [a \in DOMAIN config |->
                        [kind |-> "static", at |-> Max({0 - config[a][1], 0})]]
           ones == Ones(Len(shape))
           u == Pad(x, pos, v)
           wide == [a \in 1 .. r |-> x.shape[a] + pos[a][1] + pos[a][2]]
           b == [a \in 1 .. r |-> Max({0 - config[a][1], 0})]
           answer == EagerPad(x, config, v, shape)
<1>1. answer = IF \E a \in DOMAIN config : \E i \in 1..2 : config[a][i] < 0
               THEN Slice(u, starts, shape, ones) ELSE Pad(x, config, v)
  BY DEF EagerPad
<1>2. CASE ~\E a \in DOMAIN config : \E i \in 1..2 : config[a][i] < 0
  <2>1. answer = Pad(x, config, v)
    BY <1>1, <1>2
  <2> HIDE DEF answer
  <2> QED
    BY <2>1, PadOutwards DEF PadsOut, PadsTo, answer
<1>3. CASE \E a \in DOMAIN config : \E i \in 1..2 : config[a][i] < 0
  <2>1. /\ r \in Nat /\ Ranked(x.shape, r) /\ Ranked(shape, r) /\ Len(shape) = r
        /\ \A a \in 1 .. r : /\ config[a][1] \in Int /\ config[a][2] \in Int
                             /\ shape[a] = x.shape[a] + config[a][1] + config[a][2]
                             /\ x.shape[a] \in Nat \ {0} /\ shape[a] \in Nat \ {0}
    BY RankedCells DEF Pads, Ranked
  <2>2. ASSUME NEW a \in 1 .. r
        PROVE  /\ pos[a][1] = (IF config[a][1] >= 0 THEN config[a][1] ELSE 0)
               /\ pos[a][2] = (IF config[a][2] >= 0 THEN config[a][2] ELSE 0)
               /\ pos[a][1] \in Nat /\ pos[a][2] \in Nat
    <3>1. pos[a][1] = Max({config[a][1], 0}) /\ pos[a][2] = Max({config[a][2], 0})
      BY DEF Pads
    <3>2. config[a][1] \in Int /\ config[a][2] \in Int
      BY <2>1
    <3> QED
      BY <3>1, <3>2, MaxOfTwo
  <2>3. ASSUME NEW a \in 1 .. r
        PROVE  b[a] = (IF 0 - config[a][1] >= 0 THEN 0 - config[a][1] ELSE 0) /\ starts[a].at = b[a]
               /\ starts[a].kind = "static"
    <3> DEFINE k == 0 - config[a][1]
    <3>1. k \in Int
      BY <2>1
    <3>2. b[a] = Max({k, 0}) /\ starts[a].at = Max({k, 0}) /\ starts[a].kind = "static"
      BY DEF Pads
    <3> HIDE DEF k, b, starts
    <3>3. Max({k, 0}) = IF k >= 0 THEN k ELSE 0
      BY <3>1, MaxOfTwo
    <3> QED
      BY <3>2, <3>3 DEF k
  <2>4. DOMAIN pos = 1 .. r /\ DOMAIN starts = 1 .. r
    BY DEF Pads
  <2>5. \A a \in 1 .. r : wide[a] = x.shape[a] + pos[a][1] + pos[a][2]
    OBVIOUS
  <2>6. wide \in [1 .. r -> Dims]
    <3>1. ASSUME NEW a \in 1 .. r PROVE x.shape[a] + pos[a][1] + pos[a][2] \in Dims
      <4> HIDE DEF pos
      <4>1. x.shape[a] \in Nat \ {0} /\ pos[a][1] \in Nat /\ pos[a][2] \in Nat
        BY <2>1, <2>2
      <4> DEFINE i == x.shape[a]
                 p == pos[a][1]
                 q == pos[a][2]
      <4>2. i \in Int /\ i > 0 /\ p \in Int /\ p >= 0 /\ q \in Int /\ q >= 0
        BY <4>1
      <4> HIDE DEF i, p, q
      <4>3. i + p + q \in Nat \ {0}
        BY <4>2
      <4> QED
        BY <4>3 DEF Dims, i, p, q
    <3> QED
      BY <3>1
  <2>7. b \in [1 .. r -> Nat]
    <3>1. ASSUME NEW a \in 1 .. r PROVE b[a] \in Nat
      <4> HIDE DEF b
      <4>1. config[a][1] \in Int /\ b[a] = (IF 0 - config[a][1] >= 0 THEN 0 - config[a][1] ELSE 0)
        BY <2>1, <2>3
      <4> QED
        BY ONLY <4>1, SMT
    <3>2. b = [a \in 1 .. r |-> b[a]]
      OBVIOUS
    <3> HIDE DEF b
    <3> QED
      BY <3>1, <3>2
  <2> HIDE DEF pos, starts, wide, b
  <2>8. Pads(x, pos, wide, r)
    <3>1. \A a \in 1 .. r : pos[a][1] \in Int /\ pos[a][2] \in Int
      BY <2>1, <2>2
    <3> QED
      BY <2>1, <2>4, <2>5, <2>6, <3>1 DEF Pads, Ranked
  <2>p. PadsOut(x, pos, v, wide, r)
    BY <2>8, PadOutwards
  <2>9. /\ Filled(u, wide, r)
        /\ \A c \in Cells(wide, r) :
               u.at[c] = IF Inside([a \in 1 .. r |-> c[a] - pos[a][1]], x.shape)
                         THEN x.at[[a \in 1 .. r |-> c[a] - pos[a][1]]] ELSE v
    BY <2>p DEF PadsOut
  <2> HIDE DEF u
  <2>10. Ranked(ones, r) /\ (\A a \in 1 .. r : ones[a] = 1)
    BY <2>1, OnesAre
  <2> HIDE DEF ones
  <2>11. u.shape = wide /\ Ranked(u.shape, r)
    BY <2>1, <2>6, <2>9 DEF Filled, Ranked
  <2>12. Begins(u, starts, shape, ones, b, r)
    <3>1. ASSUME NEW a \in 1 .. r PROVE b[a] + shape[a] <= u.shape[a]
      <4>1. /\ config[a][1] \in Int /\ config[a][2] \in Int /\ x.shape[a] \in Nat
            /\ shape[a] = x.shape[a] + config[a][1] + config[a][2]
        BY <2>1
      <4>2. u.shape[a] = x.shape[a] + pos[a][1] + pos[a][2]
        BY <2>5, <2>11
      <4> QED
        BY <2>2, <2>3, <4>1, <4>2
    <3> QED
      BY <2>1, <2>3, <2>4, <2>7, <2>10, <2>11, <3>1 DEF Begins
  <2>13. SlicesFrom(u, starts, shape, ones, b, r)
    BY <2>12, SliceIs
  <2>14. Strided(shape, ones) = shape
    <3>1. \A a \in 1 .. r : (shape[a] + ones[a] - 1) \div ones[a] = shape[a]
      <4> TAKE a \in 1 .. r
      <4>1. ones[a] = 1 /\ shape[a] \in Nat
        BY <2>1, <2>10
      <4> QED
        BY <4>1
    <3>2. shape \in [1 .. r -> Dims] /\ DOMAIN shape = 1 .. r
      BY <2>1 DEF Ranked
    <3> QED
      BY <2>1, <3>1, <3>2 DEF Strided
  <2>15. ASSUME NEW c \in Cells(shape, r)
         PROVE  [a \in 1 .. r |-> Stepped(b, c, ones)[a] - pos[a][1]]
                  = [a \in 1 .. r |-> c[a] - config[a][1]]
    <3>1. c \in [1 .. r -> Nat]
      BY DEF Cells
    <3>2. ASSUME NEW a \in 1 .. r
          PROVE  Stepped(b, c, ones)[a] - pos[a][1] = c[a] - config[a][1]
      <4>1. Stepped(b, c, ones)[a] = b[a] + c[a] * ones[a]
        BY <3>1 DEF Stepped
      <4>2. ones[a] = 1 /\ c[a] \in Nat /\ b[a] \in Nat /\ config[a][1] \in Int
        BY <2>1, <2>7, <2>10, <3>1
      <4>3. c[a] * 1 = c[a]
        BY <4>2
      <4> QED
        BY <2>2, <2>3, <4>1, <4>2, <4>3
    <3> QED
      BY <3>2
  <2>16. ASSUME NEW c \in Cells(shape, r)
         PROVE  answer.at[c] = IF Inside([a \in 1 .. r |-> c[a] - config[a][1]], x.shape)
                               THEN x.at[[a \in 1 .. r |-> c[a] - config[a][1]]] ELSE v
    <3>1. /\ answer.at[c] = u.at[Stepped(b, c, ones)]
          /\ Stepped(b, c, ones) \in Cells(wide, r)
      BY <1>1, <1>3, <2>11, <2>13, <2>14 DEF SlicesFrom
    <3> QED
      BY <2>9, <2>15, <3>1
  <2> QED
    BY <1>1, <1>3, <2>13, <2>14, <2>16 DEF SlicesFrom, PadsTo
<1> QED
  BY <1>2, <1>3

(* Backend.pad and _pad: the operand where the padding leaves it, the      *)
(* value elsewhere, negative padding cropping.                             *)
LEMMA PadIsNx ==
  ASSUME NEW n, Real(n), n.op = "pad", ~PadFails(n)
  PROVE  Answers(Apply(n), n)
<1> DEFINE x == In(n, 1)
           r == Len(x.shape)
<1>1. Apply(n) = EagerPad(x, n.config, n.value, n.shape)
  BY DEF Apply, Real
<1>2. /\ Len(n.ins) = 1 /\ n.config \in Seq(Int \X Int \X Nat)
      /\ Len(n.config) = Len(ShapeOf(n, 1)) /\ Len(n.shape) = Len(ShapeOf(n, 1))
      /\ \A a \in DOMAIN ShapeOf(n, 1) :
            n.shape[a] = ShapeOf(n, 1)[a] + n.config[a][1] + n.config[a][2]
                                     + (ShapeOf(n, 1)[a] - 1) * n.config[a][3]
      /\ Ranked(n.shape, Len(n.shape))
  BY RealNode DEF LayoutAsks
<1>3. Plainly(n, 1)
  BY <1>2, FirstOperand
<1>4. /\ Operand(n, 1) = x /\ ShapeOf(n, 1) = x.shape /\ Ranked(x.shape, r) /\ r \in Nat
      /\ Len(n.shape) = r /\ Ranked(n.shape, r) /\ DOMAIN x.shape = 1 .. r
  BY <1>2, <1>3 DEF Plainly, Numeric, Ranked
<1>5. DOMAIN n.config = 1 .. r /\ \A a \in 1 .. r : n.config[a] \in Int \X Int \X Nat
  <2> DEFINE S == Int \X Int \X Nat
  <2>1. n.config \in Seq(S) /\ Len(n.config) = r
    BY <1>2, <1>4
  <2> HIDE DEF S
  <2>2. DOMAIN n.config = 1 .. r /\ \A a \in 1 .. r : n.config[a] \in S
    BY <2>1
  <2> QED
    BY <2>2 DEF S
<1>6. ASSUME NEW a \in 1 .. r
      PROVE  /\ n.config[a][1] \in Int /\ n.config[a][2] \in Int
             /\ n.shape[a] = x.shape[a] + n.config[a][1] + n.config[a][2]
  <2>1. n.config[a][1] \in Int /\ n.config[a][2] \in Int /\ n.config[a][3] = 0
    BY <1>5 DEF PadFails
  <2>2. x.shape[a] \in Int
    BY <1>4, RankedCells
  <2>3. (x.shape[a] - 1) * 0 = 0
    BY <2>2
  <2>4. n.shape[a] = x.shape[a] + n.config[a][1] + n.config[a][2] + (x.shape[a] - 1) * 0
    BY <1>2, <1>4, <2>1
  <2> QED
    BY <2>1, <2>2, <2>3, <2>4
<1>7. Pads(x, n.config, n.shape, r)
  BY <1>4, <1>5, <1>6 DEF Pads
<1>8. PadsTo(x, n.config, n.value, n.shape, r)
  BY <1>7, EagerPadIs
<1>9. ASSUME NEW c \in Cells(n.shape, r)
      PROVE  EagerPad(x, n.config, n.value, n.shape).at[c] = NxLayout(n, c)
  <2> DEFINE d == [a \in 1 .. r |-> c[a] - n.config[a][1]]
  <2>1. Len(c) = r
    BY <1>4, SeqIs DEF Cells
  <2>2. NxLayout(n, c) = IF Inside(d, x.shape) THEN x.at[d] ELSE n.value
    BY <1>4, <2>1 DEF NxLayout
  <2> QED
    BY <1>8, <2>2 DEF PadsTo
<1> QED
  BY <1>1, <1>4, <1>8, <1>9 DEF Answers, PadsTo

(* Where operand i of a join begins along the axis.                        *)
Before(ts, i, axis) == SumOf([j \in 1 .. i - 1 |-> ts[j].shape[axis]])

(* Operands joined end to end fill the axis, each place falls into one of  *)
(* them, and the entry there is that operand's.                            *)
Falls(ts, i, axis, k) == Before(ts, i, axis) <= k /\ k < Before(ts, i + 1, axis)
Lined(ts, n, s, axis, r) ==
  /\ Filled(CatAll(ts, axis), s, r) /\ CatAll(ts, axis).at \in [Cells(s, r) -> Int]
  /\ \A i \in 1 .. n + 1 : Before(ts, i, axis) \in Nat
  /\ \A i, j \in 1 .. n + 1, k \in Nat : Falls(ts, i, axis, k) /\ Falls(ts, j, axis, k) => i = j
  /\ \A c \in Cells(s, r) : \E i \in 1 .. n + 1 :
        /\ Falls(ts, i, axis, c[axis])
        /\ Shift(c, axis, Before(ts, i, axis)) \in Cells(ts[i].shape, r)
        /\ CatAll(ts, axis).at[c] = ts[i].at[Shift(c, axis, Before(ts, i, axis))]
LEMMA JoinIs ==
  ASSUME NEW ts, NEW n, NEW s, NEW axis, NEW r, Operands(ts, n, s, axis, r), Ranked(s, r),
         s[axis] = Before(ts, n + 2, axis)
  PROVE  Lined(ts, n, s, axis, r)
<1> DEFINE B == [i \in 0 .. n + 1 |-> Before(ts, i + 1, axis)]
           x == CatAll(ts, axis)
<1>1. /\ n \in Nat /\ axis \in 1 .. r /\ r \in Nat
      /\ \A i \in 1 .. n + 1 : ts[i].shape[axis] \in Nat \ {0}
  <2>1. n \in Nat /\ axis \in 1 .. r /\ r \in Nat
    BY DEF Operands, Ranked
  <2>2. ASSUME NEW i \in 1 .. n + 1 PROVE ts[i].shape[axis] \in Nat \ {0}
    BY <2>1, RankedCells DEF Operands, Agrees, Numeric
  <2> QED
    BY <2>1, <2>2
<1>2. Before(ts, 1, axis) = 0
  <2> DEFINE v == [j \in 1 .. 0 |-> ts[j].shape[axis]]
  <2>1. v \in [1 .. 0 -> Int]
    OBVIOUS
  <2>2. Before(ts, 1, axis) = SumOf(v)
    BY DEF Before
  <2> QED
    BY <2>1, <2>2, SumEmpty
<1>3. ASSUME NEW i \in 0 .. n
      PROVE  Before(ts, i + 2, axis) = Before(ts, i + 1, axis) + ts[i + 1].shape[axis]
  <2> DEFINE u == [j \in 1 .. i |-> ts[j].shape[axis]]
             v == [j \in 1 .. i + 1 |-> ts[j].shape[axis]]
  <2>0. i \in Nat /\ (i + 2) - 1 = i + 1 /\ (i + 1) - 1 = i
    BY <1>1
  <2>1. \A j \in 1 .. i + 1 : j \in 1 .. n + 1 /\ ts[j].shape[axis] \in Int
    BY <1>1
  <2>2. u \in [1 .. i -> Int] /\ v \in [1 .. i + 1 -> Int] /\ (\A j \in 1 .. i : u[j] = v[j])
    BY <2>0, <2>1
  <2>3. Before(ts, i + 2, axis) = SumOf(v) /\ Before(ts, i + 1, axis) = SumOf(u)
    BY <2>0 DEF Before
  <2>4. v[i + 1] = ts[i + 1].shape[axis]
    BY <2>0
  <2> HIDE DEF u, v
  <2> QED
    BY <2>0, <2>2, <2>3, <2>4, SumStep
<1>4. /\ B[0] = 0
      /\ \A i \in 0 .. n : B[i + 1] = B[i] + ts[i + 1].shape[axis]
  <2>1. B[0] = Before(ts, 0 + 1, axis) /\ 0 + 1 = 1
    BY <1>1
  <2>2. ASSUME NEW i \in 0 .. n PROVE B[i + 1] = B[i] + ts[i + 1].shape[axis]
    <3>1. i \in 0 .. n + 1 /\ i + 1 \in 0 .. n + 1 /\ (i + 1) + 1 = i + 2
      BY <1>1
    <3>2. B[i + 1] = Before(ts, i + 2, axis) /\ B[i] = Before(ts, i + 1, axis)
      BY <3>1
    <3> HIDE DEF B
    <3> QED
      BY <1>3, <3>2
  <2> QED
    BY <1>2, <2>1, <2>2
<1>5. ASSUME NEW i \in 1 .. n + 1
      PROVE  Before(ts, i, axis) = B[i - 1] /\ Before(ts, i + 1, axis) = B[i]
  <2>1. i - 1 \in 0 .. n + 1 /\ i \in 0 .. n + 1 /\ (i - 1) + 1 = i
    BY <1>1
  <2> QED
    BY <2>1
<1>6. Before(ts, n + 2, axis) = B[n + 1]
  <2>1. n + 1 \in 0 .. n + 1 /\ (n + 1) + 1 = n + 2
    BY <1>1
  <2> QED
    BY <2>1
<1>7. B = [i \in 0 .. n + 1 |-> B[i]]
  OBVIOUS
<1> HIDE DEF B
<1>8. \A i \in 0 .. n + 1 : B[i] \in Nat
  <2> DEFINE A == {i \in 0 .. n + 1 : B[i] \in Nat}
  <2>1. 0 \in A /\ n + 1 \in Nat
    BY <1>1, <1>4
  <2>2. ASSUME NEW i \in 0 .. n + 1, i \in A, i < n + 1 PROVE i + 1 \in A
    <3>1. i \in 0 .. n /\ i + 1 \in 1 .. n + 1 /\ i + 1 \in 0 .. n + 1
      BY <1>1, <2>2
    <3>2. B[i + 1] = B[i] + ts[i + 1].shape[axis] /\ B[i] \in Nat /\ ts[i + 1].shape[axis] \in Nat
      BY <1>1, <1>4, <2>2, <3>1
    <3> QED
      BY <3>1, <3>2
  <2> HIDE DEF A
  <2>3. 0 .. n + 1 \subseteq A
    BY <2>1, <2>2, UpTo
  <2> QED
    BY <2>3 DEF A
<1>9. Ends(B, ts, n, axis)
  <2>1. B \in [0 .. n + 1 -> Nat]
    BY <1>7, <1>8
  <2> QED
    BY <1>4, <2>1 DEF Ends
<1>10. Laid(x, n, B, ts, s, axis, r)
  BY <1>9, CatAllIs
<1> HIDE DEF x
<1>11. x.shape = s
  <2>1. x.shape \in [1 .. r -> Dims] /\ s \in [1 .. r -> Dims]
    BY <1>10 DEF Laid, Agrees, Numeric, Ranked
  <2>2. \A a \in 1 .. r : x.shape[a] = s[a]
    BY <1>6, <1>10 DEF Laid, Agrees
  <2> QED
    BY <1>1, <2>1, <2>2
<1>12. x.at \in [Cells(s, r) -> Int] /\ Filled(x, s, r)
  BY <1>10, <1>11 DEF Laid, Agrees, Numeric, Filled
<1>13. \A i, j \in 0 .. n + 1 : i <= j => B[i] <= B[j]
  <2> DEFINE A == {j \in 0 .. n + 1 : \A i \in 0 .. j : B[i] <= B[j]}
  <2>1. 0 \in A /\ n + 1 \in Nat
    <3>1. \A i \in 0 .. 0 : i = 0
      OBVIOUS
    <3> QED
      BY <1>1, <1>4, <3>1
  <2>2. ASSUME NEW j \in 0 .. n + 1, j \in A, j < n + 1 PROVE j + 1 \in A
    <3>1. j \in 0 .. n /\ j + 1 \in 1 .. n + 1 /\ j + 1 \in 0 .. n + 1
      BY <1>1, <2>2
    <3>2. B[j + 1] = B[j] + ts[j + 1].shape[axis] /\ ts[j + 1].shape[axis] \in Nat
      BY <1>1, <1>4, <3>1
    <3>3. ASSUME NEW i \in 0 .. j + 1 PROVE B[i] <= B[j + 1]
      <4>0. i \in 0 .. n + 1
        BY <1>1, <3>1
      <4>1. B[i] \in Nat /\ B[j] \in Nat /\ B[j + 1] \in Nat
        BY <1>8, <3>1, <4>0
      <4>2. CASE i = j + 1
        BY <4>1, <4>2
      <4>3. CASE i # j + 1
        <5>1. i \in 0 .. j
          BY <4>3
        <5>2. B[i] <= B[j]
          BY <2>2, <5>1
        <5> QED
          BY <3>2, <4>1, <5>2
      <4> QED
        BY <4>2, <4>3
    <3> QED
      BY <3>1, <3>3
  <2> HIDE DEF A
  <2>3. 0 .. n + 1 \subseteq A
    BY <2>1, <2>2, UpTo
  <2>4. \A j \in 0 .. n + 1 : \A i \in 0 .. j : B[i] <= B[j]
    BY <2>3 DEF A
  <2> QED
    BY <1>1, <2>4
<1>14. ASSUME NEW i \in 1 .. n + 1, NEW j \in 1 .. n + 1, NEW k \in Nat,
              Falls(ts, i, axis, k), Falls(ts, j, axis, k)
       PROVE  i = j
  <2>1. /\ B[i - 1] <= k /\ k < B[i] /\ B[j - 1] <= k /\ k < B[j]
    BY <1>5, <1>14 DEF Falls
  <2>2. /\ i - 1 \in 0 .. n + 1 /\ j - 1 \in 0 .. n + 1 /\ i \in 0 .. n + 1 /\ j \in 0 .. n + 1
    BY <1>1
  <2>3. B[i - 1] \in Nat /\ B[i] \in Nat /\ B[j - 1] \in Nat /\ B[j] \in Nat
    BY <1>8, <2>2
  <2>4. CASE i < j
    <3>1. B[i] <= B[j - 1]
      BY <1>13, <2>2, <2>4
    <3> QED
      BY <2>1, <2>3, <3>1
  <2>5. CASE j < i
    <3>1. B[j] <= B[i - 1]
      BY <1>13, <2>2, <2>5
    <3> QED
      BY <2>1, <2>3, <3>1
  <2> QED
    BY <2>4, <2>5
<1>15. ASSUME NEW c \in Cells(s, r)
       PROVE  \E i \in 1 .. n + 1 :
                 /\ Falls(ts, i, axis, c[axis])
                 /\ Shift(c, axis, Before(ts, i, axis)) \in Cells(ts[i].shape, r)
                 /\ x.at[c] = ts[i].at[Shift(c, axis, Before(ts, i, axis))]
  <2> DEFINE k == c[axis]
             T == {j \in 0 .. n + 1 : k < B[j]}
  <2>1. k \in Nat /\ k < B[n + 1]
    BY <1>1, <1>6, RankedCells DEF Cells
  <2>2. n + 1 \in T /\ T \in SUBSET Nat
    BY <1>1, <2>1
  <2> HIDE DEF k
  <2>3. PICK j \in T : \A y \in T : j <= y
    <3> HIDE DEF T
    <3> QED
      BY <2>2, LeastNumber
  <2>4. j \in 0 .. n + 1 /\ k < B[j]
    OBVIOUS
  <2>5. j # 0
    BY <1>4, <2>1, <2>4
  <2>6. j \in 1 .. n + 1 /\ j - 1 \in 0 .. n /\ j - 1 \in 0 .. n + 1
    BY <1>1, <2>4, <2>5
  <2>7. B[j - 1] <= k
    <3>1. j - 1 \notin T
      BY <2>3, <2>4
    <3>2. B[j - 1] \in Nat
      BY <1>8, <2>6
    <3> QED
      BY <2>1, <2>6, <3>1, <3>2
  <2>8. Falls(ts, j, axis, k)
    BY <1>5, <2>4, <2>6, <2>7 DEF Falls
  <2>9. /\ Shift(c, axis, B[j - 1]) \in Cells(ts[j].shape, r)
        /\ x.at[c] = ts[j].at[Shift(c, axis, B[j - 1])]
    <3> DEFINE i == j - 1
    <3>1. i \in 0 .. n /\ i + 1 = j /\ c \in Cells(x.shape, r)
      BY <1>11, <2>6
    <3>2. B[i] <= c[axis] /\ c[axis] < B[i + 1]
      BY <2>4, <2>7, <3>1 DEF k
    <3> HIDE DEF i
    <3>3. /\ Shift(c, axis, B[i]) \in Cells(ts[i + 1].shape, r)
          /\ x.at[c] = ts[i + 1].at[Shift(c, axis, B[i])]
      BY <1>10, <3>1, <3>2 DEF Laid
    <3> QED
      BY <3>1, <3>3 DEF i
  <2> QED
    BY <1>5, <2>6, <2>8, <2>9 DEF k
<1>16. \A i \in 1 .. n + 1 : Before(ts, i, axis) \in Nat
  <2> TAKE i \in 1 .. n + 1
  <2>1. i - 1 \in 0 .. n + 1
    BY <1>1
  <2> QED
    BY <1>5, <1>8, <2>1
<1> QED
  BY <1>12, <1>14, <1>15, <1>16 DEF Lined, x

(* The head and the tail of a list of operands.                            *)
LEMMA TailIs ==
  ASSUME NEW k \in Nat, NEW ts, ts = [i \in 1 .. k + 1 |-> ts[i]]
  PROVE  /\ Len(ts) = k + 1 /\ Head(ts) = ts[1] /\ DOMAIN Tail(ts) = 1 .. k
         /\ \A i \in 1 .. k : Tail(ts)[i] = ts[i + 1]
<1> DEFINE S == {ts[i] : i \in 1 .. k + 1}
<1>1. \A i \in 1 .. k + 1 : ts[i] \in S
  OBVIOUS
<1> HIDE DEF S
<1>2. ts \in [1 .. k + 1 -> S] /\ k + 1 \in Nat
  BY <1>1
<1>3. ts \in Seq(S) /\ Len(ts) = k + 1
  BY <1>2, SeqIs
<1> QED
  BY <1>3

(* A join is read from the operand that its coordinate falls into.         *)
FallsAt(n, ts, k, axis, c, i) ==
  /\ k \in Nat /\ DOMAIN n.ins = 1 .. k + 1 /\ i \in 1 .. k + 1
  /\ \A j \in 1 .. k + 1 : Operand(n, j).shape[axis] = ts[j].shape[axis]
  /\ Falls(ts, i, axis, c[axis])
  /\ \A j \in 1 .. k + 1 : Falls(ts, j, axis, c[axis]) => i = j
LEMMA JoinedIs ==
  ASSUME NEW n, NEW ts, NEW k, NEW axis, NEW c, NEW i, FallsAt(n, ts, k, axis, c, i)
  PROVE  Joined(n, axis, c) = Operand(n, i).at[Shift(c, axis, Before(ts, i, axis))]
<1> USE DEF FallsAt
<1> DEFINE before(m) == SumOf([j \in 1 .. (m - 1) |-> Operand(n, j).shape[axis]])
           e == CHOOSE m \in DOMAIN n.ins : before(m) <= c[axis] /\ c[axis] < before(m + 1)
<1>1. Joined(n, axis, c) = Operand(n, e).at[[c EXCEPT ![axis] = @ - before(e)]]
  BY DEF Joined
<1>2. ASSUME NEW m \in 1 .. k + 2 PROVE before(m) = Before(ts, m, axis)
  <2>1. \A j \in 1 .. m - 1 : j \in 1 .. k + 1
    OBVIOUS
  <2>2. [j \in 1 .. (m - 1) |-> Operand(n, j).shape[axis]] = [j \in 1 .. m - 1 |-> ts[j].shape[axis]]
    BY <2>1
  <2> QED
    BY <2>2 DEF Before
<1> HIDE DEF before
<1>3. \A m \in 1 .. k + 1 : (before(m) <= c[axis] /\ c[axis] < before(m + 1)) <=> Falls(ts, m, axis, c[axis])
  <2> TAKE m \in 1 .. k + 1
  <2>1. m \in 1 .. k + 2 /\ m + 1 \in 1 .. k + 2
    OBVIOUS
  <2>2. before(m) = Before(ts, m, axis) /\ before(m + 1) = Before(ts, m + 1, axis)
    BY <1>2, <2>1
  <2> QED
    BY <2>2 DEF Falls
<1>4. e \in 1 .. k + 1 /\ before(e) <= c[axis] /\ c[axis] < before(e + 1)
  BY <1>3
<1>5. e = i
  BY <1>3, <1>4
<1>6. i \in 1 .. k + 2
  OBVIOUS
<1> HIDE DEF e
<1> QED
  BY <1>1, <1>2, <1>5, <1>6 DEF Shift

(* _apply "cat": the operands end to end along the axis.                   *)
LEMMA ConcatenateIsNx ==
  ASSUME NEW n, Real(n), n.op = "concatenate"
  PROVE  Answers(Apply(n), n)
<1> DEFINE ts == n.ins
           s == n.shape
           r == Len(n.shape)
           k == Len(n.ins) - 1
           axis == n.axis
<1>1. Apply(n) = CatAll(ts, axis)
  BY DEF Apply, Real, Concatenate
<1>2. /\ n.ins # <<>> /\ axis \in DOMAIN s
      /\ \A i \in DOMAIN n.ins : ShapeOf(n, i) = [s EXCEPT ![axis] = ShapeOf(n, i)[axis]]
      /\ s[axis] = SumOf([i \in DOMAIN n.ins |-> ShapeOf(n, i)[axis]])
  BY RealNode DEF LayoutAsks
<1>3. /\ Ranked(s, r) /\ r \in Nat /\ axis \in 1 .. r /\ s \in [1 .. r -> Dims]
  BY <1>2, RealNode, RankedCells DEF Ranked
<1>4. k \in Nat /\ Len(n.ins) = k + 1 /\ ts = [i \in 1 .. k + 1 |-> ts[i]] /\ DOMAIN ts = 1 .. k + 1
      /\ \A i \in 1 .. k + 1 : Plainly(n, i)
  <2>1. /\ n.ins = [i \in 1 .. Len(n.ins) |-> n.ins[i]] /\ Len(n.ins) \in Nat
        /\ \A i \in 1 .. Len(n.ins) : Plainly(n, i)
    BY RealNode
  <2>2. Len(n.ins) # 0
    <3> SUFFICES ASSUME Len(n.ins) = 0 PROVE FALSE
      OBVIOUS
    <3>1. n.ins = [i \in 1 .. 0 |-> n.ins[i]]
      BY <2>1
    <3>2. n.ins = <<>>
      BY <3>1
    <3> QED
      BY <1>2, <3>2
  <2>3. k + 1 = Len(n.ins)
    BY <2>1
  <2>4. k \in Nat
    BY <2>1, <2>2
  <2> HIDE DEF k
  <2> QED
    BY <2>1, <2>3, <2>4
<1> HIDE DEF k
<1>5. ASSUME NEW i \in 1 .. k + 1
      PROVE  /\ Agrees(ts[i], s, axis, r) /\ ShapeOf(n, i) = ts[i].shape /\ Operand(n, i) = ts[i]
  <2>1. /\ Operand(n, i) = ts[i] /\ ShapeOf(n, i) = ts[i].shape
        /\ Numeric(ts[i], Len(ts[i].shape))
    BY <1>4 DEF Plainly, In
  <2> DEFINE x == ts[i].shape
  <2>2. x = [s EXCEPT ![axis] = x[axis]]
    BY <1>2, <1>4, <2>1
  <2>3. Ranked(x, Len(x))
    BY <2>1 DEF Numeric
  <2> HIDE DEF x
  <2>4. DOMAIN x = 1 .. r /\ \A a \in 1 .. r : a # axis => x[a] = s[a]
    BY <1>3, <2>2
  <2>5. Len(x) = r
    BY <1>3, <2>3, <2>4 DEF Ranked, Dims
  <2> QED
    BY <2>1, <2>4, <2>5 DEF Agrees, x
<1>6. Operands(ts, k, s, axis, r)
  <2>1. Head(ts) = ts[1] /\ DOMAIN Tail(ts) = 1 .. k /\ \A i \in 1 .. k : Tail(ts)[i] = ts[i + 1]
    BY <1>4, TailIs
  <2> QED
    BY <1>3, <1>4, <1>5, <2>1 DEF Operands
<1>7. s[axis] = Before(ts, k + 2, axis)
  <2>1. (k + 2) - 1 = k + 1
    BY <1>4
  <2>2. [i \in DOMAIN n.ins |-> ShapeOf(n, i)[axis]] = [j \in 1 .. k + 1 |-> ts[j].shape[axis]]
    BY <1>4, <1>5
  <2> QED
    BY <1>2, <2>1, <2>2 DEF Before
<1>8. Lined(ts, k, s, axis, r)
  BY <1>3, <1>6, <1>7, JoinIs
<1>9. ASSUME NEW c \in Cells(s, r) PROVE CatAll(ts, axis).at[c] = NxLayout(n, c)
  <2>1. PICK i \in 1 .. k + 1 :
           /\ Falls(ts, i, axis, c[axis])
           /\ Shift(c, axis, Before(ts, i, axis)) \in Cells(ts[i].shape, r)
           /\ CatAll(ts, axis).at[c] = ts[i].at[Shift(c, axis, Before(ts, i, axis))]
    BY <1>8 DEF Lined
  <2>2. c[axis] \in Nat
    BY <1>3 DEF Cells
  <2>3. \A j \in 1 .. k + 1 : Falls(ts, j, axis, c[axis]) => i = j
    BY <1>8, <2>1, <2>2 DEF Lined
  <2>4. \A j \in 1 .. k + 1 : Operand(n, j).shape[axis] = ts[j].shape[axis]
    BY <1>5
  <2>5. Joined(n, axis, c) = Operand(n, i).at[Shift(c, axis, Before(ts, i, axis))]
    <3>1. DOMAIN n.ins = 1 .. k + 1 /\ k \in Nat /\ Falls(ts, i, axis, c[axis])
      BY <1>4, <2>1
    <3> HIDE DEF ts, axis
    <3>2. FallsAt(n, ts, k, axis, c, i)
      BY <2>3, <2>4, <3>1 DEF FallsAt
    <3> QED
      BY <3>2, JoinedIs
  <2>6. NxLayout(n, c) = Joined(n, n.axis, c)
    BY DEF NxLayout
  <2> QED
    BY <1>5, <2>1, <2>5, <2>6
<1> QED
  BY <1>1, <1>8, <1>9 DEF Answers, Lined

(* The axes of a shape after another was put in among them.                *)
Around(axis, m) == [i \in 1 .. m |-> IF i < axis THEN i ELSE i + 1]

(* A list with an element more.                                            *)
Inserts(w, d, m, axis, x, S) ==
  /\ w \in [1 .. m + 1 -> S] /\ w[axis] = x
  /\ \A i \in 1 .. m : w[Around(axis, m)[i]] = d[i]
LEMMA InsertIs ==
  ASSUME NEW m \in Nat, NEW S, NEW d \in [1 .. m -> S], NEW x \in S, NEW axis \in 1 .. m + 1
  PROVE  Inserts(InsertAt(d, axis, x), d, m, axis, x, S)
<1> DEFINE p == SubSeq(d, 1, axis - 1)
           q == SubSeq(d, axis, Len(d))
           o == <<x>>
           k == axis - 1
           l == m - k
<1>1. Len(d) = m /\ k \in 0 .. m /\ k \in Nat /\ l \in Nat /\ k + 1 = axis /\ k + l = m
  BY SeqIs
<1>2. p = [j \in 1 .. k - 1 + 1 |-> d[1 + j - 1]]
  BY <1>1, SubSeqIs
<1>3. q = [j \in 1 .. m - axis + 1 |-> d[axis + j - 1]]
  BY <1>1, SubSeqIs
<1>4. p \in [1 .. k -> S] /\ \A j \in 1 .. k : p[j] = d[j]
  <2>1. k - 1 + 1 = k /\ \A j \in 1 .. k : 1 + j - 1 = j /\ j \in 1 .. m
    BY <1>1
  <2> HIDE DEF k
  <2> QED
    BY <1>2, <2>1
<1>5. q \in [1 .. l -> S] /\ \A j \in 1 .. l : q[j] = d[k + j]
  <2>1. m - axis + 1 = l /\ \A j \in 1 .. l : axis + j - 1 = k + j /\ k + j \in 1 .. m
    BY <1>1
  <2> HIDE DEF k, l
  <2> QED
    BY <1>3, <2>1
<1>6. o \in [1 .. 1 -> S] /\ o[1] = x
  OBVIOUS
<1> HIDE DEF p, q, o, k, l
<1>7. Joins(p \o o, p, k, o, 1, S)
  BY <1>1, <1>4, <1>6, ConcatAt
<1>8. (p \o o) \in [1 .. k + 1 -> S] /\ \A j \in 1 .. k + 1 : (p \o o)[j] = IF j <= k THEN p[j] ELSE o[j - k]
  BY <1>7 DEF Joins
<1>9. Joins((p \o o) \o q, p \o o, k + 1, q, l, S)
  <2>1. k + 1 \in Nat
    BY <1>1
  <2> QED
    BY <1>1, <1>5, <1>8, <2>1, ConcatAt
<1> DEFINE w == (p \o o) \o q
<1>10. InsertAt(d, axis, x) = w
  BY DEF InsertAt, p, o, q
<1>11. w \in [1 .. k + 1 + l -> S]
       /\ \A j \in 1 .. k + 1 + l : w[j] = IF j <= k + 1 THEN (p \o o)[j] ELSE q[j - (k + 1)]
  BY <1>9 DEF Joins
<1> HIDE DEF w
<1>12. k + 1 + l = m + 1
  BY <1>1
<1>13. w[axis] = x
  <2>1. axis \in 1 .. k + 1 + l /\ axis <= k + 1 /\ axis \in 1 .. k + 1 /\ ~(axis <= k) /\ axis - k = 1
    BY <1>1
  <2> QED
    BY <1>6, <1>8, <1>11, <2>1
<1>14. ASSUME NEW i \in 1 .. m PROVE w[Around(axis, m)[i]] = d[i]
  <2>1. CASE i < axis
    <3>1. Around(axis, m)[i] = i /\ i \in 1 .. k + 1 + l /\ i <= k + 1 /\ i \in 1 .. k + 1 /\ i <= k /\ i \in 1 .. k
      BY <1>1, <2>1 DEF Around
    <3> QED
      BY <1>4, <1>8, <1>11, <3>1
  <2>2. CASE ~(i < axis)
    <3>1. Around(axis, m)[i] = i + 1 /\ i + 1 \in 1 .. k + 1 + l /\ ~(i + 1 <= k + 1)
          /\ (i + 1) - (k + 1) \in 1 .. l /\ k + ((i + 1) - (k + 1)) = i
      BY <1>1, <2>2 DEF Around
    <3> QED
      BY <1>5, <1>11, <3>1
  <2> QED
    BY <2>1, <2>2
<1> QED
  BY <1>10, <1>11, <1>12, <1>13, <1>14 DEF Inserts

(* A coordinate with one axis taken out.                                   *)
LEMMA RemoveIs ==
  ASSUME NEW m \in Nat, NEW S, NEW c \in [1 .. m + 1 -> S], NEW axis \in 1 .. m + 1
  PROVE  RemoveAt(c, axis) = [i \in 1 .. m |-> c[Around(axis, m)[i]]]
<1> DEFINE p == SubSeq(c, 1, axis - 1)
           q == SubSeq(c, axis + 1, Len(c))
           k == axis - 1
           l == m - k
<1>1. /\ Len(c) = m + 1 /\ k \in 0 .. m /\ k \in Nat /\ l \in Nat /\ k + 1 = axis /\ k + l = m
      /\ m + 1 \in Nat
  <2>1. m + 1 \in Nat
    OBVIOUS
  <2> QED
    BY <2>1, SeqIs
<1>2. p = [j \in 1 .. k - 1 + 1 |-> c[1 + j - 1]]
  <2>1. 1 \in 1 .. (m + 1) + 1 /\ k \in 0 .. m + 1 /\ 1 <= k + 1
    BY <1>1
  <2> QED
    BY <1>1, <2>1, SubSeqIs
<1>3. q = [j \in 1 .. (m + 1) - (axis + 1) + 1 |-> c[(axis + 1) + j - 1]]
  <2>1. axis + 1 \in 1 .. (m + 1) + 1 /\ m + 1 \in 0 .. m + 1 /\ axis + 1 <= (m + 1) + 1
    BY <1>1
  <2> QED
    BY <1>1, <2>1, SubSeqIs
<1>4. p \in [1 .. k -> S] /\ \A j \in 1 .. k : p[j] = c[j]
  <2>1. k - 1 + 1 = k /\ \A j \in 1 .. k : 1 + j - 1 = j /\ j \in 1 .. m + 1
    BY <1>1
  <2> HIDE DEF k
  <2> QED
    BY <1>2, <2>1
<1>5. q \in [1 .. l -> S] /\ \A j \in 1 .. l : q[j] = c[k + 1 + j]
  <2>1. (m + 1) - (axis + 1) + 1 = l /\ \A j \in 1 .. l : (axis + 1) + j - 1 = k + 1 + j /\ k + 1 + j \in 1 .. m + 1
    BY <1>1
  <2> HIDE DEF k, l
  <2> QED
    BY <1>3, <2>1
<1> HIDE DEF p, q, k, l
<1>6. Joins(p \o q, p, k, q, l, S)
  BY <1>1, <1>4, <1>5, ConcatAt
<1> DEFINE w == p \o q
<1>7. RemoveAt(c, axis) = w
  BY DEF RemoveAt, p, q
<1>8. w \in [1 .. m -> S] /\ \A j \in 1 .. m : w[j] = IF j <= k THEN p[j] ELSE q[j - k]
  BY <1>1, <1>6 DEF Joins
<1> HIDE DEF w
<1>9. ASSUME NEW i \in 1 .. m PROVE w[i] = c[Around(axis, m)[i]]
  <2>1. CASE i < axis
    <3>1. Around(axis, m)[i] = i /\ i <= k /\ i \in 1 .. k
      BY <1>1, <2>1 DEF Around
    <3> QED
      BY <1>4, <1>8, <3>1
  <2>2. CASE ~(i < axis)
    <3>1. Around(axis, m)[i] = i + 1 /\ ~(i <= k) /\ i - k \in 1 .. l /\ k + 1 + (i - k) = i + 1
      BY <1>1, <2>2 DEF Around
    <3> QED
      BY <1>5, <1>8, <3>1
  <2> QED
    BY <2>1, <2>2
<1> QED
  BY <1>7, <1>8, <1>9

(* Operands of size one along the axis lie one place apart.                *)
LEMMA BeforeOnes ==
  ASSUME NEW ts, NEW k \in Nat, NEW axis, \A j \in 1 .. k : ts[j].shape[axis] = 1,
         NEW i \in 1 .. k + 1
  PROVE  Before(ts, i, axis) = i - 1
<1> DEFINE l == i - 1
           v == [j \in 1 .. l |-> ts[j].shape[axis]]
<1>1. l \in Nat /\ \A j \in 1 .. l : j \in 1 .. k
  OBVIOUS
<1>2. v \in [1 .. l -> Int] /\ \A j \in 1 .. l : v[j] = 1
  BY <1>1
<1>3. Before(ts, i, axis) = SumOf(v)
  BY DEF Before
<1> HIDE DEF v, l
<1>4. PICK w \in [0 .. l -> Int] :
         /\ w[0] = 0 /\ SumOf(v) = w[l]
         /\ \A j \in 0 .. l - 1 : w[j + 1] = w[j] + v[j + 1]
  BY <1>1, <1>2, SumFold
<1> DEFINE A == {j \in 0 .. l : w[j] = j}
<1>5. 0 \in A
  BY <1>1, <1>4
<1>6. ASSUME NEW j \in 0 .. l, j \in A, j < l PROVE j + 1 \in A
  <2>1. j \in 0 .. l - 1 /\ j + 1 \in 1 .. l /\ j + 1 \in 0 .. l
    BY <1>1, <1>6
  <2>2. w[j + 1] = j + 1
    BY <1>2, <1>4, <1>6, <2>1
  <2> QED
    BY <2>1, <2>2
<1> HIDE DEF A
<1>7. 0 .. l \subseteq A
  BY <1>1, <1>5, <1>6, UpTo
<1>8. w[l] = l
  BY <1>1, <1>7 DEF A
<1> QED
  BY <1>3, <1>4, <1>8 DEF l

(* A shape with an axis of size one put in.                                *)
OneMore(w, dims, m, axis, q) ==
  /\ Widens(w, m + 1, dims, m, q) /\ w[axis] = 1
  /\ \A i \in 1 .. m : q[i] \in 1 .. m + 1 /\ q[i] # axis
  /\ \A a \in 1 .. m + 1 : a # axis => \E i \in 1 .. m : q[i] = a
LEMMA WidenedByOne ==
  ASSUME NEW dims, NEW m, Ranked(dims, m), NEW axis \in 1 .. m + 1
  PROVE  OneMore(InsertAt(dims, axis, 1), dims, m, axis, Around(axis, m))
<1> DEFINE w == InsertAt(dims, axis, 1)
           q == Around(axis, m)
<1>1. m \in Nat /\ dims \in [1 .. m -> Dims] /\ 1 \in Dims /\ m + 1 \in Nat
  BY DEF Ranked, Dims
<1>2. Inserts(w, dims, m, axis, 1, Dims)
  BY <1>1, InsertIs
<1> HIDE DEF w
<1>3. Ranked(w, m + 1) /\ w[axis] = 1 /\ \A i \in 1 .. m : w[q[i]] = dims[i]
  BY <1>1, <1>2 DEF Inserts, Ranked
<1>4. \A i \in 1 .. m : q[i] = (IF i < axis THEN i ELSE i + 1) /\ q[i] \in 1 .. m + 1 /\ q[i] # axis
  BY <1>1 DEF Around
<1>5. q \in [1 .. m -> 1 .. m + 1]
  <2>1. q = [i \in 1 .. m |-> q[i]]
    BY DEF Around
  <2> QED
    BY <1>4, <2>1
<1>6. \A i, j \in 1 .. m : i < j => q[i] < q[j]
  BY <1>1, <1>4
<1>7. ASSUME NEW a \in 1 .. m + 1, a # axis PROVE \E i \in 1 .. m : q[i] = a
  <2>1. CASE a < axis
    <3>1. a \in 1 .. m /\ q[a] = a
      BY <1>1, <1>4, <2>1
    <3> QED
      BY <3>1
  <2>2. CASE ~(a < axis)
    <3>1. a - 1 \in 1 .. m /\ ~(a - 1 < axis) /\ (a - 1) + 1 = a
      BY <1>1, <1>7, <2>2
    <3>2. q[a - 1] = a
      BY <1>4, <3>1
    <3> QED
      BY <3>1, <3>2
  <2> QED
    BY <2>1, <2>2
<1>8. \A a \in 1 .. m + 1 : (\A i \in 1 .. m : q[i] # a) => w[a] = 1
  BY <1>3, <1>7
<1> HIDE DEF q
<1>9. Widens(w, m + 1, dims, m, q)
  BY <1>3, <1>5, <1>6, <1>8 DEF Widens
<1> QED
  BY <1>3, <1>4, <1>7, <1>9 DEF w, q, OneMore

(* _stack: the operand that the coordinate of the new axis counts.         *)
LEMMA StackIsNx ==
  ASSUME NEW n, Real(n), n.op = "stack"
  PROVE  Answers(Apply(n), n)
<1> DEFINE ts == n.ins
           s == n.shape
           k == Len(n.ins) - 1
           axis == n.axis
           dims == ShapeOf(n, 1)
           m == Len(dims)
           wide == InsertAt(dims, axis, 1)
           us == [i \in DOMAIN ts |-> Reshape(ts[i], InsertAt(ts[i].shape, axis, 1))]
           q == Around(axis, m)
<1>1. Apply(n) = CatAll(us, axis)
  BY DEF Apply, Real, Stack
<1>2. /\ n.ins # <<>> /\ axis \in 1 .. (Len(dims) + 1)
      /\ \A i \in DOMAIN n.ins : ShapeOf(n, i) = dims
      /\ s = InsertAt(dims, axis, Len(n.ins))
  BY RealNode DEF LayoutAsks
<1>4. k \in Nat /\ Len(n.ins) = k + 1 /\ ts = [i \in 1 .. k + 1 |-> ts[i]] /\ DOMAIN ts = 1 .. k + 1
      /\ \A i \in 1 .. k + 1 : Plainly(n, i)
  <2>1. /\ n.ins = [i \in 1 .. Len(n.ins) |-> n.ins[i]] /\ Len(n.ins) \in Nat
        /\ \A i \in 1 .. Len(n.ins) : Plainly(n, i)
    BY RealNode
  <2>2. Len(n.ins) # 0
    <3> SUFFICES ASSUME Len(n.ins) = 0 PROVE FALSE
      OBVIOUS
    <3>1. n.ins = [i \in 1 .. 0 |-> n.ins[i]]
      BY <2>1
    <3>2. n.ins = <<>>
      BY <3>1
    <3> QED
      BY <1>2, <3>2
  <2>3. k + 1 = Len(n.ins)
    BY <2>1
  <2>4. k \in Nat
    BY <2>1, <2>2
  <2> HIDE DEF k
  <2> QED
    BY <2>1, <2>3, <2>4
<1> HIDE DEF k
<1>5. ASSUME NEW i \in 1 .. k + 1
      PROVE  ts[i].shape = dims /\ Operand(n, i) = ts[i] /\ Numeric(ts[i], m)
  BY <1>2, <1>4 DEF Plainly, In
<1>6. Ranked(dims, m) /\ m \in Nat
  <2>1. 1 \in 1 .. k + 1
    BY <1>4
  <2> QED
    BY <1>5, <2>1 DEF Numeric, Ranked
<1>7. axis \in 1 .. m + 1 /\ k + 1 \in Dims
  BY <1>2, <1>4 DEF Dims
<1>8. Inserts(s, dims, m, axis, k + 1, Dims)
  <2>1. s = InsertAt(dims, axis, k + 1)
    BY <1>2, <1>4
  <2> QED
    BY <1>6, <1>7, <2>1, InsertIs DEF Ranked
<1>9. s \in [1 .. m + 1 -> Dims] /\ s[axis] = k + 1 /\ \A i \in 1 .. m : s[q[i]] = dims[i]
  BY <1>8 DEF Inserts
<1>10. Ranked(s, m + 1) /\ Len(s) = m + 1
  <2>1. Ranked(s, m + 1)
    BY <1>6, <1>9 DEF Ranked
  <2> QED
    BY <2>1, RankedCells
<1>a. OneMore(wide, dims, m, axis, q)
  BY <1>6, <1>7, WidenedByOne
<1>11. /\ Widens(wide, m + 1, dims, m, q) /\ wide[axis] = 1
       /\ \A i \in 1 .. m : q[i] \in 1 .. m + 1 /\ q[i] # axis
       /\ \A a \in 1 .. m + 1 : a # axis => \E i \in 1 .. m : q[i] = a
  BY <1>a DEF OneMore
<1>12. DOMAIN us = 1 .. k + 1 /\ us = [i \in 1 .. k + 1 |-> us[i]]
       /\ \A i \in 1 .. k + 1 : us[i] = Reshape(ts[i], wide)
  BY <1>4, <1>5
<1> HIDE DEF wide, us, q
<1>13. \A a \in 1 .. m + 1 : a # axis => wide[a] = s[a]
  <2> TAKE a \in 1 .. m + 1
  <2> HAVE a # axis
  <2>1. PICK i \in 1 .. m : q[i] = a
    BY <1>11
  <2>2. wide[q[i]] = dims[i]
    BY <1>11 DEF Widens
  <2> QED
    BY <1>9, <2>1, <2>2
<1>14. ASSUME NEW i \in 1 .. k + 1
       PROVE  /\ Agrees(us[i], s, axis, m + 1) /\ us[i].shape = wide
              /\ \A d \in Cells(wide, m + 1) : us[i].at[d] = ts[i].at[Pick(d, q)]
  <2>1. Widened(ts[i], m, wide, m + 1, q)
    <3>1. Widens(wide, m + 1, ts[i].shape, m, q)
      BY <1>5, <1>11
    <3> QED
      BY <3>1, WidenIs
  <2>2. /\ Filled(us[i], wide, m + 1)
        /\ \A d \in Cells(wide, m + 1) : /\ us[i].at[d] = ts[i].at[Pick(d, q)]
                                         /\ Pick(d, q) \in Cells(dims, m)
    BY <1>5, <1>12, <2>1 DEF Widened
  <2>3. \A d \in Cells(wide, m + 1) : us[i].at[d] \in Int
    BY <1>5, <2>2 DEF Numeric
  <2>4. us[i].shape = wide /\ us[i].at \in [Cells(wide, m + 1) -> Int]
    BY <2>2, <2>3 DEF Filled
  <2>5. Ranked(wide, m + 1)
    BY <1>11 DEF Widens
  <2> QED
    BY <1>13, <2>2, <2>4, <2>5 DEF Agrees, Numeric
<1>15. Operands(us, k, s, axis, m + 1)
  <2>1. Head(us) = us[1] /\ DOMAIN Tail(us) = 1 .. k /\ \A i \in 1 .. k : Tail(us)[i] = us[i + 1]
    BY <1>4, <1>12, TailIs
  <2>2. \A i \in 1 .. k + 1 : Agrees(us[i], s, axis, m + 1)
    BY <1>14
  <2> QED
    BY <1>4, <1>7, <2>1, <2>2 DEF Operands
<1>16. ASSUME NEW i \in 1 .. k + 2 PROVE Before(us, i, axis) = i - 1
  <2>1. \A j \in 1 .. k + 1 : us[j].shape[axis] = 1
    BY <1>11, <1>14
  <2>2. k + 1 \in Nat /\ i \in 1 .. (k + 1) + 1
    BY <1>4
  <2> QED
    BY <2>1, <2>2, BeforeOnes
<1>17. s[axis] = Before(us, k + 2, axis)
  <2>1. k + 2 \in 1 .. k + 2 /\ (k + 2) - 1 = k + 1
    BY <1>4
  <2> QED
    BY <1>9, <1>16, <2>1
<1>18. Lined(us, k, s, axis, m + 1)
  BY <1>10, <1>15, <1>17, JoinIs
<1>19. ASSUME NEW c \in Cells(s, m + 1) PROVE CatAll(us, axis).at[c] = NxLayout(n, c)
  <2>1. PICK i \in 1 .. k + 1 :
           /\ Falls(us, i, axis, c[axis])
           /\ Shift(c, axis, Before(us, i, axis)) \in Cells(us[i].shape, m + 1)
           /\ CatAll(us, axis).at[c] = us[i].at[Shift(c, axis, Before(us, i, axis))]
    BY <1>18 DEF Lined
  <2>2. c \in [1 .. m + 1 -> Nat] /\ c[axis] \in Nat
    BY <1>7 DEF Cells
  <2>3. Before(us, i, axis) = i - 1 /\ Before(us, i + 1, axis) = i
    <3>1. i \in 1 .. k + 2 /\ i + 1 \in 1 .. k + 2 /\ (i + 1) - 1 = i
      BY <1>4
    <3> QED
      BY <1>16, <3>1
  <2>4. i = c[axis] + 1
    BY <2>1, <2>2, <2>3 DEF Falls
  <2> DEFINE d == Shift(c, axis, i - 1)
  <2>5. d \in Cells(wide, m + 1) /\ CatAll(us, axis).at[c] = ts[i].at[Pick(d, q)]
    BY <1>14, <2>1, <2>3
  <2>6. \A a \in 1 .. m + 1 : a # axis => d[a] = c[a]
    BY <2>2 DEF Shift
  <2> HIDE DEF d
  <2>7. Pick(d, q) = RemoveAt(c, axis)
    <3>1. RemoveAt(c, axis) = [j \in 1 .. m |-> c[q[j]]]
      <4>1. m \in Nat /\ c \in [1 .. m + 1 -> Nat] /\ axis \in 1 .. m + 1
        BY <1>6, <1>7, <2>2
      <4> HIDE DEF axis, m, dims
      <4>2. RemoveAt(c, axis) = [j \in 1 .. m |-> c[Around(axis, m)[j]]]
        BY <4>1, RemoveIs
      <4> QED
        BY <4>2 DEF q
    <3>2. DOMAIN q = 1 .. m
      BY DEF q, Around
    <3> QED
      BY <1>11, <2>6, <3>1, <3>2 DEF Pick
  <2>8. NxLayout(n, c) = Operand(n, c[n.axis] + 1).at[RemoveAt(c, n.axis)]
    BY DEF NxLayout
  <2> QED
    BY <1>5, <2>4, <2>5, <2>7, <2>8
<1> QED
  BY <1>1, <1>10, <1>18, <1>19 DEF Answers, Lined

-----------------------------------------------------------------------------
(* The hidden last axis of a complex tensor.                               *)

(* A shape with the hidden last axis of a complex tensor.                  *)
Wider(s, w, r, d) ==
  /\ Ranked(w, r + 1) /\ w[r + 1] = d /\ \A a \in 1 .. r : w[a] = s[a]
LEMMA WiderIs ==
  ASSUME NEW s, NEW r, Ranked(s, r), NEW d \in Dims
  PROVE  Wider(s, Append(s, d), r, d)
<1> DEFINE w == Append(s, d)
<1>1. r \in Nat /\ s \in [1 .. r -> Dims] /\ d \in Dims
  BY DEF Ranked
<1>2. w = [j \in 1 .. r + 1 |-> IF j = r + 1 THEN d ELSE s[j]]
  <2>1. \A y : Append(s, y) = [j \in 1 .. r + 1 |-> IF j = r + 1 THEN y ELSE s[j]]
    BY ONLY <1>1, AppendIs
  <2> QED
    BY <2>1
<1> HIDE DEF w
<1>3. \A j \in 1 .. r + 1 : j # r + 1 => j \in 1 .. r
  BY <1>1
<1>4. w \in [1 .. r + 1 -> Dims]
  BY <1>1, <1>2, <1>3
<1>5. r + 1 \in 1 .. r + 1 /\ \A a \in 1 .. r : a \in 1 .. r + 1 /\ a # r + 1
  BY <1>1
<1>6. w[r + 1] = d /\ \A a \in 1 .. r : w[a] = s[a]
  BY <1>2, <1>5
<1>7. r + 1 \in Nat
  BY <1>1
<1>8. Wider(s, w, r, d)
  BY <1>4, <1>6, <1>7 DEF Wider, Ranked
<1> QED
  BY <1>8 DEF w

(* A coordinate of one part: it names the entry and the part.              *)
Named(e, c, p, w, r) ==
  /\ e \in Cells(w, r + 1) /\ e[r + 1] = p /\ \A a \in 1 .. r : e[a] = c[a]
LEMMA PartIs ==
  ASSUME NEW s, NEW w, NEW r, NEW k, Wider(s, w, r, k), Ranked(s, r), NEW c \in Cells(s, r), NEW p \in 0 .. k - 1
  PROVE  Named(Append(c, p), c, p, w, r)
<1> DEFINE e == Append(c, p)
<1>1. r \in Nat /\ c \in [1 .. r -> Nat] /\ (\A a \in 1 .. r : c[a] < s[a]) /\ k \in Nat
  <2>1. r \in Nat /\ r + 1 \in 1 .. r + 1 /\ Ranked(w, r + 1) /\ w[r + 1] = k
    BY DEF Wider, Ranked
  <2>2. w[r + 1] \in Nat
    BY <2>1, RankedCells
  <2> QED
    BY <2>1, <2>2 DEF Cells
<1>2. e = [j \in 1 .. r + 1 |-> IF j = r + 1 THEN p ELSE c[j]]
  <2>1. \A y : Append(c, y) = [j \in 1 .. r + 1 |-> IF j = r + 1 THEN y ELSE c[j]]
    BY ONLY <1>1, AppendIs
  <2> QED
    BY <2>1
<1> HIDE DEF e
<1>3. \A j \in 1 .. r + 1 : j # r + 1 => j \in 1 .. r
  BY <1>1
<1>4. p \in Nat /\ p < k
  BY <1>1
<1>5. e \in [1 .. r + 1 -> Nat]
  BY <1>1, <1>2, <1>3, <1>4
<1>6. r + 1 \in 1 .. r + 1 /\ \A a \in 1 .. r : a \in 1 .. r + 1 /\ a # r + 1
  BY <1>1
<1>7. e[r + 1] = p /\ \A a \in 1 .. r : e[a] = c[a]
  BY <1>2, <1>6
<1>8. ASSUME NEW a \in 1 .. r + 1 PROVE e[a] < w[a]
  <2>1. CASE a = r + 1
    BY <1>4, <1>7, <2>1 DEF Wider
  <2>2. CASE a # r + 1
    <3>1. a \in 1 .. r
      BY <1>3, <2>2
    <3> QED
      BY <1>1, <1>7, <3>1 DEF Wider
  <2> QED
    BY <2>1, <2>2
<1>9. Named(e, c, p, w, r)
  BY <1>5, <1>7, <1>8 DEF Named, Cells
<1> QED
  BY <1>9 DEF e

(* Two coordinates of the same part of the same entry are one.             *)
LEMMA PartUnique ==
  ASSUME NEW s, NEW w, NEW r, NEW k, Wider(s, w, r, k), Ranked(s, r), NEW c \in Cells(s, r),
         NEW p \in 0 .. k - 1, NEW e \in [1 .. r + 1 -> Nat], e[r + 1] = p, \A a \in 1 .. r : e[a] = c[a]
  PROVE  e = Append(c, p)
<1>1. Named(Append(c, p), c, p, w, r)
  BY PartIs
<1>2. r + 1 \in Nat /\ \A j \in 1 .. r + 1 : j # r + 1 => j \in 1 .. r
  BY DEF Ranked
<1> DEFINE f == Append(c, p)
<1> HIDE DEF f
<1>3. f \in [1 .. r + 1 -> Nat] /\ f[r + 1] = p /\ \A a \in 1 .. r : f[a] = c[a]
  BY <1>1 DEF Named, Cells, f
<1>4. \A j \in 1 .. r + 1 : e[j] = f[j]
  BY <1>2, <1>3
<1>5. e = f
  BY <1>2, <1>3, <1>4, SameCell
<1> QED
  BY <1>5 DEF f

(* Every coordinate of a stored tensor is the part of an entry.            *)
Parts(e, s, r, k) ==
  \E c \in Cells(s, r), p \in 0 .. k - 1 :
     e = Append(c, p) /\ p = e[r + 1] /\ \A a \in 1 .. r : c[a] = e[a]
LEMMA PartOf ==
  ASSUME NEW s, NEW w, NEW r, NEW k, Wider(s, w, r, k), Ranked(s, r), NEW e \in Cells(w, r + 1)
  PROVE  Parts(e, s, r, k)
<1> DEFINE c == [a \in 1 .. r |-> e[a]]
           p == e[r + 1]
<1>1. r \in Nat /\ e \in [1 .. r + 1 -> Nat] /\ \A a \in 1 .. r + 1 : e[a] < w[a]
  BY DEF Cells, Ranked
<1>2. r + 1 \in 1 .. r + 1 /\ \A a \in 1 .. r : a \in 1 .. r + 1
  BY <1>1
<1>3. p \in Nat /\ p < k
  BY <1>1, <1>2 DEF Wider
<1>4. c \in [1 .. r -> Nat]
  BY <1>1, <1>2
<1>5. \A a \in 1 .. r : c[a] = e[a]
  OBVIOUS
<1>6. \A a \in 1 .. r : c[a] < s[a]
  <2> TAKE a \in 1 .. r
  <2>1. e[a] < w[a] /\ w[a] = s[a] /\ c[a] = e[a]
    BY <1>1, <1>2, <1>5 DEF Wider
  <2> HIDE DEF c
  <2> QED
    BY <2>1
<1> HIDE DEF c
<1>7. c \in Cells(s, r)
  BY <1>4, <1>6 DEF Cells
<1>9. k \in Nat
  BY <1>2, RankedCells DEF Wider
<1>8. p \in 0 .. k - 1 /\ e[r + 1] = p
  BY <1>3, <1>9
<1> HIDE DEF p
<1>10. e = Append(c, p)
  BY <1>1, <1>5, <1>7, <1>8, PartUnique
<1> QED
  BY <1>5, <1>7, <1>8, <1>10 DEF Parts

(* The parts of an entry are stored side by side: row-major order.         *)
LEMMA PartOffset ==
  ASSUME NEW s, NEW w, NEW r, NEW k, Wider(s, w, r, k), Ranked(s, r), NEW c \in Cells(s, r), NEW p \in 0 .. k - 1
  PROVE  Offset(w, Append(c, p)) = Offset(s, c) * k + p
<1> DEFINE e == Append(c, p)
<1>1. Named(e, c, p, w, r)
  BY PartIs
<1>2. r \in Nat /\ s \in [1 .. r -> Int] /\ c \in [1 .. r -> Int]
  BY DEF Ranked, Dims, Cells
<1>3. w \in [1 .. r + 1 -> Int] /\ w[r + 1] = k /\ \A a \in 1 .. r : w[a] = s[a]
  BY DEF Wider, Ranked, Dims
<1> HIDE DEF e
<1>4. e \in [1 .. r + 1 -> Int] /\ e[r + 1] = p /\ \A a \in 1 .. r : e[a] = c[a]
  <2>1. e \in [1 .. r + 1 -> Nat]
    BY <1>1 DEF Named, Cells
  <2> QED
    BY <1>1, <2>1 DEF Named
<1>5. PICK x \in [0 .. r + 1 -> Int] :
         /\ x[0] = 0 /\ Offset(w, e) = x[r + 1]
         /\ \A j \in 0 .. r : x[j + 1] = x[j] * w[j + 1] + e[j + 1]
  <2> DEFINE N == r + 1
  <2>1. N \in Nat /\ 0 .. N - 1 = 0 .. r
    BY <1>2
  <2>2. w \in [1 .. N -> Int] /\ e \in [1 .. N -> Int]
    BY <1>3, <1>4
  <2> HIDE DEF N
  <2>3. \E x \in [0 .. N -> Int] :
         /\ x[0] = 0 /\ Offset(w, e) = x[N]
         /\ \A j \in 0 .. N - 1 : x[j + 1] = x[j] * w[j + 1] + e[j + 1]
    BY ONLY <2>1, <2>2, OffsetFold
  <2> QED
    BY <2>1, <2>3 DEF N
<1>6. PICK y \in [0 .. r -> Int] :
         /\ y[0] = 0 /\ Offset(s, c) = y[r]
         /\ \A j \in 0 .. r - 1 : y[j + 1] = y[j] * s[j + 1] + c[j + 1]
  BY <1>2, OffsetFold
<1> DEFINE A == {j \in 0 .. r : x[j] = y[j]}
<1>7. 0 \in A
  BY <1>2, <1>5, <1>6
<1>8. ASSUME NEW j \in 0 .. r, j \in A, j < r PROVE j + 1 \in A
  <2>1. j \in 0 .. r - 1 /\ j + 1 \in 0 .. r /\ j + 1 \in 1 .. r
    BY <1>2, <1>8
  <2>2. x[j + 1] = x[j] * w[j + 1] + e[j + 1] /\ y[j + 1] = y[j] * s[j + 1] + c[j + 1]
        /\ w[j + 1] = s[j + 1] /\ e[j + 1] = c[j + 1]
    BY <1>3, <1>4, <1>5, <1>6, <2>1
  <2>3. x[j] = y[j]
    BY <1>8
  <2> QED
    BY <2>1, <2>2, <2>3
<1> HIDE DEF A
<1>9. 0 .. r \subseteq A
  BY ONLY <1>2, <1>7, <1>8, UpTo
<1>10. r \in A /\ r \in 0 .. r
  BY <1>2, <1>9
<1>11. x[r] = y[r] /\ x[r + 1] = x[r] * w[r + 1] + e[r + 1]
  BY <1>5, <1>10 DEF A
<1>12. Offset(w, e) = Offset(s, c) * k + p
  BY <1>3, <1>4, <1>5, <1>6, <1>11
<1> QED
  BY <1>12 DEF e

(* Two shapes of one rank that agree on every axis are one.                *)
LEMMA SameShape ==
  ASSUME NEW r, NEW s, NEW w, Ranked(s, r), Ranked(w, r), \A a \in 1 .. r : s[a] = w[a]
  PROVE  s = w
<1>1. r \in Nat /\ s \in [1 .. r -> Dims] /\ w \in [1 .. r -> Dims]
  BY DEF Ranked
<1> QED
  BY <1>1

(* unsqueeze(-1): one part of every entry.                                 *)
OnePart(u, t, m) ==
  /\ Numeric(u, m + 1) /\ u.shape = Append(t.shape, 1)
  /\ Wider(t.shape, u.shape, m, 1)
  /\ \A d \in Cells(t.shape, m) : u.at[Append(d, 0)] = t.at[d]
LEMMA OnePartIs ==
  ASSUME NEW t, NEW m, Numeric(t, m)
  PROVE  OnePart(Reshape(t, Append(t.shape, 1)), t, m)
<1> DEFINE s == t.shape
           w == Append(s, 1)
           axes == [i \in 1 .. m |-> i]
           u == Reshape(t, w)
<1>1. m \in Nat /\ Ranked(s, m) /\ t.at \in [Cells(s, m) -> Int]
  BY DEF Numeric, Ranked
<1>2. Wider(s, w, m, 1)
  BY <1>1, WiderIs DEF Dims
<1> HIDE DEF s, w
<1>3. axes \in [1 .. m -> 1 .. m + 1] /\ \A i \in 1 .. m : axes[i] = i
  BY <1>1
<1> HIDE DEF axes
<1>4. \A a \in 1 .. m + 1 : (\A i \in 1 .. m : axes[i] # a) => w[a] = 1
  <2> TAKE a \in 1 .. m + 1
  <2> HAVE \A i \in 1 .. m : axes[i] # a
  <2>1. a \notin 1 .. m
    BY <1>3
  <2>2. a = m + 1
    BY <1>1, <2>1
  <2> QED
    BY <1>2, <2>2 DEF Wider
<1>5. Widens(w, m + 1, s, m, axes)
  BY <1>1, <1>2, <1>3, <1>4 DEF Widens, Wider
<1>6. Widened(t, m, w, m + 1, axes)
  BY <1>5, WidenIs DEF s
<1>7. /\ Filled(u, w, m + 1)
      /\ \A c \in Cells(w, m + 1) : u.at[c] = t.at[Pick(c, axes)] /\ Pick(c, axes) \in Cells(s, m)
  BY <1>6 DEF Widened, s
<1>8. Numeric(u, m + 1) /\ u.shape = w
  <2>1. \A c \in Cells(w, m + 1) : u.at[c] \in Int
    BY <1>1, <1>7
  <2> HIDE DEF u
  <2>2. u.shape = w /\ u.at = [c \in Cells(w, m + 1) |-> u.at[c]]
    BY <1>7 DEF Filled
  <2>3. u.at \in [Cells(w, m + 1) -> Int]
    BY <2>1, <2>2
  <2> QED
    BY <1>2, <2>2, <2>3 DEF Numeric, Wider
<1>9. ASSUME NEW d \in Cells(s, m) PROVE u.at[Append(d, 0)] = t.at[d]
  <2> DEFINE c == Append(d, 0)
  <2>1. Named(c, d, 0, w, m)
    BY <1>1, <1>2, PartIs
  <2> HIDE DEF c
  <2>2. c \in Cells(w, m + 1) /\ \A a \in 1 .. m : c[a] = d[a]
    BY <2>1 DEF Named
  <2>3. d = [i \in 1 .. m |-> d[i]]
    BY DEF Cells
  <2>4. Pick(c, axes) = d
    BY <1>3, <2>2, <2>3 DEF Pick
  <2> HIDE DEF u
  <2> QED
    BY <1>7, <2>2, <2>4 DEF c
<1> HIDE DEF u
<1>10. OnePart(u, t, m)
  BY <1>2, <1>8, <1>9 DEF OnePart, w, s
<1> QED
  BY <1>10 DEF u, w, s

(* The tensor x of pairs is stored in a, the two parts along the last axis. *)
Pairs(x, a, m) ==
  /\ Ranked(x.shape, m) /\ Numeric(a, m + 1) /\ a.shape = Append(x.shape, 2)
  /\ \A d \in Cells(x.shape, m) : x.at[d] = <<a.at[Append(d, 0)], a.at[Append(d, 1)]>>

(* _cxt: the real parts and the imaginary ones, side by side.              *)
LEMMA CxtIs ==
  ASSUME NEW re, NEW im, NEW m, Numeric(re, m), Numeric(im, m), im.shape = re.shape,
         NEW x, x.shape = re.shape,
         \A d \in Cells(re.shape, m) : x.at[d] = <<re.at[d], im.at[d]>>
  PROVE  Pairs(x, Cxt(re, im), m)
<1> DEFINE s == re.shape
           u == Reshape(re, Append(re.shape, 1))
           v == Reshape(im, Append(im.shape, 1))
           k == m + 1
           a == Cat(u, v, k)
           w == Append(s, 2)
<1>1. m \in Nat /\ Ranked(s, m) /\ Rank(re) = m
  BY RankedCells DEF Numeric, Ranked, Rank
<1>2. OnePart(u, re, m) /\ OnePart(v, im, m)
  BY OnePartIs
<1>3. Cxt(re, im) = a
  BY <1>1 DEF Cxt
<1>4. Wider(s, w, m, 2)
  BY <1>1, WiderIs DEF Dims
<1> HIDE DEF u, v, w
<1>5. k \in 1 .. k /\ k \in Nat /\ \A i \in 1 .. k : i # k => i \in 1 .. m
  BY <1>1
<1>6. /\ Numeric(u, k) /\ u.shape[k] = 1 /\ v.shape[k] = 1
      /\ Agrees(v, u.shape, k, k)
  <2>1. Numeric(u, k) /\ Wider(s, u.shape, m, 1) /\ Numeric(v, k) /\ Wider(s, v.shape, m, 1)
    BY <1>2 DEF OnePart
  <2>2. \A i \in 1 .. k : i # k => v.shape[i] = u.shape[i]
    BY <1>5, <2>1 DEF Wider
  <2> QED
    BY <2>1, <2>2 DEF Wider, Agrees
<1>7. Ended(u, v, k, k)
  <2> HIDE DEF k
  <2> QED
    BY <1>5, <1>6, CatIs
<1> HIDE DEF a
<1>8. /\ Numeric(a, k) /\ (\A i \in 1 .. k : i # k => a.shape[i] = u.shape[i]) /\ a.shape[k] = 2
  <2>1. Agrees(a, u.shape, k, k) /\ a.shape[k] = u.shape[k] + v.shape[k]
    BY <1>7 DEF Ended, a
  <2> QED
    BY <1>6, <2>1 DEF Agrees
<1>9. a.shape = w
  <2>1. \A i \in 1 .. k : a.shape[i] = w[i]
    <3> TAKE i \in 1 .. k
    <3>1. CASE i = k
      BY <1>4, <1>8, <3>1 DEF Wider
    <3>2. CASE i # k
      <4>1. i \in 1 .. m /\ a.shape[i] = u.shape[i]
        BY <1>5, <1>8, <3>2
      <4>2. Wider(s, u.shape, m, 1)
        BY <1>2 DEF OnePart
      <4> QED
        BY <1>4, <4>1, <4>2 DEF Wider
    <3> QED
      BY <3>1, <3>2
  <2>2. Ranked(a.shape, k) /\ Ranked(w, k)
    BY <1>4, <1>8 DEF Numeric, Wider
  <2> QED
    BY <2>1, <2>2, SameShape
<1>10. ASSUME NEW d \in Cells(s, m)
       PROVE  a.at[Append(d, 0)] = re.at[d] /\ a.at[Append(d, 1)] = im.at[d]
  <2> DEFINE c0 == Append(d, 0)
             c1 == Append(d, 1)
  <2>1. Named(c0, d, 0, w, m) /\ Named(c1, d, 1, w, m)
    BY <1>1, <1>4, PartIs
  <2>2. c0 \in Cells(a.shape, k) /\ c0[k] = 0 /\ c1 \in Cells(a.shape, k) /\ c1[k] = 1
        /\ \A i \in 1 .. m : c1[i] = d[i]
    BY <1>9, <2>1 DEF Named
  <2>3. u.at[c0] = re.at[d]
    BY <1>2 DEF OnePart
  <2>4. v.at[c0] = im.at[d]
    BY <1>2 DEF OnePart
  <2>5. Wider(s, u.shape, m, 1)
    BY <1>2 DEF OnePart
  <2>6. \A e \in [1 .. k -> Nat] : e[k] = 0 /\ (\A i \in 1 .. m : e[i] = d[i]) => e = c0
    BY <1>1, <2>5, PartUnique
  <2> HIDE DEF c0, c1
  <2>7. a.at[c0] = u.at[c0]
    <3>1. c0[k] < u.shape[k]
      BY <1>6, <2>2
    <3> HIDE DEF k
    <3> QED
      BY <1>7, <2>2, <3>1 DEF Ended, a
  <2>8. a.at[c1] = v.at[Shift(c1, k, 1)]
    <3>1. ~(c1[k] < u.shape[k])
      BY <1>6, <2>2
    <3> HIDE DEF k
    <3> QED
      BY <1>6, <1>7, <2>2, <3>1 DEF Ended, a
  <2>9. Shift(c1, k, 1) = c0
    <3> DEFINE e == Shift(c1, k, 1)
    <3>1. c1 \in [1 .. k -> Nat]
      BY <2>2 DEF Cells
    <3>2. e \in [1 .. k -> Nat] /\ e[k] = c1[k] - 1 /\ \A i \in 1 .. k : i # k => e[i] = c1[i]
      <4> HIDE DEF k, e
      <4>1. 1 \in Nat /\ 1 <= c1[k] /\ k \in Nat /\ k \in 1 .. k
        BY <1>5, <2>2
      <4>2. /\ Shift(c1, k, 1) \in [1 .. k -> Nat] /\ Shift(c1, k, 1)[k] = c1[k] - 1
            /\ \A i \in 1 .. k : i # k => Shift(c1, k, 1)[i] = c1[i]
        BY ONLY <3>1, <4>1, ShiftIs
      <4> QED
        BY <4>2 DEF e
    <3> HIDE DEF e
    <3>3. e[k] = 0 /\ \A i \in 1 .. m : e[i] = d[i]
      <4>1. \A i \in 1 .. m : i \in 1 .. k /\ i # k
        BY <1>1
      <4> QED
        BY <2>2, <3>2, <4>1
    <3>4. e = c0
      BY <2>6, <3>2, <3>3
    <3> QED
      BY <3>4 DEF e
  <2>10. a.at[c0] = re.at[d] /\ a.at[c1] = im.at[d]
    BY <2>3, <2>4, <2>7, <2>8, <2>9
  <2> QED
    BY <2>10 DEF c0, c1
<1>11. \A d \in Cells(s, m) : x.at[d] = <<a.at[Append(d, 0)], a.at[Append(d, 1)]>>
  BY <1>10
<1>12. Pairs(x, a, m)
  BY <1>1, <1>8, <1>9, <1>11 DEF Pairs, w
<1> QED
  BY <1>3, <1>12

(* A node of the layout with a complex operand.                            *)
Wide(n) == n \in Nodes /\ n.op \in LayoutOps /\ IsComplex(n) /\ ~Unsupported(n)
(* What its operands are: tensors of pairs of Nx's own shapes, stored.     *)
Stored(n, i) ==
  /\ Pairs(Operand(n, i), Promote(n, i), Len(Operand(n, i).shape))
  /\ ShapeOf(n, i) = Operand(n, i).shape
(* The stored tensor t answers node n with Nx's shape and Nx's pairs.      *)
AnswersPairs(t, n) ==
  /\ Filled(t, Append(n.shape, 2), Len(n.shape) + 1)
  /\ \A c \in Cells(n.shape, Len(n.shape)) :
        NxLayout(n, c) = <<t.at[Append(c, 0)], t.at[Append(c, 1)]>>

(* A stored complex tensor is the tensor of its pairs.                     *)
ReadAs(t, s, m) ==
  /\ Logical(t, TRUE).shape = s
  /\ Logical(t, TRUE).at = [d \in Cells(s, m) |-> <<t.at[Append(d, 0)], t.at[Append(d, 1)]>>]
LEMMA LogicalIs ==
  ASSUME NEW t, NEW s, NEW m, Ranked(s, m), t.shape = Append(s, 2)
  PROVE  ReadAs(t, s, m)
<1>1. Coords(s) = Cells(s, m)
  BY RankedCells
<1> DEFINE w == t.shape
<1>2. Wider(s, w, m, 2)
  BY WiderIs DEF Dims
<1>3. Front(t.shape) = s
  <2> HIDE DEF w
  <2>1. m \in Nat /\ w \in [1 .. m + 1 -> Dims]
    BY <1>2 DEF Ranked, Wider
  <2>2. Front(w) = [j \in 1 .. m |-> w[j]]
    BY <2>1, FrontIs
  <2>3. s = [j \in 1 .. m |-> w[j]]
    BY <1>2 DEF Ranked, Wider
  <2> QED
    BY <2>2, <2>3 DEF w
<1> DEFINE x == Logical(t, TRUE)
           f == [c \in Coords(s) |-> <<t.at[Append(c, 0)], t.at[Append(c, 1)]>>]
<1>4. x = [shape |-> s, at |-> f]
  BY <1>3 DEF Logical, Tensor
<1>5. f = [d \in Cells(s, m) |-> <<t.at[Append(d, 0)], t.at[Append(d, 1)]>>]
  BY <1>1
<1> HIDE DEF f, x
<1>6. x.shape = s /\ x.at = f
  BY ONLY <1>4
<1> QED
  BY <1>5, <1>6 DEF ReadAs, x

(* A complex operand: its entries are the pairs it stores.                 *)
LEMMA ComplexOperand ==
  ASSUME NEW t, IsTensor(t, TRUE)
  PROVE  Pairs(Logical(t, TRUE), t, Len(Logical(t, TRUE).shape)) /\ Logical(t, TRUE).shape = Front(t.shape)
<1> DEFINE w == t.shape
           m == Len(w) - 1
           s == [j \in 1 .. m |-> w[j]]
<1>1. w \in Seq(Dims) /\ w # <<>> /\ Last(w) = 2 /\ t.at \in [Coords(w) -> Int]
  BY DEF IsTensor
<1>2. Len(w) \in Nat /\ Len(w) # 0 /\ w \in [1 .. Len(w) -> Dims]
  BY <1>1
<1>3. m \in Nat /\ m + 1 = Len(w)
  BY <1>2
<1> HIDE DEF m
<1>4. w \in [1 .. m + 1 -> Dims]
  BY <1>2, <1>3
<1>5. Front(w) = s /\ Last(w) = w[m + 1]
  <2> HIDE DEF w
  <2> QED
    BY <1>3, <1>4, FrontIs
<1>6. \A j \in 1 .. m : j \in 1 .. m + 1
  BY <1>3
<1>7. s \in [1 .. m -> Dims] /\ \A j \in 1 .. m : s[j] = w[j]
  BY <1>4, <1>6
<1> HIDE DEF s
<1>8. Ranked(s, m) /\ Ranked(w, m + 1)
  BY <1>3, <1>4, <1>7 DEF Ranked
<1>9. Wider(s, Append(s, 2), m, 2)
  BY <1>8, WiderIs DEF Dims
<1>10. w = Append(s, 2)
  <2> DEFINE v == Append(s, 2)
  <2>0. \A a \in 1 .. m + 1 : a = m + 1 \/ a \in 1 .. m
    BY <1>3
  <2>1. \A a \in 1 .. m + 1 : w[a] = v[a]
    BY <1>1, <1>5, <1>7, <1>9, <2>0 DEF Wider
  <2>2. Ranked(v, m + 1)
    BY <1>9 DEF Wider
  <2> HIDE DEF v, w
  <2>3. w = v
    BY <1>8, <2>1, <2>2, SameShape
  <2> QED
    BY <2>3 DEF v
<1>11. Coords(w) = Cells(w, m + 1)
  BY <1>8, RankedCells
<1>12. Numeric(t, m + 1)
  BY <1>1, <1>8, <1>11 DEF Numeric
<1> DEFINE x == Logical(t, TRUE)
<1>13. x.shape = s /\ x.at = [d \in Cells(s, m) |-> <<t.at[Append(d, 0)], t.at[Append(d, 1)]>>]
  <2> HIDE DEF x
  <2>1. ReadAs(t, s, m)
    BY <1>8, <1>10, LogicalIs
  <2> QED
    BY <2>1 DEF x, ReadAs
<1> HIDE DEF x
<1>14. Len(x.shape) = m
  BY <1>8, <1>13, RankedCells
<1>15. Pairs(x, t, m)
  BY <1>8, <1>10, <1>12, <1>13 DEF Pairs
<1> QED
  BY <1>5, <1>13, <1>14, <1>15 DEF x

(* _promote: a real operand is stored with a zero imaginary part.          *)
LEMMA PromotedOperand ==
  ASSUME NEW t, NEW m, Numeric(t, m)
  PROVE  Pairs(Each(t, LAMBDA v : <<v, 0>>), Promoted(t), m)
<1> DEFINE s == t.shape
           im == Each(t, LAMBDA v : v * 0)
           x == Each(t, LAMBDA v : <<v, 0>>)
<1>1. Ranked(s, m) /\ t.at \in [Cells(s, m) -> Int] /\ Coords(s) = Cells(s, m)
  BY RankedCells DEF Numeric
<1>2. im.shape = s /\ im.at = [d \in Cells(s, m) |-> t.at[d] * 0]
  BY <1>1 DEF Each, Tensor
<1>3. x.shape = s /\ x.at = [d \in Cells(s, m) |-> <<t.at[d], 0>>]
  BY <1>1 DEF Each, Tensor
<1> HIDE DEF im, x
<1>4. \A d \in Cells(s, m) : im.at[d] = 0
  BY <1>1, <1>2
<1>5. Numeric(im, m)
  <2>1. im.at \in [Cells(s, m) -> Int]
    BY <1>2, <1>4
  <2> QED
    BY <1>1, <1>2, <2>1 DEF Numeric
<1>6. \A d \in Cells(s, m) : x.at[d] = <<t.at[d], im.at[d]>>
  BY <1>3, <1>4
<1>7. Pairs(x, Cxt(t, im), m)
  BY <1>2, <1>3, <1>5, <1>6, CxtIs
<1> QED
  BY <1>7 DEF x, im, Promoted

(* An operand of a complex node is stored as pairs: as it is, or promoted. *)
LEMMA WideNode ==
  ASSUME NEW n, Wide(n)
  PROVE  /\ LayoutAsks(n) /\ Ranked(n.shape, Len(n.shape)) /\ Expected(n) = Append(n.shape, 2)
         /\ n.dtype = "c64" /\ n.op \in ComplexLayouts
         /\ n.ins = [i \in 1 .. Len(n.ins) |-> n.ins[i]] /\ Len(n.ins) \in Nat
         /\ \A i \in 1 .. Len(n.ins) : Stored(n, i)
         /\ n.op = "select" /\ 1 \in 1 .. Len(n.ins) =>
               ShapeOf(n, 1) = In(n, 1).shape /\ Numeric(In(n, 1), Len(In(n, 1).shape))
<1>1. WellFormed(n)
  BY NodesAssumption DEF Wide
<1>2. LayoutAsks(n) /\ Ranked(n.shape, Len(n.shape)) /\ n.dtype = "c64" /\ n.op \in ComplexLayouts
  <2>1. LayoutAsks(n) /\ n.dtype = "c64" /\ n.shape \in Seq(Dims)
    BY <1>1 DEF WellFormed, Wide
  <2>2. n.op \in ComplexLayouts
    BY DEF Unsupported, Wide
  <2> QED
    BY <2>1, <2>2, SeqRanked
<1>3. Expected(n) = Append(n.shape, 2)
  BY <1>2 DEF Expected
<1>4. n.complex \in Seq(BOOLEAN) /\ Len(n.ins) = Len(n.complex) /\ DOMAIN n.ins = 1 .. Len(n.ins)
      /\ Len(n.ins) \in Nat /\ n.ins = [i \in 1 .. Len(n.ins) |-> n.ins[i]]
  BY <1>1 DEF WellFormed
<1>5. ASSUME NEW i \in 1 .. Len(n.ins), n.complex[i] = FALSE
      PROVE  ShapeOf(n, i) = In(n, i).shape /\ Numeric(In(n, i), Len(In(n, i).shape))
  <2>1. IsTensor(In(n, i), FALSE)
    BY <1>1, <1>4, <1>5 DEF WellFormed
  <2>2. Ranked(In(n, i).shape, Len(In(n, i).shape))
    BY <2>1, SeqRanked DEF IsTensor
  <2>3. Numeric(In(n, i), Len(In(n, i).shape))
    BY <2>1, <2>2, RankedCells DEF IsTensor, Numeric
  <2> QED
    BY <1>5, <2>3 DEF ShapeOf
<1>6. ASSUME NEW i \in 1 .. Len(n.ins) PROVE Stored(n, i)
  <2>1. n.complex[i] \in BOOLEAN
    BY <1>4
  <2>2. CASE n.complex[i] = TRUE
    <3>1. IsTensor(In(n, i), TRUE)
      BY <1>1, <1>4, <2>2 DEF WellFormed
    <3>2. Operand(n, i) = Logical(In(n, i), TRUE)
      BY <2>2 DEF Operand, Wide
    <3>3. Promote(n, i) = In(n, i) /\ ShapeOf(n, i) = Front(In(n, i).shape)
      BY <2>2 DEF Promote, ShapeOf
    <3> DEFINE t == In(n, i)
    <3>4. Pairs(Logical(t, TRUE), t, Len(Logical(t, TRUE).shape)) /\ Logical(t, TRUE).shape = Front(t.shape)
      BY <3>1, ComplexOperand
    <3> QED
      BY <3>2, <3>3, <3>4 DEF Stored
  <2>3. CASE n.complex[i] = FALSE
    <3> DEFINE t == In(n, i)
    <3>1. ShapeOf(n, i) = t.shape /\ Numeric(t, Len(t.shape))
      BY <1>5, <2>3
    <3>2. Operand(n, i) = Each(t, LAMBDA v : <<v, 0>>)
      BY <2>3 DEF Operand, Wide
    <3>3. Promote(n, i) = Promoted(t)
      BY <2>3 DEF Promote
    <3>4. Operand(n, i).shape = t.shape
      BY <3>2 DEF Each, Tensor
    <3>5. Pairs(Operand(n, i), Promote(n, i), Len(t.shape))
      BY <3>1, <3>2, <3>3, PromotedOperand
    <3> QED
      BY <3>1, <3>4, <3>5 DEF Stored
  <2> QED
    BY <2>1, <2>2, <2>3
<1>7. n.op = "select" /\ 1 \in 1 .. Len(n.ins) => n.complex[1] = FALSE
  <2> SUFFICES ASSUME n.op = "select", 1 \in 1 .. Len(n.ins) PROVE n.complex[1] = FALSE
    OBVIOUS
  <2>1. ~n.complex[1] /\ n.complex[1] \in BOOLEAN
    BY <1>4 DEF Unsupported, Wide
  <2> QED
    BY <2>1
<1> QED
  BY <1>2, <1>3, <1>4, <1>5, <1>6, <1>7

-----------------------------------------------------------------------------
(* Complex tensors: one lemma per operation of _apply_complex.             *)

(* Each part of the answer is the same part of the entry that Nx takes.    *)
Sends(t, n, x, a, m) ==
  /\ Filled(t, Append(n.shape, 2), Len(n.shape) + 1)
  /\ \A c \in Cells(n.shape, Len(n.shape)), p \in 0 .. 1 : \E d \in Cells(x.shape, m) :
        NxLayout(n, c) = x.at[d] /\ t.at[Append(c, p)] = a.at[Append(d, p)]
LEMMA PairsSent ==
  ASSUME NEW t, NEW n, NEW x, NEW a, NEW m, Pairs(x, a, m), Sends(t, n, x, a, m)
  PROVE  AnswersPairs(t, n)
<1>1. ASSUME NEW c \in Cells(n.shape, Len(n.shape))
      PROVE  NxLayout(n, c) = <<t.at[Append(c, 0)], t.at[Append(c, 1)]>>
  <2>1. PICK d \in Cells(x.shape, m) : NxLayout(n, c) = x.at[d] /\ t.at[Append(c, 0)] = a.at[Append(d, 0)]
    BY 0 \in 0 .. 1 DEF Sends
  <2>2. PICK e \in Cells(x.shape, m) : NxLayout(n, c) = x.at[e] /\ t.at[Append(c, 1)] = a.at[Append(e, 1)]
    BY 1 \in 0 .. 1 DEF Sends
  <2>3. /\ NxLayout(n, c) = <<a.at[Append(d, 0)], a.at[Append(d, 1)]>>
        /\ NxLayout(n, c) = <<a.at[Append(e, 0)], a.at[Append(e, 1)]>>
    BY <2>1, <2>2 DEF Pairs
  <2> DEFINE d1 == a.at[Append(d, 1)]
             e1 == a.at[Append(e, 1)]
             d0 == a.at[Append(d, 0)]
             e0 == a.at[Append(e, 0)]
  <2>4. <<d0, d1>> = <<e0, e1>>
    BY <2>3
  <2> HIDE DEF d0, d1, e0, e1
  <2>5. d1 = e1
    BY ONLY <2>4
  <2> QED
    BY <2>1, <2>2, <2>3, <2>5 DEF d0, d1, e0, e1
<1> QED
  BY <1>1 DEF AnswersPairs, Sends

(* The first operand of a complex node, with its stored parts.             *)
FirstStored(n, x, a, m) ==
  /\ x = Operand(n, 1) /\ a = Promote(n, 1) /\ m = Len(x.shape) /\ m \in Nat
  /\ Pairs(x, a, m) /\ ShapeOf(n, 1) = x.shape
  /\ Ranked(x.shape, m) /\ Ranked(a.shape, m + 1) /\ Wider(x.shape, a.shape, m, 2)
  /\ Apply(n) = ApplyComplex(n, a, Promote(n, 2))
LEMMA FirstPair ==
  ASSUME NEW n, Wide(n), Len(n.ins) = 1
  PROVE  FirstStored(n, Operand(n, 1), Promote(n, 1), Len(Operand(n, 1).shape))
<1> DEFINE x == Operand(n, 1)
           a == Promote(n, 1)
           m == Len(x.shape)
<1>1. Stored(n, 1)
  <2>1. 1 \in 1 .. Len(n.ins)
    OBVIOUS
  <2> QED
    BY <2>1, WideNode
<1>2. Pairs(x, a, m) /\ ShapeOf(n, 1) = x.shape
  BY <1>1 DEF Stored
<1> HIDE DEF x, a
<1>3. Ranked(x.shape, m) /\ Ranked(a.shape, m + 1) /\ a.shape = Append(x.shape, 2)
  BY <1>2 DEF Pairs, Numeric
<1>4. Wider(x.shape, Append(x.shape, 2), m, 2)
  <2>1. 2 \in Dims
    BY DEF Dims
  <2> HIDE DEF m
  <2> QED
    BY <1>3, <2>1, WiderIs
<1>5. Apply(n) = ApplyComplex(n, a, Promote(n, 2))
  BY DEF Apply, Wide, a
<1>6. m \in Nat
  BY <1>3 DEF Ranked
<1>7. FirstStored(n, x, a, m)
  BY <1>2, <1>3, <1>4, <1>5, <1>6 DEF FirstStored, x, a
<1> QED
  BY <1>7 DEF x, a

(* The result's stored shape.                                              *)
LEMMA ResultWider ==
  ASSUME NEW n, Wide(n)
  PROVE  /\ Ranked(n.shape, Len(n.shape)) /\ Len(n.shape) \in Nat
         /\ Wider(n.shape, Append(n.shape, 2), Len(n.shape), 2)
<1>1. Ranked(n.shape, Len(n.shape))
  BY WideNode
<1>2. 2 \in Dims
  BY DEF Dims
<1> DEFINE r == Len(n.shape)
<1> HIDE DEF r
<1>3. Wider(n.shape, Append(n.shape, 2), r, 2)
  BY <1>1, <1>2, WiderIs DEF r
<1> QED
  BY <1>1, <1>3 DEF r, Ranked

(* _apply_complex "flip": the parts keep their places.                     *)
LEMMA WideReverseIsNx ==
  ASSUME NEW n, Wide(n), n.op = "reverse"
  PROVE  AnswersPairs(Apply(n), n)
<1> DEFINE x == Operand(n, 1)
           a == Promote(n, 1)
           m == Len(x.shape)
           axes == Range(n.axes)
           t == Flip(a, axes)
<1>1. Len(n.ins) = 1 /\ n.axes \in Seq(DOMAIN ShapeOf(n, 1)) /\ n.shape = ShapeOf(n, 1)
  BY WideNode DEF LayoutAsks
<1>2. FirstStored(n, x, a, m)
  BY <1>1, FirstPair
<1>3. /\ m \in Nat /\ Ranked(x.shape, m) /\ Ranked(a.shape, m + 1) /\ Wider(x.shape, a.shape, m, 2)
      /\ Pairs(x, a, m) /\ n.shape = x.shape /\ Apply(n) = ApplyComplex(n, a, Promote(n, 2))
  BY <1>1, <1>2 DEF FirstStored
<1>4. Apply(n) = t
  BY <1>3 DEF ApplyComplex
<1>5. axes \subseteq 1 .. m /\ m + 1 \notin axes
  <2>1. DOMAIN x.shape = 1 .. m
    BY <1>3, RankedCells
  <2>2. n.axes \in Seq(1 .. m)
    BY <1>1, <1>3, <2>1
  <2>3. Range(n.axes) \subseteq 1 .. m
    BY <2>2 DEF Range
  <2> QED
    BY <1>3, <2>3
<1> HIDE DEF axes
<1>6. Flipped(a, axes, m + 1)
  BY <1>3, FlipIs
<1>7. Filled(t, Append(n.shape, 2), Len(n.shape) + 1) /\ Len(n.shape) = m
  <2>1. Len(n.shape) = m
    BY <1>3
  <2> QED
    BY <1>3, <1>6, <2>1 DEF Flipped, Pairs
<1> HIDE DEF x, a
<1>8. ASSUME NEW c \in Cells(n.shape, m), NEW p \in 0 .. 1
      PROVE  \E d \in Cells(x.shape, m) :
                NxLayout(n, c) = x.at[d] /\ t.at[Append(c, p)] = a.at[Append(d, p)]
  <2> DEFINE e == Append(c, p)
             There(d) == \A i \in 1 .. m : IF i \in axes THEN d[i] + c[i] = x.shape[i] - 1
                                                         ELSE d[i] = c[i]
             g == CHOOSE d \in Coords(x.shape) : There(d)
  <2>1. Named(e, c, p, a.shape, m)
    BY <1>3, PartIs
  <2> HIDE DEF e
  <2>2. PICK f \in Cells(a.shape, m + 1) :
           /\ t.at[e] = a.at[f]
           /\ \A i \in 1 .. m + 1 : IF i \in axes THEN f[i] + e[i] = a.shape[i] - 1 ELSE f[i] = e[i]
    BY <1>6, <2>1 DEF Flipped, Named
  <2>3. PICK d \in Cells(x.shape, m), q \in 0 .. 1 :
           f = Append(d, q) /\ q = f[m + 1] /\ \A i \in 1 .. m : d[i] = f[i]
    <3>1. 0 .. 2 - 1 = 0 .. 1
      OBVIOUS
    <3>2. Parts(f, x.shape, m, 2)
      BY <1>3, PartOf
    <3> QED
      BY <3>1, <3>2 DEF Parts
  <2>4. m + 1 \in 1 .. m + 1 /\ \A i \in 1 .. m : i \in 1 .. m + 1
    BY <1>3
  <2>5. q = p
    BY <1>5, <2>1, <2>2, <2>3, <2>4 DEF Named
  <2>6. There(d)
    <3> TAKE i \in 1 .. m
    <3>1. d[i] = f[i] /\ e[i] = c[i] /\ a.shape[i] = x.shape[i]
      BY <1>3, <2>1, <2>3 DEF Named, Wider
    <3>2. IF i \in axes THEN f[i] + e[i] = a.shape[i] - 1 ELSE f[i] = e[i]
      BY <2>2, <2>4
    <3> QED
      BY <3>1, <3>2
  <2>7. Coords(x.shape) = Cells(x.shape, m)
    BY <1>3, RankedCells
  <2>8. g \in Cells(x.shape, m) /\ There(g)
    BY <2>6, <2>7
  <2> HIDE DEF g
  <2>9. \A i \in 1 .. m : x.shape[i] \in Nat /\ c[i] \in Nat /\ d[i] \in Nat /\ g[i] \in Nat
    <3>1. c \in Cells(x.shape, m)
      BY <1>3
    <3> QED
      BY <1>3, <2>8, <3>1, RankedCells DEF Cells
  <2>10. \A i \in 1 .. m : d[i] = g[i]
    BY <2>6, <2>8, <2>9
  <2>11. d = g
    BY <1>3, <2>8, <2>10, SameCell DEF Cells
  <2>12. Len(c) = m
    BY <1>3, SeqIs DEF Cells
  <2>13. NxLayout(n, c) = x.at[g]
    BY <2>12 DEF NxLayout, g, x, axes
  <2> QED
    BY <2>2, <2>3, <2>5, <2>11, <2>13 DEF e
<1>9. Sends(t, n, x, a, m)
  BY <1>7, <1>8 DEF Sends
<1>10. AnswersPairs(t, n)
  BY <1>3, <1>9, PairsSent
<1> QED
  BY <1>4, <1>10

(* A list with one more entry.                                             *)
OneLonger(w, c, y, m, S) ==
  /\ w \in [1 .. m + 1 -> S] /\ w[m + 1] = y /\ \A a \in 1 .. m : w[a] = c[a]
LEMMA OneLongerIs ==
  ASSUME NEW m \in Nat, NEW S, NEW c \in [1 .. m -> S], NEW y \in S
  PROVE  OneLonger(Append(c, y), c, y, m, S)
<1> DEFINE w == Append(c, y)
<1>1. w = [j \in 1 .. m + 1 |-> IF j = m + 1 THEN y ELSE c[j]]
  <2>1. \A z : Append(c, z) = [j \in 1 .. m + 1 |-> IF j = m + 1 THEN z ELSE c[j]]
    BY m \in Nat, c \in [1 .. m -> S], AppendIs
  <2> QED
    BY <2>1
<1> HIDE DEF w
<1>2. \A j \in 1 .. m + 1 : j # m + 1 => j \in 1 .. m
  OBVIOUS
<1>3. w \in [1 .. m + 1 -> S]
  BY <1>1, <1>2
<1>4. m + 1 \in 1 .. m + 1 /\ \A a \in 1 .. m : a \in 1 .. m + 1 /\ a # m + 1
  OBVIOUS
<1>5. w[m + 1] = y /\ \A a \in 1 .. m : w[a] = c[a]
  BY <1>1, <1>4
<1>6. OneLonger(w, c, y, m, S)
  BY <1>3, <1>5 DEF OneLonger
<1> QED
  BY <1>6 DEF w

(* A stored coordinate names a part of an entry, whatever its other axes.  *)
OfPart(f, d, p, s, m) ==
  /\ d \in Cells(s, m) /\ p \in 0 .. 1 /\ f = Append(d, p) /\ p = f[m + 1]
  /\ \A i \in 1 .. m : d[i] = f[i]
LEMMA OfPartIs ==
  ASSUME NEW s, NEW w, NEW m, Ranked(s, m), Wider(s, w, m, 2), NEW f \in Cells(w, m + 1)
  PROVE  \E d, p : OfPart(f, d, p, s, m)
<1>1. 0 .. 2 - 1 = 0 .. 1
  OBVIOUS
<1>2. Parts(f, s, m, 2)
  BY PartOf
<1> QED
  BY <1>1, <1>2 DEF Parts, OfPart

(* The two parts of an entry follow each other.                            *)
InPairs(s, w, r) ==
  \A c \in Cells(s, r), p \in 0 .. 1 : Offset(w, Append(c, p)) = Offset(s, c) * 2 + p
LEMMA PairOffset ==
  ASSUME NEW s, NEW w, NEW r, Ranked(s, r), Wider(s, w, r, 2)
  PROVE  InPairs(s, w, r)
<1>1. \A p \in 0 .. 1 : p \in 0 .. 2 - 1
  OBVIOUS
<1> QED
  BY <1>1, PartOffset DEF InPairs

(* A shape with two parts to an entry has twice the size.                  *)
LEMMA WiderSize ==
  ASSUME NEW s, NEW w, NEW r, Ranked(s, r), Wider(s, w, r, 2)
  PROVE  Size(w) = Size(s) * 2
<1>1. r \in Nat /\ s \in [1 .. r -> Int] /\ w \in [1 .. r + 1 -> Int] /\ w[r + 1] = 2
  BY DEF Ranked, Wider, Dims
<1>2. \A j \in 1 .. r : s[j] = w[j]
  BY DEF Wider
<1> QED
  BY <1>1, <1>2, SizeLast

(* _apply_complex "reshape" and "squeeze": the pairs keep their order.     *)
LEMMA WideReshapeIsNx ==
  ASSUME NEW n, Wide(n), n.op \in {"reshape", "squeeze"}
  PROVE  AnswersPairs(Apply(n), n)
<1> DEFINE x == Operand(n, 1)
           a == Promote(n, 1)
           m == Len(x.shape)
           s == n.shape
           r == Len(n.shape)
           w == Append(s, 2)
           t == Reshape(a, w)
<1>1. Len(n.ins) = 1 /\ Size(n.shape) = Size(ShapeOf(n, 1))
  BY WideNode DEF LayoutAsks
<1>2. FirstStored(n, x, a, m)
  BY <1>1, FirstPair
<1>3. /\ m \in Nat /\ Ranked(x.shape, m) /\ Ranked(a.shape, m + 1) /\ Wider(x.shape, a.shape, m, 2)
      /\ Pairs(x, a, m) /\ Size(s) = Size(x.shape) /\ Apply(n) = ApplyComplex(n, a, Promote(n, 2))
  BY <1>1, <1>2 DEF FirstStored
<1>4. Apply(n) = t
  <2>1. CASE n.op = "reshape"
    BY <1>3, <2>1 DEF ApplyComplex
  <2>2. CASE n.op = "squeeze"
    BY <1>3, <2>2 DEF ApplyComplex
  <2> QED
    BY <2>1, <2>2
<1>5. Ranked(s, r) /\ r \in Nat /\ Wider(s, w, r, 2)
  BY ResultWider
<1> DEFINE sx == x.shape
           sa == a.shape
<1>x. sx = x.shape /\ sa = a.shape
  OBVIOUS
<1> HIDE DEF x, a, w, r, m
<1>6. Size(w) = Size(sa)
  <2>0. Size(s) = Size(sx) /\ Ranked(sx, m) /\ Wider(sx, sa, m, 2) /\ m \in Nat
    BY <1>3
  <2> HIDE DEF sx, sa, s
  <2>1. Size(w) = Size(s) * 2
    BY <1>5, WiderSize
  <2>2. Size(sa) = Size(sx) * 2
    BY <2>0, WiderSize
  <2> QED
    BY <2>0, <2>1, <2>2
<1>7. Reshaped(a, m + 1, w, r + 1)
  <2>1. Ranked(a.shape, m + 1) /\ Ranked(w, r + 1) /\ Size(w) = Size(a.shape)
    BY <1>3, <1>5, <1>6 DEF Wider
  <2> QED
    BY <2>1, ReshapeIs
<1>8. ASSUME NEW c \in Cells(s, r), NEW p \in 0 .. 1
      PROVE  \E d \in Cells(sx, m) :
                NxLayout(n, c) = x.at[d] /\ t.at[Append(c, p)] = a.at[Append(d, p)]
  <2> DEFINE e == Append(c, p)
             f == CoordAt(sa, Offset(w, e))
             g == CHOOSE d \in Coords(sx) : Offset(sx, d) = Offset(s, c)
  <2>1. Named(e, c, p, w, r)
    BY <1>5, PartIs
  <2>2. Offset(w, e) = Offset(s, c) * 2 + p
    BY <1>5, PartOffset
  <2> HIDE DEF e
  <2>3. f \in Cells(sa, m + 1) /\ Offset(sa, f) = Offset(w, e) /\ t.at[e] = a.at[f]
    BY <1>7, <2>1 DEF Reshaped, Named
  <2> HIDE DEF f
  <2>a. Ranked(sx, m) /\ Wider(sx, sa, m, 2) /\ f \in Cells(sa, m + 1)
    BY <1>3, <2>3
  <2>b. \E d, q : OfPart(f, d, q, sx, m)
    <3> HIDE DEF sx, sa
    <3> QED
      BY <2>a, OfPartIs
  <2>4. PICK d \in Cells(sx, m), q \in 0 .. 1 : f = Append(d, q)
    BY <2>b DEF OfPart
  <2>5. Offset(sa, f) = Offset(sx, d) * 2 + q
    <3> HIDE DEF sx, sa
    <3>1. InPairs(sx, sa, m)
      BY <2>a, PairOffset
    <3> QED
      BY <2>4, <3>1 DEF InPairs
  <2>6. Offset(sx, d) \in Int /\ Offset(s, c) \in Int
    <3> HIDE DEF sx, sa, s
    <3>1. Offset(sx, d) \in 0 .. Size(sx) - 1
      BY <2>a, PlaceOfOffset DEF Ranked
    <3>2. Offset(s, c) \in 0 .. Size(s) - 1
      BY <1>5, PlaceOfOffset DEF Ranked
    <3> QED
      BY <3>1, <3>2
  <2> DEFINE u == Offset(sx, d)
             v == Offset(s, c)
  <2>7. u \in Int /\ v \in Int /\ u * 2 + q = v * 2 + p
    BY <2>2, <2>3, <2>5, <2>6
  <2> HIDE DEF u, v
  <2>8. u = v /\ q = p
    BY ONLY <2>7, q \in 0 .. 1, p \in 0 .. 1
  <2>9. Coords(sx) = Cells(sx, m)
    BY <1>3, RankedCells
  <2>10. g \in Cells(sx, m) /\ Offset(sx, g) = Offset(sx, d)
    BY <2>8, <2>9 DEF u, v
  <2> HIDE DEF g
  <2>11. g = d
    <3> HIDE DEF sx, sa, s
    <3>1. CoordAt(sx, Offset(sx, g)) = g /\ CoordAt(sx, Offset(sx, d)) = d
      BY <2>a, <2>10, PlaceOfOffset DEF Ranked
    <3> QED
      BY <2>10, <3>1
  <2>12. NxLayout(n, c) = x.at[g]
    <3>1. CASE n.op = "reshape"
      BY <3>1 DEF NxLayout, g, x
    <3>2. CASE n.op = "squeeze"
      BY <3>2 DEF NxLayout, g, x
    <3> QED
      BY <3>1, <3>2
  <2> QED
    BY <2>3, <2>4, <2>8, <2>11, <2>12 DEF e
<1>9. Sends(t, n, x, a, m)
  BY <1>7, <1>8 DEF Sends, Reshaped, w, r
<1>10. AnswersPairs(t, n)
  BY <1>3, <1>9, PairsSent
<1> QED
  BY <1>4, <1>10

(* A permutation that leaves one more axis, the last, at its place.        *)
Permutes(perm, m) ==
  /\ perm \in [1 .. m -> 1 .. m]
  /\ \A i, j \in 1 .. m : perm[i] = perm[j] => i = j
  /\ \A b \in 1 .. m : \E i \in 1 .. m : perm[i] = b
LEMMA PermutesLonger ==
  ASSUME NEW m \in Nat, NEW axes, Permutes(axes, m)
  PROVE  Permutes(Append(axes, m + 1), m + 1) /\ OneLonger(Append(axes, m + 1), axes, m + 1, m, 1 .. m + 1)
<1> DEFINE perm == Append(axes, m + 1)
<1>0. m + 1 \in 1 .. m + 1 /\ \A i \in 1 .. m : i \in 1 .. m + 1 /\ i # m + 1
  OBVIOUS
<1>1. axes \in [1 .. m -> 1 .. m + 1]
  BY <1>0 DEF Permutes
<1>2. OneLonger(perm, axes, m + 1, m, 1 .. m + 1)
  BY <1>0, <1>1, OneLongerIs
<1> HIDE DEF perm
<1>3. perm \in [1 .. m + 1 -> 1 .. m + 1] /\ perm[m + 1] = m + 1 /\ \A i \in 1 .. m : perm[i] = axes[i]
  BY <1>2 DEF OneLonger
<1>a. \A i \in 1 .. m + 1 : i = m + 1 \/ i \in 1 .. m
  OBVIOUS
<1>b. \A i \in 1 .. m : axes[i] \in 1 .. m
  BY DEF Permutes
<1>4. ASSUME NEW i \in 1 .. m + 1, NEW j \in 1 .. m + 1, perm[i] = perm[j] PROVE i = j
  <2>1. CASE i = m + 1 /\ j \in 1 .. m
    BY <1>0, <1>3, <1>4, <1>b, <2>1
  <2>2. CASE j = m + 1 /\ i \in 1 .. m
    BY <1>0, <1>3, <1>4, <1>b, <2>2
  <2>3. CASE i \in 1 .. m /\ j \in 1 .. m
    BY <1>3, <1>4, <2>3 DEF Permutes
  <2> QED
    BY <1>a, <2>1, <2>2, <2>3
<1>5. ASSUME NEW b \in 1 .. m + 1 PROVE \E i \in 1 .. m + 1 : perm[i] = b
  <2>1. CASE b = m + 1
    BY <1>0, <1>3, <2>1
  <2>2. CASE b \in 1 .. m
    <3>1. PICK i \in 1 .. m : axes[i] = b
      BY <2>2 DEF Permutes
    <3> QED
      BY <1>0, <1>3, <3>1
  <2> QED
    BY <1>a, <2>1, <2>2
<1>6. Permutes(perm, m + 1)
  BY <1>3, <1>4, <1>5 DEF Permutes
<1> QED
  BY <1>2, <1>6 DEF perm

(* _apply_complex "permute": the two parts stay on the last axis.          *)
LEMMA WideTransposeIsNx ==
  ASSUME NEW n, Wide(n), n.op = "transpose"
  PROVE  AnswersPairs(Apply(n), n)
<1> DEFINE x == Operand(n, 1)
           a == Promote(n, 1)
           m == Len(x.shape)
           axes == n.axes
           perm == Append(axes, m + 1)
           t == Permute(a, perm)
           w == Append(n.shape, 2)
<1>1. /\ Len(n.ins) = 1 /\ axes \in Bijection(DOMAIN ShapeOf(n, 1), DOMAIN ShapeOf(n, 1))
      /\ n.shape = Pick(ShapeOf(n, 1), axes)
  BY WideNode DEF LayoutAsks
<1>2. FirstStored(n, x, a, m)
  BY <1>1, FirstPair
<1>3. /\ m \in Nat /\ Ranked(x.shape, m) /\ Ranked(a.shape, m + 1) /\ Wider(x.shape, a.shape, m, 2)
      /\ Pairs(x, a, m) /\ n.shape = Pick(x.shape, axes)
      /\ axes \in Bijection(DOMAIN x.shape, DOMAIN x.shape) /\ Apply(n) = ApplyComplex(n, a, Promote(n, 2))
  BY <1>1, <1>2 DEF FirstStored
<1>4. Permutes(axes, m)
  <2>1. axes \in Bijection(1 .. m, 1 .. m)
    BY <1>3, RankedCells
  <2> QED
    BY <2>1 DEF Bijection, Injection, Surjection, IsInjective, Permutes
<1> HIDE DEF m
<1>5. Permutes(perm, m + 1) /\ OneLonger(perm, axes, m + 1, m, 1 .. m + 1)
  BY <1>3, <1>4, PermutesLonger
<1>6. /\ perm \in [1 .. m + 1 -> 1 .. m + 1] /\ perm[m + 1] = m + 1 /\ axes \in [1 .. m -> 1 .. m]
      /\ \A i \in 1 .. m : perm[i] = axes[i]
  BY <1>4, <1>5 DEF OneLonger, Permutes
<1>7. DOMAIN n.shape = 1 .. m /\ \A i \in 1 .. m : n.shape[i] = x.shape[axes[i]]
  BY <1>3, <1>6 DEF Pick
<1>8. Ranked(n.shape, m) /\ Len(n.shape) = m
  <2>1. Ranked(n.shape, Len(n.shape))
    BY ResultWider
  <2>2. Len(n.shape) = m
    BY <1>3, <1>7, <2>1 DEF Ranked
  <2> QED
    BY <2>1, <2>2
<1>9. Apply(n) = t
  BY <1>3, <1>8 DEF ApplyComplex
<1>10. Wider(n.shape, w, m, 2)
  BY <1>8, ResultWider
<1> HIDE DEF perm, w, x, a
<1>11. Permuted(a, perm, m + 1)
  <2>1. Ranked(a.shape, m + 1)
    BY <1>3
  <2> DEFINE k == m + 1
  <2>2. /\ perm \in [1 .. k -> 1 .. k] /\ \A i, j \in 1 .. k : perm[i] = perm[j] => i = j
    BY <1>5 DEF Permutes
  <2>3. \A b \in 1 .. k : \E i \in 1 .. k : perm[i] = b
    BY <1>5 DEF Permutes
  <2> HIDE DEF k
  <2>4. Ranked(a.shape, k)
    BY <2>1 DEF k
  <2>5. Permuted(a, perm, k)
    BY <2>2, <2>3, <2>4, PermuteIs
  <2> QED
    BY <2>5 DEF k
<1>0. m + 1 \in 1 .. m + 1 /\ \A i \in 1 .. m : i \in 1 .. m + 1
  BY <1>3
<1>12. Pick(a.shape, perm) = w
  <2> DEFINE v == Pick(a.shape, perm)
  <2>1. Ranked(v, m + 1)
    BY <1>11 DEF Permuted
  <2>2. \A i \in 1 .. m + 1 : v[i] = a.shape[perm[i]]
    BY <1>6 DEF Pick
  <2> HIDE DEF v
  <2>3. ASSUME NEW i \in 1 .. m + 1 PROVE v[i] = w[i]
    <3>1. CASE i = m + 1
      BY <1>3, <1>6, <1>10, <2>2, <3>1 DEF Wider
    <3>2. CASE i # m + 1
      <4>1. i \in 1 .. m
        BY <1>3, <3>2
      <4>2. v[i] = a.shape[axes[i]] /\ axes[i] \in 1 .. m
        BY <1>0, <1>6, <2>2, <4>1
      <4> QED
        BY <1>3, <1>7, <1>10, <4>1, <4>2 DEF Wider
    <3> QED
      BY <3>1, <3>2
  <2>4. Ranked(w, m + 1)
    BY <1>10 DEF Wider
  <2>5. v = w
    BY <2>1, <2>3, <2>4, SameShape
  <2> QED
    BY <2>5 DEF v
<1>13. /\ Filled(t, w, m + 1)
       /\ \A e \in Cells(w, m + 1) : \E f \in Cells(a.shape, m + 1) :
             (\A i \in 1 .. m + 1 : f[perm[i]] = e[i]) /\ t.at[e] = a.at[f]
  BY <1>11, <1>12 DEF Permuted
<1>14. ASSUME NEW c \in Cells(n.shape, m), NEW p \in 0 .. 1
       PROVE  \E d \in Cells(x.shape, m) :
                 NxLayout(n, c) = x.at[d] /\ t.at[Append(c, p)] = a.at[Append(d, p)]
  <2> DEFINE e == Append(c, p)
             There(d) == \A i \in 1 .. m : d[axes[i]] = c[i]
             g == CHOOSE d \in Coords(x.shape) : There(d)
  <2>1. Named(e, c, p, w, m)
    BY <1>8, <1>10, PartIs
  <2> HIDE DEF e
  <2>2. PICK f \in Cells(a.shape, m + 1) : (\A i \in 1 .. m + 1 : f[perm[i]] = e[i]) /\ t.at[e] = a.at[f]
    BY <1>13, <2>1 DEF Named
  <2>a. \E d, q : OfPart(f, d, q, x.shape, m)
    BY <1>3, OfPartIs
  <2>3. PICK d \in Cells(x.shape, m), q \in 0 .. 1 :
           f = Append(d, q) /\ q = f[m + 1] /\ \A i \in 1 .. m : d[i] = f[i]
    BY <2>a DEF OfPart
  <2>4. q = p
    BY <1>0, <1>6, <2>1, <2>2, <2>3 DEF Named
  <2>5. ASSUME NEW i \in 1 .. m PROVE d[axes[i]] = c[i]
    <3>1. f[perm[i]] = e[i] /\ perm[i] = axes[i] /\ axes[i] \in 1 .. m /\ e[i] = c[i]
      BY <1>0, <1>6, <2>1, <2>2 DEF Named
    <3> QED
      BY <2>3, <3>1
  <2>6. Coords(x.shape) = Cells(x.shape, m)
    BY <1>3, RankedCells
  <2>7. g \in Cells(x.shape, m) /\ There(g)
    BY <2>5, <2>6
  <2> HIDE DEF g
  <2>8. ASSUME NEW b \in 1 .. m PROVE d[b] = g[b]
    <3>1. PICK i \in 1 .. m : axes[i] = b
      BY <1>4 DEF Permutes
    <3> QED
      BY <2>5, <2>7, <3>1
  <2>9. d = g
    BY <1>3, <2>7, <2>8, SameCell DEF Cells
  <2>10. Len(c) = m
    BY <1>3, SeqIs DEF Cells
  <2>11. NxLayout(n, c) = x.at[g]
    BY <2>10 DEF NxLayout, g, x
  <2> QED
    BY <2>2, <2>3, <2>4, <2>9, <2>11 DEF e
<1>15. Sends(t, n, x, a, m)
  BY <1>8, <1>13, <1>14 DEF Sends, w
<1>16. AnswersPairs(t, n)
  BY <1>3, <1>15, PairsSent
<1> QED
  BY <1>9, <1>16

(* Axes in increasing order, and a last one after them.                    *)
Rises(axes, m, r) ==
  axes \in [1 .. m -> 1 .. r] /\ \A i, j \in 1 .. m : i < j => axes[i] < axes[j]
LEMMA RisesLonger ==
  ASSUME NEW m \in Nat, NEW r \in Nat, NEW axes, Rises(axes, m, r)
  PROVE  /\ Rises(Append(axes, r + 1), m + 1, r + 1)
         /\ OneLonger(Append(axes, r + 1), axes, r + 1, m, 1 .. r + 1)
<1> DEFINE more == Append(axes, r + 1)
<1>0. r + 1 \in 1 .. r + 1 /\ (\A i \in 1 .. r : i \in 1 .. r + 1) /\ m + 1 \in 1 .. m + 1
      /\ \A i \in 1 .. m : i \in 1 .. m + 1
  OBVIOUS
<1>1. axes \in [1 .. m -> 1 .. r + 1]
  BY <1>0 DEF Rises
<1>2. OneLonger(more, axes, r + 1, m, 1 .. r + 1)
  BY <1>0, <1>1, OneLongerIs
<1> HIDE DEF more
<1>3. more \in [1 .. m + 1 -> 1 .. r + 1] /\ more[m + 1] = r + 1 /\ \A i \in 1 .. m : more[i] = axes[i]
  BY <1>2 DEF OneLonger
<1>4. \A i \in 1 .. m : axes[i] \in Int /\ axes[i] < r + 1
  BY DEF Rises
<1>5. ASSUME NEW i \in 1 .. m + 1, NEW j \in 1 .. m + 1, i < j PROVE more[i] < more[j]
  <2>1. i \in 1 .. m
    BY <1>5
  <2>2. CASE j = m + 1
    BY <1>3, <1>4, <2>1, <2>2
  <2>3. CASE j # m + 1
    <3>1. j \in 1 .. m
      BY <2>3
    <3>2. axes[i] < axes[j]
      BY <1>5, <2>1, <3>1 DEF Rises
    <3> QED
      BY <1>3, <2>1, <3>1, <3>2
  <2> QED
    BY <2>2, <2>3
<1>6. Rises(more, m + 1, r + 1)
  BY <1>3, <1>5 DEF Rises
<1> QED
  BY <1>2, <1>6 DEF more

(* _apply_complex "expand": a pair is read at its axes, both parts alike.  *)
LEMMA WideBroadcastIsNx ==
  ASSUME NEW n, Wide(n), n.op = "broadcast"
  PROVE  AnswersPairs(Apply(n), n)
<1> DEFINE x == Operand(n, 1)
           a == Promote(n, 1)
           m == Len(x.shape)
           r == Len(n.shape)
           axes == n.axes
           more == Append(axes, r + 1)
           w == Append(n.shape, 2)
           t == Broadcast(a, w, more)
<1>1. /\ Len(n.ins) = 1 /\ axes \in Seq(DOMAIN n.shape) /\ Len(axes) = Len(ShapeOf(n, 1))
      /\ \A i, j \in DOMAIN axes : i < j => axes[i] < axes[j]
      /\ \A i \in DOMAIN axes : ShapeOf(n, 1)[i] \in {1, n.shape[axes[i]]}
  BY WideNode DEF LayoutAsks
<1>2. FirstStored(n, x, a, m)
  BY <1>1, FirstPair
<1>3. /\ m \in Nat /\ Ranked(x.shape, m) /\ Ranked(a.shape, m + 1) /\ Wider(x.shape, a.shape, m, 2)
      /\ Pairs(x, a, m) /\ Apply(n) = ApplyComplex(n, a, Promote(n, 2)) /\ ShapeOf(n, 1) = x.shape
      /\ Len(axes) = m
  BY <1>1, <1>2 DEF FirstStored
<1>4. Apply(n) = t
  BY <1>3 DEF ApplyComplex
<1>5. Ranked(n.shape, r) /\ r \in Nat /\ Wider(n.shape, w, r, 2) /\ DOMAIN n.shape = 1 .. r
  BY ResultWider, RankedCells
<1>6. DOMAIN axes = 1 .. m /\ axes \in [1 .. m -> 1 .. r]
  <2> HIDE DEF m
  <2>1. axes \in Seq(1 .. r) /\ Len(axes) = m
    BY <1>1, <1>3, <1>5
  <2> HIDE DEF axes
  <2> QED
    BY <2>1
<1>7. Rises(axes, m, r) /\ \A i \in 1 .. m : x.shape[i] \in {1, n.shape[axes[i]]}
  BY <1>1, <1>3, <1>6 DEF Rises
<1> HIDE DEF m, r, w, more, x, a
<1>8. Rises(more, m + 1, r + 1) /\ OneLonger(more, axes, r + 1, m, 1 .. r + 1)
  <2>1. Rises(Append(axes, r + 1), m + 1, r + 1) /\ OneLonger(Append(axes, r + 1), axes, r + 1, m, 1 .. r + 1)
    BY <1>3, <1>5, <1>7, RisesLonger
  <2> QED
    BY <2>1 DEF more
<1>9. /\ more \in [1 .. m + 1 -> 1 .. r + 1] /\ more[m + 1] = r + 1
      /\ \A i \in 1 .. m : more[i] = axes[i] /\ axes[i] \in 1 .. r
  BY <1>6, <1>8 DEF OneLonger
<1>0. m + 1 \in 1 .. m + 1 /\ \A i \in 1 .. m : i \in 1 .. m + 1
  BY <1>3
<1>10. ASSUME NEW i \in 1 .. m + 1 PROVE a.shape[i] \in {1, w[more[i]]}
  <2>1. CASE i = m + 1
    BY <1>3, <1>5, <1>9, <2>1 DEF Wider
  <2>2. CASE i # m + 1
    <3>1. i \in 1 .. m
      BY <1>3, <2>2
    <3>2. a.shape[i] = x.shape[i] /\ w[more[i]] = n.shape[axes[i]]
      BY <1>3, <1>5, <1>9, <3>1 DEF Wider
    <3> QED
      BY <1>7, <3>1, <3>2
  <2> QED
    BY <2>1, <2>2
<1>11. Spreads(a, w, more, m + 1, r + 1)
  <2> DEFINE k == m + 1
             q == r + 1
  <2>1. Ranked(a.shape, k) /\ Ranked(w, q) /\ more \in [1 .. k -> 1 .. q]
    BY <1>3, <1>5, <1>9 DEF Wider
  <2>2. \A i, j \in 1 .. k : i < j => more[i] < more[j]
    BY <1>8 DEF Rises
  <2>3. \A i \in 1 .. k : a.shape[i] \in {1, w[more[i]]}
    BY <1>10
  <2> HIDE DEF k, q
  <2>4. Spreads(a, w, more, k, q)
    BY <2>1, <2>2, <2>3, BroadcastIs
  <2> QED
    BY <2>4 DEF k, q
<1>12. ASSUME NEW c \in Cells(n.shape, r), NEW p \in 0 .. 1
       PROVE  \E d \in Cells(x.shape, m) :
                 NxLayout(n, c) = x.at[d] /\ t.at[Append(c, p)] = a.at[Append(d, p)]
  <2> DEFINE e == Append(c, p)
             f == Flat(a.shape, Pick(e, more))
             g == [i \in DOMAIN x.shape |-> IF x.shape[i] = 1 THEN 0 ELSE c[axes[i]]]
  <2>1. Named(e, c, p, w, r)
    BY <1>5, PartIs
  <2> HIDE DEF e
  <2>2. t.at[e] = a.at[f] /\ f \in Cells(a.shape, m + 1)
    BY <1>11, <2>1 DEF Spreads, Named
  <2>3. \A i \in 1 .. m + 1 : f[i] = IF a.shape[i] = 1 THEN 0 ELSE e[more[i]]
    BY <1>9 DEF Flat, Pick
  <2> HIDE DEF f
  <2>a. \E d, q : OfPart(f, d, q, x.shape, m)
    BY <1>3, <2>2, OfPartIs
  <2>4. PICK d \in Cells(x.shape, m), q \in 0 .. 1 :
           f = Append(d, q) /\ q = f[m + 1] /\ \A i \in 1 .. m : d[i] = f[i]
    BY <2>a DEF OfPart
  <2>5. q = p
    <3>1. a.shape[m + 1] = 2
      BY <1>3 DEF Wider
    <3>2. f[m + 1] = e[r + 1]
      BY <1>0, <1>9, <2>3, <3>1
    <3> QED
      BY <2>1, <2>4, <3>2 DEF Named
  <2>6. ASSUME NEW i \in 1 .. m PROVE d[i] = IF x.shape[i] = 1 THEN 0 ELSE c[axes[i]]
    <3>1. a.shape[i] = x.shape[i] /\ e[more[i]] = c[axes[i]]
      BY <1>3, <1>9, <2>1 DEF Wider, Named
    <3> QED
      BY <1>0, <2>3, <2>4, <3>1
  <2>7. d = [i \in 1 .. m |-> d[i]] /\ DOMAIN x.shape = 1 .. m
    BY <1>3, RankedCells DEF Cells
  <2>8. d = g
    BY <2>6, <2>7
  <2>9. NxLayout(n, c) = x.at[g]
    BY DEF NxLayout, x
  <2> HIDE DEF g
  <2> QED
    BY <2>2, <2>4, <2>5, <2>8, <2>9 DEF e
<1>13. Sends(t, n, x, a, m)
  BY <1>11, <1>12 DEF Sends, w, r, Spreads
<1>14. AnswersPairs(t, n)
  BY <1>3, <1>13, PairsSent
<1> QED
  BY <1>4, <1>14

(* The stored operand has the sizes of its entries' tensor.                *)
LEMMA StoredSizes ==
  ASSUME NEW n, Wide(n), FirstStored(n, Operand(n, 1), Promote(n, 1), Len(Operand(n, 1).shape)),
         NEW i \in 1 .. Len(Operand(n, 1).shape)
  PROVE  In(n, 1).shape[i] = Operand(n, 1).shape[i]
<1>1. CASE n.complex[1]
  <2>1. Promote(n, 1) = In(n, 1)
    BY <1>1 DEF Promote
  <2> QED
    BY <2>1 DEF FirstStored, Wider
<1>2. CASE ~n.complex[1]
  <2>1. Operand(n, 1) = Each(In(n, 1), LAMBDA v : <<v, 0>>)
    BY <1>2 DEF Operand, Wide
  <2>2. Operand(n, 1).shape = In(n, 1).shape
    BY <2>1 DEF Each, Tensor
  <2> QED
    BY <2>2
<1> QED
  BY <1>1, <1>2

(* _apply_complex "iota": the count, with a zero imaginary part.           *)
LEMMA WideIotaIsNx ==
  ASSUME NEW n, Wide(n), n.op = "iota"
  PROVE  AnswersPairs(Apply(n), n)
<1> DEFINE t == Iota(n.shape, n.axis)
           x == Each(t, LAMBDA v : <<v, 0>>)
           a == Promoted(t)
           s == n.shape
           r == Len(n.shape)
<1>1. Apply(n) = a
  <2>1. Apply(n) = ApplyComplex(n, Promote(n, 1), Promote(n, 2))
    BY DEF Apply, Wide
  <2> QED
    BY <2>1 DEF ApplyComplex
<1>2. n.axis \in 0 .. r /\ Ranked(s, r) /\ r \in Nat
  BY WideNode DEF LayoutAsks, Ranked
<1>3. Counts(t, s, r, n.axis)
  BY <1>2, IotaIs
<1>4. ASSUME NEW c \in Cells(s, r)
      PROVE  NxLayout(n, c) = <<IF n.axis = 0 THEN Offset(s, c) ELSE c[n.axis], 0>>
  BY DEF NxLayout, Wide
<1> HIDE DEF t
<1>5. /\ t.shape = s /\ t.at = [c \in Cells(s, r) |-> t.at[c]]
      /\ \A c \in Cells(s, r) : t.at[c] = IF n.axis = 0 THEN Offset(s, c) ELSE c[n.axis]
  BY <1>3 DEF Counts, Filled
<1>6. Numeric(t, r)
  <2>1. ASSUME NEW c \in Cells(s, r) PROVE t.at[c] \in Int
    <3>1. Offset(s, c) \in Int /\ c \in [1 .. r -> Nat]
      <4>1. s \in [1 .. r -> Dims] /\ Size(s) \in Dims
        BY <1>2, SizePositive DEF Ranked
      <4>2. Offset(s, c) \in 0 .. Size(s) - 1
        BY <1>2, <4>1, PlaceOfOffset
      <4> QED
        BY <4>1, <4>2 DEF Cells, Dims
    <3>2. CASE n.axis = 0
      BY <1>5, <3>1, <3>2
    <3>3. CASE n.axis # 0
      <4>1. n.axis \in 1 .. r
        BY <1>2, <3>3
      <4> QED
        BY <1>5, <3>1, <3>3, <4>1
    <3> QED
      BY <3>2, <3>3
  <2>2. t.at \in [Cells(s, r) -> Int]
    BY <1>5, <2>1
  <2> QED
    BY <1>2, <1>5, <2>2 DEF Numeric
<1>7. Pairs(x, a, r)
  BY <1>6, PromotedOperand
<1>8. x.shape = s /\ \A c \in Cells(s, r) : x.at[c] = <<t.at[c], 0>>
  <2>1. Coords(s) = Cells(s, r)
    BY <1>2, RankedCells
  <2> QED
    BY <1>5, <2>1 DEF Each, Tensor
<1> HIDE DEF x, a
<1>9. ASSUME NEW c \in Cells(s, r)
      PROVE  NxLayout(n, c) = <<a.at[Append(c, 0)], a.at[Append(c, 1)]>>
  <2>1. x.at[c] = <<a.at[Append(c, 0)], a.at[Append(c, 1)]>>
    BY <1>7, <1>8 DEF Pairs
  <2> QED
    BY <1>4, <1>5, <1>8, <2>1
<1>10. Filled(a, Append(s, 2), r + 1)
  <2>1. Numeric(a, r + 1) /\ a.shape = Append(s, 2)
    BY <1>7, <1>8 DEF Pairs
  <2> DEFINE w == Append(s, 2)
             k == r + 1
  <2> HIDE DEF w, k
  <2>2. a.shape = w /\ a.at \in [Cells(w, k) -> Int]
    BY <2>1 DEF Numeric, w, k
  <2>3. Filled(a, w, k)
    BY <2>2 DEF Filled
  <2> QED
    BY <2>3 DEF w, k
<1>11. AnswersPairs(a, n)
  BY <1>9, <1>10 DEF AnswersPairs
<1> QED
  BY <1>1, <1>11

(* _apply_complex "slice": both parts of the window.                       *)
LEMMA WideSliceIsNx ==
  ASSUME NEW n, Wide(n), n.op = "slice"
  PROVE  AnswersPairs(Apply(n), n)
<1> DEFINE x == Operand(n, 1)
           a == Promote(n, 1)
           m == Len(x.shape)
           l == n.lengths
           from == [i \in DOMAIN n.starts |-> n.starts[i].at]
           to == [i \in DOMAIN n.starts |-> n.starts[i].at + l[i]]
           B == Append(from, 0)
           E == Append(to, 2)
           S == Append(n.strides, 1)
           L == Append(l, 2)
           w == Append(n.shape, 2)
           t == SliceBy(a, B, E, S)
<1>1. /\ Len(n.ins) = 1 /\ l \in Seq(Dims) /\ n.strides \in Seq(Dims)
      /\ StartsFit(n, ShapeOf(n, 1), l) /\ Len(n.strides) = Len(ShapeOf(n, 1))
      /\ n.shape = [i \in DOMAIN ShapeOf(n, 1) |-> (l[i] + n.strides[i] - 1) \div n.strides[i]]
  BY WideNode DEF LayoutAsks
<1>2. FirstStored(n, x, a, m)
  BY <1>1, FirstPair
<1>3. /\ m \in Nat /\ Ranked(x.shape, m) /\ Ranked(a.shape, m + 1) /\ Wider(x.shape, a.shape, m, 2)
      /\ Pairs(x, a, m) /\ ShapeOf(n, 1) = x.shape /\ Apply(n) = ApplyComplex(n, a, Promote(n, 2))
  BY <1>2 DEF FirstStored
<1>4. Apply(n) = t
  BY <1>3 DEF ApplyComplex
<1>5. Ranked(l, m) /\ Ranked(n.strides, m)
  <2>1. Len(l) = m /\ Len(n.strides) = m
    BY <1>1, <1>3 DEF StartsFit
  <2> QED
    BY <1>1, <1>3, <2>1, SeqRanked DEF Ranked
<1>6. n.shape = Strided(l, n.strides)
  <2>1. DOMAIN l = 1 .. m /\ DOMAIN x.shape = 1 .. m
    BY <1>3, <1>5, RankedCells
  <2> QED
    BY <1>1, <1>3, <2>1 DEF Strided
<1>7. DOMAIN n.starts = 1 .. m /\ \A i \in 1 .. m : n.starts[i].at \in Int /\ n.starts[i].kind = "static"
  <2> DEFINE K == [kind : {"static", "dynamic"}, at : Int]
  <2>1. n.starts \in Seq(K) /\ Len(n.starts) = m
    BY <1>1, <1>3 DEF StartsFit
  <2> HIDE DEF K, m
  <2>2. DOMAIN n.starts = 1 .. m /\ \A i \in 1 .. m : n.starts[i] \in K
    BY <2>1
  <2>3. \A i \in DOMAIN n.starts : n.starts[i].kind = "static"
    BY DEF Unsupported, Wide
  <2> QED
    BY <2>2, <2>3 DEF K
<1>8. \A i \in 1 .. m : /\ n.starts[i].at \in Nat /\ l[i] \in Nat \ {0} /\ x.shape[i] \in Nat
                        /\ n.starts[i].at + l[i] <= x.shape[i]
  <2> TAKE i \in 1 .. m
  <2>1. i \in DOMAIN x.shape /\ l[i] \in Nat \ {0} /\ x.shape[i] \in Nat
    BY <1>3, <1>5, RankedCells
  <2>2. 0 <= n.starts[i].at /\ n.starts[i].at + l[i] <= x.shape[i]
    BY <1>1, <1>3, <1>7, <2>1 DEF StartsFit
  <2> QED
    BY <1>7, <2>1, <2>2
<1>9. from \in [1 .. m -> Nat] /\ to \in [1 .. m -> Nat] /\ n.strides \in [1 .. m -> Dims] /\ l \in [1 .. m -> Dims]
      /\ \A i \in 1 .. m : from[i] = n.starts[i].at /\ to[i] = from[i] + l[i]
  <2>1. \A i \in 1 .. m : n.starts[i].at + l[i] \in Nat
    BY <1>8
  <2> QED
    BY <1>5, <1>7, <1>8, <2>1 DEF Ranked
<1> HIDE DEF from, to, m, w, x, a
<1>10. /\ OneLonger(B, from, 0, m, Nat) /\ OneLonger(E, to, 2, m, Nat)
       /\ OneLonger(S, n.strides, 1, m, Dims) /\ OneLonger(L, l, 2, m, Dims)
  <2>1. 0 \in Nat /\ 2 \in Nat /\ 1 \in Dims /\ 2 \in Dims
    BY DEF Dims
  <2>2. OneLonger(B, from, 0, m, Nat)
    BY <1>3, <1>9, <2>1, OneLongerIs
  <2>3. OneLonger(E, to, 2, m, Nat)
    BY <1>3, <1>9, <2>1, OneLongerIs
  <2>4. OneLonger(S, n.strides, 1, m, Dims)
    BY <1>3, <1>9, <2>1, OneLongerIs
  <2>5. OneLonger(L, l, 2, m, Dims)
    BY <1>3, <1>9, <2>1, OneLongerIs
  <2> QED
    BY <2>2, <2>3, <2>4, <2>5
<1> HIDE DEF B, E, S, L
<1>0. m + 1 \in 1 .. m + 1 /\ (\A i \in 1 .. m : i \in 1 .. m + 1)
      /\ \A i \in 1 .. m + 1 : i = m + 1 \/ i \in 1 .. m
  BY <1>3
<1>11. /\ Ranked(S, m + 1) /\ Ranked(L, m + 1) /\ DOMAIN B = 1 .. m + 1
  BY <1>3, <1>10 DEF OneLonger, Ranked
<1>12. \A i \in 1 .. m + 1 : /\ B[i] \in Nat /\ E[i] = B[i] + L[i]
                             /\ E[i] <= a.shape[i]
  <2> TAKE i \in 1 .. m + 1
  <2>1. CASE i = m + 1
    BY <1>3, <1>10, <2>1 DEF OneLonger, Wider
  <2>2. CASE i \in 1 .. m
    <3>1. B[i] = from[i] /\ E[i] = to[i] /\ L[i] = l[i] /\ a.shape[i] = x.shape[i]
      BY <1>3, <1>10, <2>2 DEF OneLonger, Wider
    <3> QED
      BY <1>8, <1>9, <2>2, <3>1
  <2> QED
    BY <1>0, <2>1, <2>2
<1>13. Sliced(a, B, E, S, L, m + 1)
  <2> DEFINE k == m + 1
  <2>1. Ranked(a.shape, k) /\ Ranked(S, k) /\ Ranked(L, k) /\ DOMAIN B = 1 .. k
    BY <1>3, <1>11
  <2>2. \A i \in 1 .. k : B[i] \in Nat /\ E[i] = B[i] + L[i] /\ E[i] <= a.shape[i]
    BY <1>12
  <2> HIDE DEF k
  <2>3. Sliced(a, B, E, S, L, k)
    BY <2>1, <2>2, SliceByIs
  <2> QED
    BY <2>3 DEF k
<1>14. DOMAIN n.shape = 1 .. m /\ Len(n.shape) = m /\ Ranked(n.shape, m) /\ Wider(n.shape, w, m, 2)
  <2>1. DOMAIN n.shape = 1 .. m
    BY <1>6, <1>9 DEF Strided
  <2>2. Ranked(n.shape, Len(n.shape)) /\ Wider(n.shape, w, Len(n.shape), 2)
    BY ResultWider DEF w
  <2>3. Len(n.shape) = m
    BY <1>3, <2>1, <2>2 DEF Ranked
  <2> QED
    BY <2>1, <2>2, <2>3
<1>15. Strided(L, S) = w
  <2> DEFINE v == Strided(L, S)
  <2>1. Ranked(v, m + 1)
    BY <1>13 DEF Sliced
  <2>2. \A i \in 1 .. m + 1 : v[i] = (L[i] + S[i] - 1) \div S[i]
    BY <1>10 DEF Strided, OneLonger
  <2>3. \A i \in 1 .. m : n.shape[i] = (l[i] + n.strides[i] - 1) \div n.strides[i]
    BY <1>6, <1>9 DEF Strided
  <2> HIDE DEF v
  <2>4. ASSUME NEW i \in 1 .. m + 1 PROVE v[i] = w[i]
    <3>1. CASE i = m + 1
      <4>1. L[i] = 2 /\ S[i] = 1 /\ w[i] = 2
        BY <1>10, <1>14, <3>1 DEF OneLonger, Wider
      <4>2. (2 + 1 - 1) \div 1 = 2
        OBVIOUS
      <4> QED
        BY <2>2, <4>1, <4>2
    <3>2. CASE i \in 1 .. m
      <4>1. L[i] = l[i] /\ S[i] = n.strides[i] /\ w[i] = n.shape[i]
        BY <1>10, <1>14, <3>2 DEF OneLonger, Wider
      <4> QED
        BY <2>2, <2>3, <3>2, <4>1
    <3> QED
      BY <1>0, <3>1, <3>2
  <2>5. Ranked(w, m + 1)
    BY <1>14 DEF Wider
  <2>6. v = w
    BY <2>1, <2>4, <2>5, SameShape
  <2> QED
    BY <2>6 DEF v
<1>16. /\ Filled(t, w, m + 1)
       /\ \A e \in Cells(w, m + 1) : t.at[e] = a.at[Stepped(B, e, S)] /\ Stepped(B, e, S) \in Cells(a.shape, m + 1)
  BY <1>13, <1>15 DEF Sliced
<1>17. ASSUME NEW c \in Cells(n.shape, m), NEW p \in 0 .. 1
       PROVE  \E d \in Cells(x.shape, m) :
                 NxLayout(n, c) = x.at[d] /\ t.at[Append(c, p)] = a.at[Append(d, p)]
  <2> DEFINE e == Append(c, p)
             f == Stepped(B, e, S)
             g == [i \in 1 .. m |-> NxStart(n, i, l[i]) + c[i] * n.strides[i]]
  <2>1. Named(e, c, p, w, m)
    BY <1>14, PartIs
  <2> HIDE DEF e
  <2>2. t.at[e] = a.at[f] /\ f \in Cells(a.shape, m + 1)
    BY <1>16, <2>1 DEF Named
  <2>3. \A i \in 1 .. m + 1 : f[i] = B[i] + e[i] * S[i]
    <3>1. DOMAIN e = 1 .. m + 1
      BY <2>1 DEF Named, Cells
    <3> QED
      BY <3>1 DEF Stepped
  <2> HIDE DEF f
  <2>a. \E d, q : OfPart(f, d, q, x.shape, m)
    BY <1>3, <2>2, OfPartIs
  <2>4. PICK d \in Cells(x.shape, m), q \in 0 .. 1 :
           f = Append(d, q) /\ q = f[m + 1] /\ \A i \in 1 .. m : d[i] = f[i]
    BY <2>a DEF OfPart
  <2>5. q = p
    <3>1. f[m + 1] = 0 + p * 1
      BY <1>0, <1>10, <2>1, <2>3 DEF OneLonger, Named
    <3> QED
      BY <2>4, <3>1
  <2>6. ASSUME NEW i \in 1 .. m PROVE d[i] = NxStart(n, i, l[i]) + c[i] * n.strides[i]
    <3> DEFINE hi == x.shape[i] - l[i]
               raw == n.starts[i].at
    <3>1. d[i] = raw + c[i] * n.strides[i]
      <4>1. B[i] = raw /\ e[i] = c[i] /\ S[i] = n.strides[i]
        BY <1>9, <1>10, <2>1 DEF OneLonger, Named
      <4> QED
        BY <1>0, <2>3, <2>4, <4>1
    <3>2. raw \in Int /\ hi \in Nat /\ raw \in 0 .. hi
      BY <1>8
    <3>3. In(n, 1).shape[i] = x.shape[i]
      BY <1>2, StoredSizes DEF x, m, a
    <3>4. NxStart(n, i, l[i]) = Clamp(raw, hi)
      BY <3>3 DEF NxStart, Clamp
    <3>5. Clamp(raw, hi) = raw
      <4> HIDE DEF raw, hi
      <4> QED
        BY <3>2, ClampIs
    <3> QED
      BY <3>1, <3>4, <3>5
  <2>7. d = [i \in 1 .. m |-> d[i]]
    BY DEF Cells
  <2>8. d = g
    BY <2>6, <2>7
  <2>9. Len(c) = m
    BY <1>3, SeqIs DEF Cells
  <2>10. NxLayout(n, c) = x.at[g]
    BY <2>9 DEF NxLayout, x
  <2> HIDE DEF g
  <2> QED
    BY <2>2, <2>4, <2>5, <2>8, <2>10 DEF e
<1>18. Sends(t, n, x, a, m)
  BY <1>14, <1>16, <1>17 DEF Sends, w
<1>19. AnswersPairs(t, n)
  BY <1>3, <1>18, PairsSent
<1> QED
  BY <1>4, <1>19

(* Each part of the answer is the same part of an entry of some operand.   *)
Sent(t, n, c, p) ==
  \E x, a, m, d : /\ Pairs(x, a, m) /\ d \in Cells(x.shape, m)
                  /\ NxLayout(n, c) = x.at[d] /\ t.at[Append(c, p)] = a.at[Append(d, p)]
LEMMA SentFrom ==
  ASSUME NEW t, NEW n, NEW c, Sent(t, n, c, 0), Sent(t, n, c, 1)
  PROVE  NxLayout(n, c) = <<t.at[Append(c, 0)], t.at[Append(c, 1)]>>
<1>1. PICK x, a, m, d : /\ Pairs(x, a, m) /\ d \in Cells(x.shape, m)
                        /\ NxLayout(n, c) = x.at[d] /\ t.at[Append(c, 0)] = a.at[Append(d, 0)]
  BY DEF Sent
<1>2. PICK y, b, k, e : /\ Pairs(y, b, k) /\ e \in Cells(y.shape, k)
                        /\ NxLayout(n, c) = y.at[e] /\ t.at[Append(c, 1)] = b.at[Append(e, 1)]
  BY DEF Sent
<1>3. /\ NxLayout(n, c) = <<a.at[Append(d, 0)], a.at[Append(d, 1)]>>
      /\ NxLayout(n, c) = <<b.at[Append(e, 0)], b.at[Append(e, 1)]>>
  BY <1>1, <1>2 DEF Pairs
<1> DEFINE d0 == a.at[Append(d, 0)]
           d1 == a.at[Append(d, 1)]
           e0 == b.at[Append(e, 0)]
           e1 == b.at[Append(e, 1)]
<1>4. <<d0, d1>> = <<e0, e1>>
  BY <1>3
<1> HIDE DEF d0, d1, e0, e1
<1>5. d1 = e1
  BY ONLY <1>4
<1> QED
  BY <1>1, <1>2, <1>3, <1>5 DEF d0, d1, e0, e1

(* A coordinate moved along an axis keeps its part.                        *)
LEMMA ShiftPart ==
  ASSUME NEW s, NEW w, NEW r, Ranked(s, r), Wider(s, w, r, 2),
         NEW v, NEW z, Ranked(v, r), Wider(v, z, r, 2),
         NEW c \in Cells(s, r), NEW p \in 0 .. 1, NEW axis \in 1 .. r, NEW b \in Nat, b <= c[axis],
         Shift(Append(c, p), axis, b) \in Cells(z, r + 1)
  PROVE  /\ Shift(c, axis, b) \in Cells(v, r)
         /\ Shift(Append(c, p), axis, b) = Append(Shift(c, axis, b), p)
<1> DEFINE e == Append(c, p)
           f == Shift(e, axis, b)
           g == Shift(c, axis, b)
<1>1. Named(e, c, p, w, r)
  BY PartIs
<1> HIDE DEF e
<1>2. r \in Nat /\ e \in [1 .. r + 1 -> Nat] /\ e[r + 1] = p /\ c \in [1 .. r -> Nat]
      /\ \A i \in 1 .. r : e[i] = c[i]
  BY <1>1 DEF Named, Cells, Ranked
<1>3. r + 1 \in Nat /\ axis \in 1 .. r + 1 /\ b <= e[axis] /\ r + 1 # axis /\ r + 1 \in 1 .. r + 1
      /\ \A i \in 1 .. r : i \in 1 .. r + 1
  BY <1>2
<1> HIDE DEF f, g
<1>4. /\ f \in [1 .. r + 1 -> Nat] /\ f[axis] = e[axis] - b
      /\ \A i \in 1 .. r + 1 : i # axis => f[i] = e[i]
  <2> DEFINE k == r + 1
  <2>1. k \in Nat /\ axis \in 1 .. k /\ e \in [1 .. k -> Nat] /\ b <= e[axis]
    BY <1>2, <1>3
  <2> HIDE DEF k
  <2>2. /\ Shift(e, axis, b) \in [1 .. k -> Nat] /\ Shift(e, axis, b)[axis] = e[axis] - b
        /\ \A i \in 1 .. k : i # axis => Shift(e, axis, b)[i] = e[i]
    BY <2>1, ShiftIs
  <2> QED
    BY <2>2 DEF k, f
<1>5. /\ g \in [1 .. r -> Nat] /\ g[axis] = c[axis] - b
      /\ \A i \in 1 .. r : i # axis => g[i] = c[i]
  BY <1>2, ShiftIs DEF g
<1>6. \A i \in 1 .. r : f[i] = g[i]
  BY <1>2, <1>3, <1>4, <1>5
<1>7. f \in Cells(z, r + 1)
  BY DEF f, e
<1>8. \E d, q : OfPart(f, d, q, v, r)
  BY <1>7, OfPartIs
<1>9. PICK d \in Cells(v, r), q \in 0 .. 1 : f = Append(d, q) /\ q = f[r + 1] /\ \A i \in 1 .. r : d[i] = f[i]
  BY <1>8 DEF OfPart
<1>10. q = p
  BY <1>2, <1>3, <1>4, <1>9
<1>11. d = g
  <2>1. d \in [1 .. r -> Nat] /\ \A i \in 1 .. r : d[i] = g[i]
    BY <1>6, <1>9 DEF Cells
  <2> QED
    BY ONLY <1>2, <1>5, <2>1, SameCell
<1> QED
  BY <1>9, <1>10, <1>11 DEF f, g, e

(* _apply_complex "cat": both parts of the operands, end to end.           *)
LEMMA WideConcatenateIsNx ==
  ASSUME NEW n, Wide(n), n.op = "concatenate"
  PROVE  AnswersPairs(Apply(n), n)
<1> DEFINE ts == [i \in DOMAIN n.ins |-> Promote(n, i)]
           s == n.shape
           r == Len(n.shape)
           k == Len(n.ins) - 1
           axis == n.axis
           w == Append(s, 2)
           t == CatAll(ts, axis)
<1>1. Apply(n) = t
  <2>1. Apply(n) = ApplyComplex(n, Promote(n, 1), Promote(n, 2))
    BY DEF Apply, Wide
  <2> QED
    BY <2>1 DEF ApplyComplex
<1>2. /\ n.ins # <<>> /\ axis \in DOMAIN s
      /\ \A i \in DOMAIN n.ins : ShapeOf(n, i) = [s EXCEPT ![axis] = ShapeOf(n, i)[axis]]
      /\ s[axis] = SumOf([i \in DOMAIN n.ins |-> ShapeOf(n, i)[axis]])
  BY WideNode DEF LayoutAsks
<1>3. Ranked(s, r) /\ r \in Nat /\ axis \in 1 .. r /\ s \in [1 .. r -> Dims] /\ Wider(s, w, r, 2)
  BY <1>2, ResultWider, RankedCells DEF Ranked
<1>4. k \in Nat /\ Len(n.ins) = k + 1 /\ DOMAIN n.ins = 1 .. k + 1 /\ \A i \in 1 .. k + 1 : Stored(n, i)
  <2>1. /\ n.ins = [i \in 1 .. Len(n.ins) |-> n.ins[i]] /\ Len(n.ins) \in Nat
        /\ \A i \in 1 .. Len(n.ins) : Stored(n, i)
    BY WideNode
  <2>2. Len(n.ins) # 0
    <3> SUFFICES ASSUME Len(n.ins) = 0 PROVE FALSE
      OBVIOUS
    <3>1. n.ins = [i \in 1 .. 0 |-> n.ins[i]]
      BY <2>1
    <3>2. n.ins = <<>>
      BY <3>1
    <3> QED
      BY <1>2, <3>2
  <2>3. k + 1 = Len(n.ins)
    BY <2>1
  <2>4. k \in Nat
    BY <2>1, <2>2
  <2> HIDE DEF k
  <2> QED
    BY <2>1, <2>3, <2>4
<1>5. ts = [i \in 1 .. k + 1 |-> ts[i]] /\ \A i \in 1 .. k + 1 : ts[i] = Promote(n, i)
  BY <1>4
<1> HIDE DEF k, ts, w, r
<1>0. r + 1 \in Nat /\ axis \in 1 .. r + 1 /\ axis # r + 1 /\ \A j \in 1 .. r + 1 : j = r + 1 \/ j \in 1 .. r
  BY <1>3
<1>6. ASSUME NEW i \in 1 .. k + 1
      PROVE  /\ Agrees(ts[i], w, axis, r + 1) /\ Pairs(Operand(n, i), ts[i], r)
             /\ ts[i].shape[axis] = ShapeOf(n, i)[axis] /\ Operand(n, i).shape[axis] = ts[i].shape[axis]
             /\ Ranked(Operand(n, i).shape, r) /\ Wider(Operand(n, i).shape, ts[i].shape, r, 2)
  <2> DEFINE x == Operand(n, i).shape
  <2>1. Pairs(Operand(n, i), ts[i], Len(x)) /\ ShapeOf(n, i) = x
    BY <1>4, <1>5 DEF Stored
  <2>2. x = [s EXCEPT ![axis] = x[axis]]
    BY <1>2, <1>4, <2>1
  <2>3. Ranked(x, Len(x)) /\ Numeric(ts[i], Len(x) + 1) /\ ts[i].shape = Append(x, 2)
    BY <2>1 DEF Pairs
  <2> HIDE DEF x
  <2>4. DOMAIN x = 1 .. r /\ \A j \in 1 .. r : j # axis => x[j] = s[j]
    BY <1>3, <2>2
  <2>5. Len(x) = r
    <3>1. Ranked(x, Len(x))
      BY <2>3
    <3> QED
      BY ONLY <1>3, <2>4, <3>1 DEF Ranked, Dims
  <2>6. Wider(x, Append(x, 2), r, 2)
    <3>1. 2 \in Dims
      BY DEF Dims
    <3> QED
      BY <2>3, <2>5, <3>1, WiderIs
  <2>7. Wider(x, ts[i].shape, r, 2)
    BY <2>3, <2>6
  <2>8. \A j \in 1 .. r + 1 : j # axis => ts[i].shape[j] = w[j]
    BY <1>0, <1>3, <2>4, <2>7 DEF Wider
  <2>9. Agrees(ts[i], w, axis, r + 1)
    BY <2>3, <2>5, <2>8 DEF Agrees
  <2>10. ts[i].shape[axis] = x[axis]
    BY <1>3, <2>7 DEF Wider
  <2> QED
    BY <2>1, <2>3, <2>5, <2>7, <2>9, <2>10 DEF x
<1>7. Operands(ts, k, w, axis, r + 1)
  <2>1. Head(ts) = ts[1] /\ DOMAIN Tail(ts) = 1 .. k /\ \A i \in 1 .. k : Tail(ts)[i] = ts[i + 1]
    BY <1>4, <1>5, TailIs
  <2> QED
    BY <1>0, <1>4, <1>6, <2>1 DEF Operands
<1>8. w[axis] = Before(ts, k + 2, axis)
  <2>1. (k + 2) - 1 = k + 1
    BY <1>4
  <2>2. [i \in DOMAIN n.ins |-> ShapeOf(n, i)[axis]] = [j \in 1 .. k + 1 |-> ts[j].shape[axis]]
    BY <1>4, <1>6
  <2>3. w[axis] = s[axis]
    BY <1>3 DEF Wider
  <2> QED
    BY <1>2, <2>1, <2>2, <2>3 DEF Before
<1>9. Lined(ts, k, w, axis, r + 1)
  <2> DEFINE q == r + 1
  <2>1. Operands(ts, k, w, axis, q) /\ Ranked(w, q)
    BY <1>3, <1>7 DEF Wider
  <2> HIDE DEF q
  <2>2. Lined(ts, k, w, axis, q)
    BY <1>8, <2>1, JoinIs
  <2> QED
    BY <2>2 DEF q
<1>10. ASSUME NEW c \in Cells(s, r), NEW p \in 0 .. 1 PROVE Sent(t, n, c, p)
  <2> DEFINE e == Append(c, p)
  <2>1. Named(e, c, p, w, r)
    BY <1>3, PartIs
  <2>2. e[axis] = c[axis] /\ e \in Cells(w, r + 1) /\ c[axis] \in Nat
    BY <1>3, <2>1 DEF Named, Cells
  <2> HIDE DEF e
  <2>3. PICK i \in 1 .. k + 1 :
           /\ Falls(ts, i, axis, e[axis])
           /\ Shift(e, axis, Before(ts, i, axis)) \in Cells(ts[i].shape, r + 1)
           /\ CatAll(ts, axis).at[e] = ts[i].at[Shift(e, axis, Before(ts, i, axis))]
    BY <1>9, <2>2 DEF Lined
  <2>4. Falls(ts, i, axis, c[axis]) /\ \A j \in 1 .. k + 1 : Falls(ts, j, axis, c[axis]) => i = j
    BY <1>9, <2>2, <2>3 DEF Lined
  <2> DEFINE b == Before(ts, i, axis)
             x == Operand(n, i)
             d == Shift(c, axis, b)
  <2>5. b \in Nat /\ b <= c[axis]
    BY <1>9, <2>2, <2>4 DEF Lined, Falls
  <2>6. NxLayout(n, c) = x.at[d]
    <3>1. \A j \in 1 .. k + 1 : Operand(n, j).shape[axis] = ts[j].shape[axis]
      BY <1>6
    <3>2. DOMAIN n.ins = 1 .. k + 1 /\ k \in Nat
      BY <1>4
    <3> HIDE DEF axis
    <3>3. FallsAt(n, ts, k, axis, c, i)
      BY <2>4, <3>1, <3>2 DEF FallsAt
    <3>4. Joined(n, axis, c) = x.at[d]
      BY <3>3, JoinedIs
    <3>5. NxLayout(n, c) = Joined(n, n.axis, c)
      BY DEF NxLayout
    <3> QED
      BY <3>4, <3>5 DEF axis
  <2>7. Ranked(x.shape, r) /\ Wider(x.shape, ts[i].shape, r, 2) /\ Pairs(x, ts[i], r)
    BY <1>6
  <2> HIDE DEF x, b
  <2>8. d \in Cells(x.shape, r) /\ Shift(e, axis, b) = Append(d, p)
    <3>1. Shift(Append(c, p), axis, b) \in Cells(ts[i].shape, r + 1)
      BY <2>3 DEF e, b
    <3> DEFINE xx == x.shape
               zz == ts[i].shape
    <3>2. Ranked(xx, r) /\ Wider(xx, zz, r, 2) /\ Shift(Append(c, p), axis, b) \in Cells(zz, r + 1)
      BY <2>7, <3>1
    <3> HIDE DEF xx, zz, axis, s
    <3>3. d \in Cells(xx, r) /\ Shift(Append(c, p), axis, b) = Append(d, p)
      BY <1>3, <2>5, <3>2, ShiftPart
    <3> QED
      BY <3>3 DEF xx, e
  <2>9. t.at[e] = ts[i].at[Append(d, p)]
    BY <2>3, <2>8 DEF b
  <2> HIDE DEF d, t
  <2> QED
    BY <2>6, <2>7, <2>8, <2>9 DEF Sent, e
<1>11. ASSUME NEW c \in Cells(s, r) PROVE NxLayout(n, c) = <<t.at[Append(c, 0)], t.at[Append(c, 1)]>>
  <2>1. Sent(t, n, c, 0) /\ Sent(t, n, c, 1)
    BY <1>10
  <2> HIDE DEF t
  <2> QED
    BY <2>1, SentFrom
<1>12. Filled(t, w, r + 1)
  BY <1>9 DEF Lined
<1> QED
  BY <1>1, <1>11, <1>12 DEF AnswersPairs, w, r

(* Sizes that stretch still do under a last axis of one or of two.         *)
LEMMA FitsWider ==
  ASSUME NEW d, NEW m, NEW s, NEW r, Fits(d, m, s, r), NEW dd, NEW k \in {1, 2}, Wider(d, dd, m, k),
         NEW w, Wider(s, w, r, 2)
  PROVE  /\ Fits(dd, m + 1, w, r + 1)
         /\ \A a \in 1 .. r : Covers(d, m, s, r, a) => Covers(dd, m + 1, w, r + 1, a)
<1>1. m \in Nat /\ r \in Nat /\ m <= r
  BY DEF Fits, Ranked
<1>2. Ranked(dd, m + 1) /\ Ranked(w, r + 1) /\ (r + 1) - (m + 1) = r - m /\ m + 1 <= r + 1
  BY <1>1 DEF Wider
<1>3. ASSUME NEW a \in 1 .. m + 1 PROVE dd[a] \in {1, w[a + (r - m)]}
  <2>1. CASE a = m + 1
    <3>1. a + (r - m) = r + 1
      BY <1>1, <2>1
    <3> QED
      BY <2>1, <3>1 DEF Wider
  <2>2. CASE a # m + 1
    <3>1. a \in 1 .. m /\ a + (r - m) \in 1 .. r
      BY <1>1, <2>2
    <3>2. d[a] \in {1, s[a + (r - m)]}
      BY <3>1 DEF Fits
    <3> QED
      BY <3>1, <3>2 DEF Wider
  <2> QED
    BY <2>1, <2>2
<1>4. Fits(dd, m + 1, w, r + 1)
  BY <1>2, <1>3 DEF Fits
<1>5. ASSUME NEW a \in 1 .. r, Covers(d, m, s, r, a) PROVE Covers(dd, m + 1, w, r + 1, a)
  <2>1. a > r - m /\ d[a - (r - m)] = s[a]
    BY <1>5 DEF Covers
  <2>2. a - (r - m) \in 1 .. m
    BY <1>1, <2>1
  <2>3. dd[a - (r - m)] = w[a]
    BY <2>1, <2>2 DEF Wider
  <2> QED
    BY <1>2, <2>1, <2>3 DEF Covers
<1> QED
  BY <1>4, <1>5

(* A coordinate with the indices of an entry, and of a part of it, is that *)
(* part's.                                                                 *)
SameParts(e, c, p, r, k) ==
  p \in 0 .. k - 1 /\ e \in [1 .. r + 1 -> Nat] /\ e[r + 1] = p /\ \A a \in 1 .. r : e[a] = c[a]
LEMMA SamePart ==
  ASSUME NEW s, NEW w, NEW r, NEW k, Wider(s, w, r, k), Ranked(s, r), NEW c, c \in Cells(s, r),
         NEW p, NEW e, SameParts(e, c, p, r, k)
  PROVE  e = Append(c, p)
<1>1. Named(Append(c, p), c, p, w, r)
  BY PartIs DEF SameParts
<1>2. r + 1 \in Nat /\ \A j \in 1 .. r + 1 : j # r + 1 => j \in 1 .. r
  BY DEF Ranked
<1> DEFINE f == Append(c, p)
<1> HIDE DEF f
<1>3. f \in [1 .. r + 1 -> Nat] /\ f[r + 1] = p /\ \A a \in 1 .. r : f[a] = c[a]
  BY <1>1 DEF Named, Cells, f
<1>4. e \in [1 .. r + 1 -> Nat] /\ \A j \in 1 .. r + 1 : e[j] = f[j]
  BY <1>2, <1>3 DEF SameParts
<1>5. e = f
  BY <1>2, <1>3, <1>4, SameCell
<1> QED
  BY <1>5 DEF f

(* An entry of a stretched tensor: its parts are those of one entry.       *)
LEMMA WherePart ==
  ASSUME NEW d, NEW m, NEW s, NEW r, Fits(d, m, s, r), NEW dd, NEW k \in {1, 2}, Wider(d, dd, m, k),
         NEW w, Wider(s, w, r, 2), NEW c \in Cells(s, r), NEW p \in 0 .. 1
  PROVE  /\ Where(d, c) \in Cells(d, m)
         /\ Where(dd, Append(c, p)) = Append(Where(d, c), IF k = 1 THEN 0 ELSE p)
<1> DEFINE e == Append(c, p)
           f == Where(dd, e)
           g == Where(d, c)
           q == IF k = 1 THEN 0 ELSE p
<1>1. m \in Nat /\ r \in Nat /\ m <= r /\ Ranked(d, m) /\ Ranked(s, r)
  BY DEF Fits, Ranked
<1>2. Named(e, c, p, w, r)
  BY <1>1, PartIs
<1>3. Fits(dd, m + 1, w, r + 1)
  BY FitsWider
<1> HIDE DEF e
<1>4. e \in Cells(w, r + 1) /\ e[r + 1] = p /\ \A i \in 1 .. r : e[i] = c[i]
  BY <1>2 DEF Named
<1>5. g \in Cells(d, m) /\ \A i \in 1 .. m : g[i] = IF d[i] = 1 THEN 0 ELSE c[i + (r - m)]
  BY WhereIs
<1>6. f \in Cells(dd, m + 1) /\ \A i \in 1 .. m + 1 : f[i] = IF dd[i] = 1 THEN 0 ELSE e[i + (r - m)]
  <2> DEFINE mm == m + 1
             rr == r + 1
  <2>1. Fits(dd, mm, w, rr) /\ e \in Cells(w, rr) /\ rr - mm = r - m
    BY <1>1, <1>3, <1>4
  <2> HIDE DEF mm, rr, f
  <2>2. /\ Where(dd, e) \in Cells(dd, mm)
        /\ \A i \in 1 .. mm : Where(dd, e)[i] = IF dd[i] = 1 THEN 0 ELSE e[i + (rr - mm)]
    BY <2>1, WhereIs
  <2> QED
    BY <2>1, <2>2 DEF mm, f
<1> HIDE DEF f, g
<1>7. f[m + 1] = q
  <2>1. m + 1 \in 1 .. m + 1 /\ (m + 1) + (r - m) = r + 1 /\ dd[m + 1] = k
    BY <1>1 DEF Wider
  <2> QED
    BY <1>4, <1>6, <2>1
<1>8. ASSUME NEW i \in 1 .. m PROVE f[i] = g[i]
  <2>1. i \in 1 .. m + 1 /\ i + (r - m) \in 1 .. r /\ dd[i] = d[i]
    BY <1>1 DEF Wider
  <2> QED
    BY <1>4, <1>5, <1>6, <2>1
<1>9. f \in [1 .. m + 1 -> Nat] /\ q \in 0 .. k - 1
  BY <1>6 DEF Cells
<1> HIDE DEF q
<1>11. SameParts(f, g, q, m, k)
  BY <1>7, <1>8, <1>9 DEF SameParts
<1>12. g \in Cells(d, m) /\ Ranked(d, m) /\ Wider(d, dd, m, k)
  BY <1>1, <1>5
<1>10. f = Append(g, q)
  BY ONLY <1>11, <1>12, SamePart
<1> QED
  BY <1>5, <1>10 DEF f, g, e, q

(* Three operands that meet at a shape meet at it with the last axis too.  *)
LEMMA JointWider ==
  ASSUME NEW y, NEW j, NEW z, NEW k, NEW x, NEW i, NEW s, NEW r, Joint(y, j, z, k, x, i, s, r),
         NEW yy, Wider(y, yy, j, 2), NEW zz, Wider(z, zz, k, 2), NEW xx, Wider(x, xx, i, 1),
         NEW w, Wider(s, w, r, 2)
  PROVE  Joint(yy, j + 1, zz, k + 1, xx, i + 1, w, r + 1)
<1>1. /\ Fits(y, j, s, r) /\ Fits(z, k, s, r) /\ Fits(x, i, s, r) /\ (j = r \/ k = r \/ i = r)
      /\ \A a \in 1 .. r : \/ s[a] = 1 \/ Covers(y, j, s, r, a)
                           \/ Covers(z, k, s, r, a) \/ Covers(x, i, s, r, a)
  BY DEF Joint
<1>2. r \in Nat /\ j \in Nat /\ j <= r
  BY <1>1 DEF Fits, Ranked
<1>3. /\ Fits(yy, j + 1, w, r + 1)
      /\ \A a \in 1 .. r : Covers(y, j, s, r, a) => Covers(yy, j + 1, w, r + 1, a)
  BY <1>1, FitsWider
<1>4. /\ Fits(zz, k + 1, w, r + 1)
      /\ \A a \in 1 .. r : Covers(z, k, s, r, a) => Covers(zz, k + 1, w, r + 1, a)
  BY <1>1, FitsWider
<1>5. /\ Fits(xx, i + 1, w, r + 1)
      /\ \A a \in 1 .. r : Covers(x, i, s, r, a) => Covers(xx, i + 1, w, r + 1, a)
  BY <1>1, FitsWider
<1>6. Covers(yy, j + 1, w, r + 1, r + 1)
  <2>1. (r + 1) - (j + 1) = r - j /\ r + 1 > r - j /\ (r + 1) - (r - j) = j + 1
    BY <1>2
  <2>2. yy[j + 1] = w[r + 1]
    BY DEF Wider
  <2> QED
    BY <2>1, <2>2 DEF Covers
<1>7. ASSUME NEW a \in 1 .. r + 1
      PROVE  \/ w[a] = 1 \/ Covers(yy, j + 1, w, r + 1, a)
             \/ Covers(zz, k + 1, w, r + 1, a) \/ Covers(xx, i + 1, w, r + 1, a)
  <2>1. CASE a = r + 1
    BY <1>6, <2>1
  <2>2. CASE a # r + 1
    <3>1. a \in 1 .. r
      BY <1>2, <2>2
    <3>2. w[a] = s[a]
      BY <3>1 DEF Wider
    <3> QED
      BY <1>1, <1>3, <1>4, <1>5, <3>1, <3>2
  <2> QED
    BY <2>1, <2>2
<1>8. j + 1 = r + 1 \/ k + 1 = r + 1 \/ i + 1 = r + 1
  BY <1>1
<1> QED
  BY <1>3, <1>4, <1>5, <1>7, <1>8 DEF Joint

(* The part of a stored operand that a part of the result is read from.    *)
Reads(x, m, a, n, c, p) ==
  /\ Where(x.shape, c) \in Cells(x.shape, m)
  /\ a.at[Where(a.shape, Append(c, p))] = a.at[Append(Where(x.shape, c), p)]
  /\ Broadcasted(x, c) = x.at[Where(x.shape, c)]
LEMMA PartRead ==
  ASSUME NEW x, NEW m, NEW a, NEW n, Pairs(x, a, m), Fits(x.shape, m, n.shape, Len(n.shape)),
         Wider(x.shape, a.shape, m, 2), NEW w, Wider(n.shape, w, Len(n.shape), 2),
         NEW c \in Cells(n.shape, Len(n.shape)), NEW p \in 0 .. 1
  PROVE  Reads(x, m, a, n, c, p)
<1>1. /\ Where(x.shape, c) \in Cells(x.shape, m)
      /\ Where(a.shape, Append(c, p)) = Append(Where(x.shape, c), IF 2 = 1 THEN 0 ELSE p)
  BY WherePart
<1>2. Broadcasted(x, c) = x.at[Where(x.shape, c)]
  BY DEF Broadcasted, Where
<1>3. (IF 2 = 1 THEN 0 ELSE p) = p
  OBVIOUS
<1> QED
  BY <1>1, <1>2, <1>3 DEF Reads

(* The predicate of a complex select: one part, true where it is not zero. *)
Tests(cond, x, i) ==
  /\ Wider(x.shape, cond.shape, i, 1)
  /\ \A d \in Cells(x.shape, i) : cond.at[Append(d, 0)] = (x.at[d] # 0)
LEMMA TestIs ==
  ASSUME NEW x, NEW i, Numeric(x, i)
  PROVE  Tests(Each(Reshape(x, Append(x.shape, 1)), LAMBDA v : v # 0), x, i)
<1> DEFINE u == Reshape(x, Append(x.shape, 1))
           cond == Each(u, LAMBDA v : v # 0)
<1>1. OnePart(u, x, i)
  BY OnePartIs
<1> HIDE DEF u
<1>2. /\ Ranked(u.shape, i + 1) /\ Wider(x.shape, u.shape, i, 1)
      /\ \A d \in Cells(x.shape, i) : u.at[Append(d, 0)] = x.at[d]
  BY <1>1 DEF OnePart, Numeric
<1>3. Coords(u.shape) = Cells(u.shape, i + 1)
  BY <1>2, RankedCells
<1>4. /\ cond.shape = u.shape
      /\ \A e \in Cells(u.shape, i + 1) : cond.at[e] = (u.at[e] # 0)
  BY <1>3 DEF Each, Tensor
<1> HIDE DEF cond
<1>5. ASSUME NEW d \in Cells(x.shape, i) PROVE cond.at[Append(d, 0)] = (x.at[d] # 0)
  <2>1. Ranked(x.shape, i) /\ 0 \in 0 .. 1 - 1
    BY DEF Numeric
  <2>2. Named(Append(d, 0), d, 0, u.shape, i)
    BY <1>2, <2>1, PartIs
  <2>3. Append(d, 0) \in Cells(u.shape, i + 1)
    BY <2>2 DEF Named
  <2> QED
    BY <1>2, <1>4, <2>3
<1>6. Tests(cond, x, i)
  BY <1>2, <1>4, <1>5 DEF Tests
<1> QED
  BY <1>6 DEF cond, u

(* The operands of a complex select, and the shapes they meet at.          *)
Selects(n, x, i, y, j, a, z, k, b) ==
  /\ Numeric(x, i) /\ Pairs(y, a, j) /\ Pairs(z, b, k)
  /\ Wider(y.shape, a.shape, j, 2) /\ Wider(z.shape, b.shape, k, 2)
  /\ Joint(y.shape, j, z.shape, k, x.shape, i, n.shape, Len(n.shape))
LEMMA SelectOperands ==
  ASSUME NEW n, Wide(n), n.op = "select"
  PROVE  Selects(n, In(n, 1), Len(In(n, 1).shape), Operand(n, 2), Len(Operand(n, 2).shape), Promote(n, 2),
                 Operand(n, 3), Len(Operand(n, 3).shape), Promote(n, 3))
<1> DEFINE x == In(n, 1)
           y == Operand(n, 2)
           z == Operand(n, 3)
           a == Promote(n, 2)
           b == Promote(n, 3)
           i == Len(x.shape)
           j == Len(y.shape)
           k == Len(z.shape)
<1>1. Len(n.ins) = 3 /\ Broadcasts(n)
  BY WideNode DEF LayoutAsks
<1>2. /\ 1 \in 1 .. 3 /\ 2 \in 1 .. 3 /\ 3 \in 1 .. 3
  OBVIOUS
<1>3. /\ ShapeOf(n, 1) = x.shape /\ Numeric(x, i) /\ Stored(n, 2) /\ Stored(n, 3)
      /\ Ranked(n.shape, Len(n.shape)) /\ n.ins = [l \in 1 .. 3 |-> n.ins[l]]
  BY <1>1, <1>2, WideNode
<1>4. Pairs(y, a, j) /\ Pairs(z, b, k) /\ ShapeOf(n, 2) = y.shape /\ ShapeOf(n, 3) = z.shape
  BY <1>3 DEF Stored
<1> HIDE DEF x, y, z, a, b, i, j, k
<1>5. Ranked(x.shape, i) /\ Ranked(y.shape, j) /\ Ranked(z.shape, k)
  BY <1>3, <1>4 DEF Numeric, Pairs
<1>6. Joint(y.shape, j, z.shape, k, x.shape, i, n.shape, Len(n.shape))
  BY <1>1, <1>3, <1>4, <1>5, JointIs
<1>7. Wider(y.shape, a.shape, j, 2) /\ Wider(z.shape, b.shape, k, 2)
  BY <1>4, <1>5, WiderIs DEF Pairs, Dims
<1>8. Selects(n, x, i, y, j, a, z, k, b)
  BY <1>3, <1>4, <1>6, <1>7 DEF Selects
<1> QED
  BY <1>8 DEF x, y, z, a, b, i, j, k

(* _apply_complex "select": both parts of the operand the predicate picks. *)
LEMMA WideSelectIsNx ==
  ASSUME NEW n, Wide(n), n.op = "select"
  PROVE  AnswersPairs(Apply(n), n)
<1> DEFINE x == In(n, 1)
           y == Operand(n, 2)
           z == Operand(n, 3)
           a == Promote(n, 2)
           b == Promote(n, 3)
           i == Len(x.shape)
           j == Len(y.shape)
           k == Len(z.shape)
           s == n.shape
           r == Len(n.shape)
           w == Append(n.shape, 2)
           cond == Each(Reshape(x, Append(x.shape, 1)), LAMBDA v : v # 0)
           t == WhereElse(cond, a, b)
<1>1. Selects(n, x, i, y, j, a, z, k, b)
  BY SelectOperands
<1>2. Tests(cond, x, i)
  BY <1>1, TestIs DEF Selects
<1>3. Apply(n) = t
  <2>1. Apply(n) = ApplyComplex(n, Promote(n, 1), Promote(n, 2))
    BY DEF Apply, Wide
  <2> QED
    BY <2>1 DEF ApplyComplex, ComplexSelect
<1> HIDE DEF cond, i, j, k, w, t, x, y, z, a, b
<1>4. Ranked(s, r) /\ r \in Nat /\ Wider(s, w, r, 2)
  BY ResultWider DEF w
<1>5. /\ Numeric(x, i) /\ Pairs(y, a, j) /\ Pairs(z, b, k)
      /\ Wider(y.shape, a.shape, j, 2) /\ Wider(z.shape, b.shape, k, 2)
      /\ Joint(y.shape, j, z.shape, k, x.shape, i, s, r)
  BY <1>1 DEF Selects
<1>6. Wider(x.shape, cond.shape, i, 1)
  BY <1>2 DEF Tests
<1>7. Fits(y.shape, j, s, r) /\ Fits(z.shape, k, s, r) /\ Fits(x.shape, i, s, r)
  BY <1>5 DEF Joint
<1>8. ChosenFrom(cond, a, b, w, r + 1)
  <2>1. Joint(a.shape, j + 1, b.shape, k + 1, cond.shape, i + 1, w, r + 1)
    BY <1>4, <1>5, <1>6, JointWider
  <2> DEFINE ii == i + 1
             jj == j + 1
             kk == k + 1
             rr == r + 1
  <2>2. Joint(a.shape, jj, b.shape, kk, cond.shape, ii, w, rr)
    BY <2>1
  <2> HIDE DEF ii, jj, kk, rr
  <2>3. ChosenFrom(cond, a, b, w, rr)
    BY <2>2, WhereElseIs
  <2> QED
    BY <2>3 DEF rr
<1>9. /\ Filled(t, w, r + 1)
      /\ \A e \in Cells(w, r + 1) : t.at[e] = IF cond.at[Where(cond.shape, e)]
                                              THEN a.at[Where(a.shape, e)] ELSE b.at[Where(b.shape, e)]
  BY <1>8 DEF ChosenFrom, t
<1>10. ASSUME NEW c \in Cells(s, r), NEW p \in 0 .. 1 PROVE Sent(t, n, c, p)
  <2> DEFINE e == Append(c, p)
             v == x.at[Where(x.shape, c)]
  <2>1. Named(e, c, p, w, r)
    BY <1>4, PartIs
  <2>2. e \in Cells(w, r + 1)
    BY <2>1 DEF Named
  <2>3. Reads(y, j, a, n, c, p) /\ Reads(z, k, b, n, c, p)
    BY <1>4, <1>5, <1>7, PartRead
  <2>4. /\ Where(x.shape, c) \in Cells(x.shape, i)
        /\ Where(cond.shape, e) = Append(Where(x.shape, c), IF 1 = 1 THEN 0 ELSE p)
    BY <1>4, <1>6, <1>7, WherePart
  <2>5. cond.at[Where(cond.shape, e)] = (v # 0)
    BY <1>2, <2>4 DEF Tests
  <2>6. Broadcasted(x, c) = v
    BY DEF Broadcasted, Where
  <2>7. NxLayout(n, c) = IF v # 0 THEN Broadcasted(y, c) ELSE Broadcasted(z, c)
    BY <2>6 DEF NxLayout, x, y, z
  <2>8. t.at[e] = IF v # 0 THEN a.at[Where(a.shape, e)] ELSE b.at[Where(b.shape, e)]
    BY <1>9, <2>2, <2>5
  <2>9. CASE v # 0
    <3>1. /\ Where(y.shape, c) \in Cells(y.shape, j) /\ NxLayout(n, c) = y.at[Where(y.shape, c)]
          /\ t.at[e] = a.at[Append(Where(y.shape, c), p)]
      BY <2>3, <2>7, <2>8, <2>9 DEF Reads
    <3> QED
      BY <1>5, <3>1 DEF Sent
  <2>10. CASE ~(v # 0)
    <3>1. /\ Where(z.shape, c) \in Cells(z.shape, k) /\ NxLayout(n, c) = z.at[Where(z.shape, c)]
          /\ t.at[e] = b.at[Append(Where(z.shape, c), p)]
      BY <2>3, <2>7, <2>8, <2>10 DEF Reads
    <3> QED
      BY <1>5, <3>1 DEF Sent
  <2> QED
    BY <2>9, <2>10
<1>11. ASSUME NEW c \in Cells(s, r)
       PROVE  NxLayout(n, c) = <<t.at[Append(c, 0)], t.at[Append(c, 1)]>>
  <2>1. Sent(t, n, c, 0) /\ Sent(t, n, c, 1)
    <3>1. 0 \in 0 .. 1 /\ 1 \in 0 .. 1
      OBVIOUS
    <3> QED
      BY <1>10, <3>1
  <2> QED
    BY <2>1, SentFrom
<1>12. AnswersPairs(t, n)
  BY <1>9, <1>11 DEF AnswersPairs, w
<1> QED
  BY <1>3, <1>12

-----------------------------------------------------------------------------
(* Every node.                                                             *)

(* Every layout of real tensors is what Nx asks.                           *)
LEMMA RealIsNx ==
  ASSUME NEW n, Real(n), ~Unsupported(n)
  PROVE  Answers(Apply(n), n)
<1>1. n.op \in {"reshape", "squeeze"} => Answers(Apply(n), n)
  BY ReshapeIsNx
<1>2. n.op = "broadcast" => Answers(Apply(n), n)
  BY BroadcastIsNx
<1>3. n.op = "transpose" => Answers(Apply(n), n)
  BY TransposeIsNx
<1>4. n.op = "reverse" => Answers(Apply(n), n)
  BY ReverseIsNx
<1>5. n.op = "concatenate" => Answers(Apply(n), n)
  BY ConcatenateIsNx
<1>6. n.op = "stack" => Answers(Apply(n), n)
  BY StackIsNx
<1>7. n.op = "eye" => Answers(Apply(n), n)
  BY EyeIsNx
<1>8. n.op = "iota" => Answers(Apply(n), n)
  BY IotaIsNx
<1>9. n.op = "pad" => Answers(Apply(n), n)
  BY PadIsNx DEF Unsupported
<1>10. n.op = "slice" => Answers(Apply(n), n)
  BY SliceIsNx
<1>11. n.op = "put_slice" => Answers(Apply(n), n)
  BY PutSliceIsNx
<1>12. n.op = "select" => Answers(Apply(n), n)
  BY SelectIsNx
<1>13. n.op = "clip" => Answers(Apply(n), n)
  BY ClipIsNx
<1>14. n.op \in LayoutOps
  BY DEF Real
<1> QED
  BY ONLY <1>1, <1>2, <1>3, <1>4, <1>5, <1>6, <1>7, <1>8, <1>9, <1>10, <1>11, <1>12, <1>13, <1>14
     DEF LayoutOps

(* Every layout of complex tensors is what Nx asks, for both parts.        *)
LEMMA WideIsNx ==
  ASSUME NEW n, Wide(n)
  PROVE  AnswersPairs(Apply(n), n)
<1>1. n.op \in {"reshape", "squeeze"} => AnswersPairs(Apply(n), n)
  BY WideReshapeIsNx
<1>2. n.op = "broadcast" => AnswersPairs(Apply(n), n)
  BY WideBroadcastIsNx
<1>3. n.op = "transpose" => AnswersPairs(Apply(n), n)
  BY WideTransposeIsNx
<1>4. n.op = "reverse" => AnswersPairs(Apply(n), n)
  BY WideReverseIsNx
<1>5. n.op = "concatenate" => AnswersPairs(Apply(n), n)
  BY WideConcatenateIsNx
<1>6. n.op = "slice" => AnswersPairs(Apply(n), n)
  BY WideSliceIsNx
<1>7. n.op = "select" => AnswersPairs(Apply(n), n)
  BY WideSelectIsNx
<1>8. n.op = "iota" => AnswersPairs(Apply(n), n)
  BY WideIotaIsNx
<1>9. n.op \in ComplexLayouts
  BY WideNode
<1> QED
  BY ONLY <1>1, <1>2, <1>3, <1>4, <1>5, <1>6, <1>7, <1>8, <1>9 DEF ComplexLayouts

(* The answer to a layout node, read as Nx sees it.                        *)
Laidout(t, n) ==
  /\ t.shape = Expected(n)
  /\ Logical(t, n.dtype = "c64").shape = n.shape
  /\ \A c \in DOMAIN Logical(t, n.dtype = "c64").at : Logical(t, n.dtype = "c64").at[c] = NxLayout(n, c)
LEMMA LayoutAnswered ==
  ASSUME NEW n \in Nodes, n.op \in LayoutOps, ~Unsupported(n)
  PROVE  Laidout(Apply(n), n)
<1> DEFINE t == Apply(n)
<1>1. CASE ~IsComplex(n)
  <2>1. Real(n)
    BY <1>1 DEF Real
  <2>2. Answers(t, n) /\ Expected(n) = n.shape /\ n.dtype # "c64"
    BY <2>1, RealIsNx, RealNode
  <2> HIDE DEF t
  <2>3. /\ t.shape = n.shape
        /\ t.at = [c \in Cells(n.shape, Len(n.shape)) |-> t.at[c]]
        /\ \A c \in Cells(n.shape, Len(n.shape)) : t.at[c] = NxLayout(n, c)
    BY <2>2 DEF Answers, Filled
  <2>4. Logical(t, n.dtype = "c64") = t
    BY <2>2 DEF Logical
  <2>5. DOMAIN t.at = Cells(n.shape, Len(n.shape))
    BY <2>3
  <2>6. Laidout(t, n)
    BY <2>2, <2>3, <2>4, <2>5 DEF Laidout
  <2> QED
    BY <2>6 DEF t
<1>2. CASE IsComplex(n)
  <2>1. Wide(n)
    BY <1>2 DEF Wide
  <2>2. /\ AnswersPairs(t, n) /\ Expected(n) = Append(n.shape, 2) /\ n.dtype = "c64"
        /\ Ranked(n.shape, Len(n.shape))
    BY <2>1, WideIsNx, WideNode
  <2> HIDE DEF t
  <2>3. /\ t.shape = Append(n.shape, 2)
        /\ \A c \in Cells(n.shape, Len(n.shape)) :
              NxLayout(n, c) = <<t.at[Append(c, 0)], t.at[Append(c, 1)]>>
    BY <2>2 DEF AnswersPairs, Filled
  <2>4. ReadAs(t, n.shape, Len(n.shape))
    BY <2>2, <2>3, LogicalIs
  <2> DEFINE l == Logical(t, TRUE)
  <2> HIDE DEF l
  <2>5. /\ l.shape = n.shape
        /\ l.at = [d \in Cells(n.shape, Len(n.shape)) |-> <<t.at[Append(d, 0)], t.at[Append(d, 1)]>>]
    BY <2>4 DEF ReadAs, l
  <2>6. \A c \in DOMAIN l.at : l.at[c] = NxLayout(n, c)
    BY <2>3, <2>5
  <2>7. Logical(t, n.dtype = "c64") = l
    <3>1. (n.dtype = "c64") = TRUE
      BY <2>2
    <3> QED
      BY <3>1 DEF l
  <2>8. Laidout(t, n)
    BY <2>2, <2>3, <2>5, <2>6, <2>7 DEF Laidout
  <2> QED
    BY <2>8 DEF t
<1> QED
  BY <1>1, <1>2

(* What the worker has answered: nothing yet, a refusal, or Apply's answer *)
(* once its shape was checked.                                             *)
AnsweredInv ==
  /\ node \in Nodes
  /\ \/ out = Pending
     \/ Unsupported(node) /\ out = Rejected
     \/ ~Unsupported(node) /\ out = Checked(Apply(node), Expected(node))
LEMMA AnsweredHolds == Spec => []AnsweredInv
<1>1. Init => AnsweredInv
  BY DEF Init, AnsweredInv
<1>2. AnsweredInv /\ [Next]_vars => AnsweredInv'
  <2> SUFFICES ASSUME AnsweredInv, [Next]_vars PROVE AnsweredInv'
    OBVIOUS
  <2>1. CASE Answer
    BY <2>1 DEF Answer, AnsweredInv
  <2>2. CASE Refuse
    <3>1. node' = node /\ Unsupported(node) /\ out' = Rejected
      BY <2>2 DEF Refuse
    <3>2. Unsupported(node')
      BY <3>1
    <3> QED
      BY <3>1, <3>2 DEF AnsweredInv
  <2>3. CASE UNCHANGED vars
    BY <2>3 DEF AnsweredInv, vars
  <2> QED
    BY <2>1, <2>2, <2>3 DEF Next
<1> QED
  BY <1>1, <1>2, PTL DEF Spec

(* LayoutIsNx: for every node Nx can ask for - any rank, any sizes, any    *)
(* axes, real and complex - every entry of the worker's answer to a layout *)
(* operation is the operand entry Nx puts there (operations.py: _broadcast,*)
(* _stack, _pad, _slice, _put_slice, _apply_complex, apply).               *)
THEOREM LayoutIsRight == Spec => []LayoutIsNx
<1>1. AnsweredInv => LayoutIsNx
  <2> SUFFICES ASSUME AnsweredInv, HasValue(LayoutOps)
               PROVE  Entries(LAMBDA c : Answered(node).at[c] = NxLayout(node, c))
    BY DEF LayoutIsNx
  <2> DEFINE t == Apply(node)
             l == Logical(t, node.dtype = "c64")
  <2>1. /\ node \in Nodes /\ node.op \in LayoutOps /\ ~Unsupported(node)
        /\ out = Checked(t, Expected(node))
    BY DEF AnsweredInv, HasValue
  <2>2. Laidout(t, node)
    BY <2>1, LayoutAnswered
  <2> HIDE DEF t
  <2>3. out = Value(t)
    BY <2>1, <2>2 DEF Laidout, Checked
  <2>4. out.kind = "value" /\ out.tensor = t
    BY <2>3 DEF Value
  <2>5. Answered(node) = l
    BY <2>4 DEF Answered
  <2>6. l.shape = node.shape /\ \A c \in DOMAIN l.at : l.at[c] = NxLayout(node, c)
    BY <2>2 DEF Laidout
  <2> HIDE DEF l
  <2> QED
    BY <2>4, <2>5, <2>6 DEF Entries
<1> QED
  BY <1>1, AnsweredHolds, PTL
=============================================================================
