---------------------------- MODULE NxOperations ----------------------------
(***************************************************************************)
(* What Nx promises of each operation, entry by entry, and the statement    *)
(* that the worker's composition of tinygrad calls computes it.  Nothing    *)
(* here reshapes, permutes or pads: an entry of the result is defined from  *)
(* the entries of the operands.  A complex tensor's entries are pairs.      *)
(***************************************************************************)
EXTENDS Operations

\* A stored tensor read as Nx sees it.
Logical(t, complex) ==
    IF ~complex THEN t
    ELSE Tensor(Front(t.shape), LAMBDA c : <<t.at[Append(c, 0)], t.at[Append(c, 1)]>>)
Operand(n, i) ==
    IF ~IsComplex(n) \/ n.complex[i] THEN Logical(In(n, i), IsComplex(n))
    ELSE Each(In(n, i), LAMBDA v : <<v, 0>>)
Answered(n) == Logical(out.tensor, n.dtype = "c64")

Add(v, w, complex) == IF complex THEN <<v[1] + w[1], v[2] + w[2]>> ELSE v + w
Mul(v, w, complex) ==
    IF complex THEN <<v[1] * w[1] - v[2] * w[2], v[1] * w[2] + v[2] * w[1]>> ELSE v * w
Total(S, F(_), complex) ==
    FoldSet(LAMBDA x, acc : Add(F(x), acc, complex), IF complex THEN <<0, 0>> ELSE 0, S)

Inside(d, shape) == \A a \in DOMAIN shape : d[a] \in 0..(shape[a] - 1)

-----------------------------------------------------------------------------
(* Layout: every entry of the result is an entry of an operand. *)

\* Operands joined along an axis lie end to end.
Joined(n, axis, c) ==
    LET before(i) == SumOf([j \in 1..(i - 1) |-> Operand(n, j).shape[axis]])
        i == CHOOSE i \in DOMAIN n.ins : before(i) <= c[axis] /\ c[axis] < before(i + 1)
    IN  Operand(n, i).at[[c EXCEPT ![axis] = @ - before(i)]]

\* Numpy broadcasting of one operand at an entry of the result.
Broadcasted(x, c) ==
    x.at[[a \in DOMAIN x.shape |-> IF x.shape[a] = 1 THEN 0
                                   ELSE c[a + Len(c) - Len(x.shape)]]]

\* Nx moves a start so that the window fits.
NxStart(n, a, span) ==
    Max({0, Min({n.starts[a].at, In(n, 1).shape[a] - span})})

NxLayout(n, c) ==
    LET x == Operand(n, 1)
        rank == Len(c)
    IN  CASE n.op \in {"reshape", "squeeze"} ->
                x.at[CHOOSE d \in Coords(x.shape) : Offset(x.shape, d) = Offset(n.shape, c)]
          [] n.op = "broadcast" ->
                x.at[[i \in DOMAIN x.shape |-> IF x.shape[i] = 1 THEN 0 ELSE c[n.axes[i]]]]
          [] n.op = "transpose" ->
                x.at[CHOOSE d \in Coords(x.shape) : \A i \in 1..rank : d[n.axes[i]] = c[i]]
          [] n.op = "reverse" ->
                x.at[CHOOSE d \in Coords(x.shape) : \A a \in 1..rank :
                        IF a \in Range(n.axes) THEN d[a] + c[a] = x.shape[a] - 1 ELSE d[a] = c[a]]
          [] n.op = "concatenate" -> Joined(n, n.axis, c)
          [] n.op = "stack" -> Operand(n, c[n.axis] + 1).at[RemoveAt(c, n.axis)]
          [] n.op = "eye"   -> IF c[rank - 1] = c[rank] THEN 1 ELSE 0
          [] n.op = "iota"  -> LET v == IF n.axis = 0 THEN Offset(n.shape, c) ELSE c[n.axis]
                               IN  IF IsComplex(n) THEN <<v, 0>> ELSE v
          [] n.op = "pad"   ->
                LET d == [a \in 1..rank |-> c[a] - n.config[a][1]]
                IN  IF Inside(d, x.shape) THEN x.at[d] ELSE n.value
          [] n.op = "slice" ->
                x.at[[a \in 1..rank |-> NxStart(n, a, n.lengths[a]) + c[a] * n.strides[a]]]
          [] n.op = "put_slice" ->
                LET s == Operand(n, 2)
                    d == [a \in 1..rank |-> c[a] - NxStart(n, a, s.shape[a])]
                IN  IF Inside(d, s.shape) THEN s.at[d] ELSE x.at[c]
          [] n.op = "select" ->
                IF Broadcasted(In(n, 1), c) # 0 THEN Broadcasted(Operand(n, 2), c)
                                                ELSE Broadcasted(Operand(n, 3), c)
          [] n.op = "clip"  ->
                Min({Max({Broadcasted(x, c), Broadcasted(Operand(n, 2), c)}),
                     Broadcasted(Operand(n, 3), c)})

-----------------------------------------------------------------------------
(* Selections: reductions, windows, gathers and scatters. *)

SelectionOps == {"sum", "product", "reduce_max", "reduce_min", "all", "any", "argmax", "argmin",
                 "window_sum", "window_max", "window_min", "window_product",
                 "window_scatter_max", "window_scatter_min",
                 "gather", "indexed_add", "indexed_put"}

\* The entries a reduction over axes folds into entry c of its result.
Lane(x, axes, keep, c) ==
    LET others == Others(x, axes)
    IN  {d \in Coords(x.shape) : \A i \in DOMAIN others :
            d[others[i]] = (IF keep THEN c[others[i]] ELSE c[i])}

NxReduce(n, c) ==
    LET x == Operand(n, 1)
        lane == Lane(x, Range(n.axes), n.keep, c)
        values == {x.at[d] : d \in lane}
    IN  CASE n.op = "sum" -> Total(lane, LAMBDA d : x.at[d], IsComplex(n))
          [] n.op = "product" -> FoldSet(LAMBDA d, acc : acc * x.at[d], 1, lane)
          [] n.op = "reduce_max" -> Max(values)
          [] n.op = "reduce_min" -> Min(values)
          [] n.op = "all" -> Truth(0 \notin values)
          [] n.op = "any" -> Truth(\E v \in values : v # 0)

NxArg(n, c) ==
    LET x == Operand(n, 1)
        axes == IF n.axis = 0 THEN DOMAIN x.shape ELSE {n.axis}
        lane == Lane(x, axes, n.keep /\ n.axis # 0, c)
        index(d) == IF n.axis = 0 THEN Offset(x.shape, d) ELSE d[n.axis]
        beaten(d) == \E e \in lane : IF n.op = "argmax" THEN x.at[e] > x.at[d]
                                                        ELSE x.at[e] < x.at[d]
        winners == {index(d) : d \in {d \in lane : ~beaten(d)}}
    IN  IF n.tie = "low" THEN Min(winners) ELSE Max(winners)

\* Where place k of window c lies in the operand (perhaps in the padding).
Place(n, c, k) == [a \in DOMAIN n.window |->
    c[a] * n.strides[a] + k[a] * n.dilations[a] - n.padding[a][1]]
NxWindow(n, c) ==
    LET x == In(n, 1)
        seen == {k \in Coords(n.window) : Inside(Place(n, c, k), x.shape)}
        v(k) == x.at[Place(n, c, k)]
    IN  CASE n.op = "window_sum" -> Total(seen, v, FALSE)
          [] n.op = "window_product" -> FoldSet(LAMBDA k, acc : acc * v(k), 1, seen)
          [] n.op = "window_max" -> Max({v(k) : k \in seen} \cup {0 - Inf})
          [] n.op = "window_min" -> Min({v(k) : k \in seen} \cup {Inf})

\* The entry a window chooses: the last of its extreme ones.
Chosen(n, w) ==
    LET x == In(n, 1)
        seen == {d \in {Place(n, w, k) : k \in Coords(n.window)} : Inside(d, x.shape)}
        sign == IF n.op = "window_scatter_max" THEN 1 ELSE 0 - 1
        loses(d, e) == \/ sign * x.at[d] < sign * x.at[e]
                       \/ x.at[d] = x.at[e] /\ Offset(x.shape, d) < Offset(x.shape, e)
    IN  CHOOSE d \in seen : ~\E e \in seen : loses(d, e)
NxScatter(n, c) ==
    n.init + Total({w \in Coords(In(n, 2).shape) : Chosen(n, w) = c},
                   LAMBDA w : In(n, 2).at[w], FALSE)

NxGather(n, c) ==
    LET x == In(n, 1)
        idx == In(n, 2)
        others == Others(x, Range(n.axes))
        batch == Len(idx.shape) - 1
    IN  x.at[CHOOSE d \in Coords(x.shape) :
            /\ \A j \in DOMAIN n.axes : d[n.axes[j]] = idx.at[SubSeq(c, 1, batch) \o <<j - 1>>]
            /\ \A j \in DOMAIN others : d[others[j]] = c[batch + j]]

NxIndexed(n, c) ==
    LET x == In(n, 1)
        idx == In(n, 2)
        others == Others(x, Range(n.axes))
        rows == {r \in 0..(idx.shape[1] - 1) :
                    \A j \in DOMAIN n.axes : idx.at[<<r, j - 1>>] = c[n.axes[j]]}
        update(r) == In(n, 3).at[<<r>> \o Pick(c, others)]
    IN  IF n.op = "indexed_add" THEN x.at[c] + Total(rows, update, FALSE)
        ELSE IF rows = {} THEN x.at[c] ELSE update(CHOOSE r \in rows : TRUE)

NxSelection(n, c) ==
    CASE n.op \in {"sum", "product", "reduce_max", "reduce_min", "all", "any"} -> NxReduce(n, c)
      [] n.op \in {"argmax", "argmin"} -> NxArg(n, c)
      [] n.op \in {"window_sum", "window_max", "window_min", "window_product"} -> NxWindow(n, c)
      [] n.op \in {"window_scatter_max", "window_scatter_min"} -> NxScatter(n, c)
      [] n.op = "gather" -> NxGather(n, c)
      [] n.op \in {"indexed_add", "indexed_put"} -> NxIndexed(n, c)

-----------------------------------------------------------------------------
(* Contractions *)

NxDot(n, c) ==
    LET a == Operand(n, 1)
        b == Operand(n, 2)
        nb == Len(n.batch_left)
        freeA == Others(a, Range(n.batch_left) \cup Range(n.contract_left))
        freeB == Others(b, Range(n.batch_right) \cup Range(n.contract_right))
        meets(d, e) ==
            /\ \A i \in 1..nb : d[n.batch_left[i]] = c[i] /\ e[n.batch_right[i]] = c[i]
            /\ \A i \in DOMAIN freeA : d[freeA[i]] = c[nb + i]
            /\ \A i \in DOMAIN freeB : e[freeB[i]] = c[nb + Len(freeA) + i]
            /\ \A i \in DOMAIN n.contract_left : d[n.contract_left[i]] = e[n.contract_right[i]]
    IN  Total({p \in Coords(a.shape) \X Coords(b.shape) : meets(p[1], p[2])},
              LAMBDA p : Mul(a.at[p[1]], b.at[p[2]], IsComplex(n)), IsComplex(n))

\* An entry of the kernel meets an entry of the input when the stride, the
\* padding and the two dilations bring them to the same place.
NxConv(n, c) ==
    LET x == In(n, 1)
        w == In(n, 2)
        ip == n.input_permutation
        kp == n.kernel_permutation
        op == n.output_permutation
        per == w.shape[kp[1]] \div n.feature_group_size
        meets(d, e) ==
            /\ d[ip[1]] = c[op[1]]
            /\ e[kp[1]] = c[op[2]]
            /\ d[ip[2]] = (c[op[2]] \div per) * w.shape[kp[2]] + e[kp[2]]
            /\ \A s \in DOMAIN n.strides :
                  d[ip[s + 2]] * n.input_dilation[s] + n.padding[s][1] =
                      c[op[s + 2]] * n.strides[s] + e[kp[s + 2]] * n.kernel_dilation[s]
    IN  Total({p \in Coords(x.shape) \X Coords(w.shape) : meets(p[1], p[2])},
              LAMBDA p : x.at[p[1]] * w.at[p[2]], FALSE)

\* The part of the matrix the solve may read, and whether x solves it.
Used(n, i, j) ==
    LET a == In(n, 1)
        v == IF n.transform_a = "transpose" THEN a.at[<<j, i>>] ELSE a.at[<<i, j>>]
        below == IF n.transform_a = "transpose" THEN j >= i ELSE i >= j
    IN  IF (n.lower /\ below) \/ (~n.lower /\ (~below \/ i = j)) THEN v ELSE 0
Solves(n, x) ==
    LET size == In(n, 1).shape[1]
        cols == Coords(Tail(x.shape))
    IN  \A i \in 0..(size - 1), k \in cols :
            (Total(0..(size - 1), LAMBDA j : Used(n, i, j) * x.at[<<j>> \o k], FALSE)
                - In(n, 2).at[<<i>> \o k]) % Prime = 0

\* The transform by its definition.
NxFft(n, c) ==
    LET x == Operand(n, 1)
        root(k) == CASE k = 0 -> <<1, 0>> [] k = 1 -> <<0, 0 - 1>>
                     [] k = 2 -> <<0 - 1, 0>> [] k = 3 -> <<0, 1>>
    IN  Total(0..(n.length - 1), LAMBDA m :
            Mul(x.at[[c EXCEPT ![n.axis] = m]],
                root((m * c[n.axis] * (4 \div n.length)) % 4), TRUE), TRUE)

-----------------------------------------------------------------------------
(* Elementwise *)

Magnitude(v) == IF v < 0 THEN 0 - v ELSE v
\* Division that truncates: the remainder has the dividend's sign.
NxDivides(x, y, q, r) ==
    x = q * y + r /\ Magnitude(r) < Magnitude(y) /\ (r # 0 => (r < 0) = (x < 0))

Pattern(v, w) == v % 2^w
NxBits(n, v) ==
    LET w == Width(n.dtype)
    IN  IF n.op = "population_count"
        THEN Cardinality({i \in 0..(w - 1) : (Pattern(v, w) \div 2^i) % 2 = 1})
        ELSE w - Min({k \in 0..w : Pattern(v, w) < 2^k})

\* The eight directions, counterclockwise from the positive x axis.
NxAngle(y, x) ==
    LET dirs == <<<<0 - 1, 0 - 1>>, <<0 - 1, 0>>, <<0 - 1, 1>>, <<0, 1>>, <<1, 1>>, <<1, 0>>,
                  <<1, 0 - 1>>, <<0, 0 - 1>>>>
    IN  (CHOOSE i \in 1..8 : dirs[i] = <<y, x>>) - 4

\* The integer nearest to x / One, a half away from zero.
NxRounded(x, v) ==
    LET away == 2 * Magnitude(One * v - x)
    IN  away <= One /\ (away = One => Magnitude(One * v) > Magnitude(x))
\* The floats whose sum with a half is not one and rounds up to an integer: the
\* last one below a half, and the odd integers that fill the mantissa.
SumSlips(x) ==
    LET m == Magnitude(x)
    IN  \/ m = One \div 2 - 1
        \/ 2^(Mantissa - 1) * One <= m /\ m < 2^Mantissa * One /\ (m \div One) % 2 = 1

NxElement(n, c) ==
    LET v == out.tensor.at[c]
        x == Broadcasted(In(n, 1), c)
        y == Broadcasted(In(n, 2), c)
    IN  CASE n.op = "quotient"  -> NxDivides(x, y, v, x - v * y)
          [] n.op = "remainder" -> \E q \in {(x - v) \div y} : NxDivides(x, y, q, v)
          [] n.op = "atan2" -> IF x = 0 /\ y = 0 THEN v = 0 ELSE v = NxAngle(x, y)
          [] n.op = "round" ->
                NxRounded(x, IF ~SumSlips(x) THEN v ELSE IF x < 0 THEN v + 1 ELSE v - 1)
          [] n.op \in {"count_leading_zeros", "population_count"} -> v = NxBits(n, x)
ElementOps == {"quotient", "remainder", "atan2", "round", "count_leading_zeros",
               "population_count"}

\* Complex arithmetic; a quotient is what times the divisor is the dividend.
NxComplex(n, c) ==
    LET v == Answered(n).at[c]
        x == Broadcasted(Operand(n, 1), c)
        y == Broadcasted(Operand(n, 2), c)
    IN  CASE n.op = "add" -> v = Add(x, y, TRUE)
          [] n.op = "subtract" -> Add(v, y, TRUE) = x
          [] n.op = "multiply" -> v = Mul(x, y, TRUE)
          [] n.op = "divide" -> LET p == Mul(v, y, TRUE)
                                IN  (p[1] - x[1]) % Prime = 0 /\ (p[2] - x[2]) % Prime = 0
          [] n.op = "conjugate" -> v = <<x[1], 0 - x[2]>>
          [] n.op = "real" -> v = x[1]
          [] n.op = "imag" -> v = x[2]
ComplexOps == {"add", "subtract", "multiply", "divide", "conjugate", "real", "imag"}

-----------------------------------------------------------------------------
(* Properties *)

HasValue(ops) == out # Pending /\ node.op \in ops /\ ~Unsupported(node)
Entries(Right(_)) ==
    /\ out.kind = "value"
    /\ LET t == Answered(node)
       IN  t.shape = node.shape /\ \A c \in DOMAIN t.at : Right(c)

\* Whatever a node asks of the layout - a broadcast into any axes, a transpose
\* that is not its own inverse, a join along an inner axis, padding that crops,
\* a start that is static, read at run time or bound to a Variable - every entry
\* of the answer is the operand entry Nx puts there, complex pairs included
\* (operations.py: _broadcast, _stack, _pad, _slice, _put_slice, _apply_complex).
LayoutIsNx ==
    HasValue(LayoutOps) => Entries(LAMBDA c : Answered(node).at[c] = NxLayout(node, c))

\* Reductions over any axes (all and any over at least one), windows with padding
\* and dilation, gathers and scatters over any choice and order of axes answer
\* what Nx defines, ties and overlaps included
\* (operations.py: _reduce, _argreduce, _window, _window_scatter, _gather, _indexed).
SelectionIsNx ==
    HasValue(SelectionOps) =>
        Entries(LAMBDA c : Answered(node).at[c] = NxSelection(node, c))

\* dot over any batch and contraction axes, convolutions in any layout with
\* groups, strides and both dilations, the triangular solves and the Fourier
\* transform along any axis are the sums Nx defines; a solution solves the
\* system it was asked for (operations.py: _einsum_dot, _conv, _triangular_solve, _dft).
ContractionIsNx ==
    /\ HasValue({"dot"})  => Entries(LAMBDA c : Answered(node).at[c] = NxDot(node, c))
    /\ HasValue({"conv"}) => Entries(LAMBDA c : Answered(node).at[c] = NxConv(node, c))
    /\ HasValue({"triangular_solve"}) => out.kind = "value" /\ Solves(node, out.tensor)
    /\ HasValue({"fft"})  =>
          /\ Entries(LAMBDA c : Answered(node).at[c] = NxFft(node, c))
          /\ Dft(out.tensor, node.length, node.axis, TRUE) = Promote(node, 1)

\* Integer division through floats truncates and leaves a remainder of the
\* dividend's sign for every pair the mantissa holds; angles have their quadrant;
\* bits are counted over the dtype's width, signed or not.  Rounding goes to the
\* nearest integer, a half away from zero, of every float but the one below a half
\* and the odd integers whose half is beyond the mantissa: these end one too far
\* (operations.py: _quotient, _remainder, _atan2, _bit_reduce, UNARY["round"]).
ElementsAreNx ==
    HasValue(ElementOps) /\ ~IsComplex(node) => Entries(LAMBDA c : NxElement(node, c))

\* Arithmetic on the stored pairs, with real operands promoted and shapes
\* broadcast under the hidden last axis, is complex arithmetic
\* (operations.py: _promote, _apply_complex).
ComplexIsPairs ==
    HasValue(ComplexOps) /\ IsComplex(node) => Entries(LAMBDA c : NxComplex(node, c))
=============================================================================
