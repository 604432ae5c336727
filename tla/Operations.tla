----------------------------- MODULE Operations -----------------------------
(***************************************************************************)
(* priv/worker/operations.py: one Nx node turned into tinygrad calls, and   *)
(* Handler.cmd_run_node around it, which rejects a result of another shape  *)
(* than the one Nx declared.  Axes in a node's attributes count from 1 (0   *)
(* is Python's None).  A float is an integer; a division whose result is    *)
(* not one is carried out in the field of integers modulo Prime, where the  *)
(* algebra of the substitution and of the complex quotient is the same.     *)
(***************************************************************************)
EXTENDS Tensors

CONSTANTS Nodes,      \* the nodes the client may ask for
          Mantissa,   \* bits a float keeps of an integer (24 in f32)
          Prime

VARIABLES node,       \* the node asked for
          out         \* what run_node answered
vars == <<node, out>>

Pending  == [kind |-> "pending"]
Rejected == [kind |-> "rejected"]
Value(t) == [kind |-> "value", tensor |-> t]

In(n, i) == n.ins[i]

-----------------------------------------------------------------------------
(* Layout *)

\* The source axes at their place in the output, 1 elsewhere; then expand.
Broadcast(t, shape, axes) ==
    Expand(Reshape(t, [a \in DOMAIN shape |->
                IF \E i \in DOMAIN axes : axes[i] = a
                THEN t.shape[CHOOSE i \in DOMAIN axes : axes[i] = a] ELSE 1]), shape)

Concatenate(ts, axis) == CatAll(ts, axis)

Stack(ts, axis) ==
    CatAll([i \in DOMAIN ts |-> Reshape(ts[i], InsertAt(ts[i].shape, axis, 1))], axis)

Eye(shape) ==
    LET r == shape[Len(shape) - 1]
        c == shape[Len(shape)]
        diag == Zipped(Reshape(Arange(r), <<r, 1>>), Reshape(Arange(c), <<1, c>>),
                       LAMBDA x, y : IF x = y THEN 1 ELSE 0)
    IN  Expand(Reshape(diag, Ones(Len(shape) - 2) \o <<r, c>>), shape)

Iota(shape, axis) ==
    IF axis = 0 THEN Reshape(Arange(Size(shape)), shape)
    ELSE Expand(Reshape(Arange(shape[axis]), [Ones(Len(shape)) EXCEPT ![axis] = shape[axis]]),
                shape)

\* The worker only pads outwards and not in between; of the two ways to it,
\* only Backend.pad (eager) crops what is negative by itself.
PadFails(n) == \E a \in DOMAIN n.config :
                  \/ n.config[a][3] # 0
                  \/ ~n.eager /\ (n.config[a][1] < 0 \/ n.config[a][2] < 0)
Pad(t, config, v) == PadWith(t, [a \in DOMAIN config |-> <<config[a][1], config[a][2]>>], v)

-----------------------------------------------------------------------------
(* Slices.  A start is [kind, at]: static, dynamic (a scalar read when the  *)
(* node runs) or, in a captured while body, symbolic (a bound Variable).    *)

Clamp(raw, hi) == Max({0, Min({raw, hi})})

\* Mutant: bound to an index of the axis instead of to where the window fits.
SymbolicAnyIndex(starts, dims, spans) ==
    [a \in DOMAIN starts |->
        IF starts[a].kind = "static" THEN starts[a]
        ELSE [kind |-> "symbolic", at |-> Clamp(starts[a].at, dims[a] - 1)]]

\* _symbolic_while_plan and the binding in step: a dynamic start that has
\* room to move becomes a Variable bound to its clamped value.
Symbolic(starts, dims, spans) ==
    [a \in DOMAIN starts |->
        IF starts[a].kind = "static" THEN starts[a]
        ELSE IF dims[a] - spans[a] <= 0 THEN [kind |-> "static", at |-> 0]
        ELSE [kind |-> "symbolic", at |-> Clamp(starts[a].at, dims[a] - spans[a])]]

Slice(t, starts, lengths, strides) ==
    LET from == [a \in DOMAIN starts |->
            IF starts[a].kind = "dynamic" THEN Clamp(starts[a].at, t.shape[a] - lengths[a])
                                          ELSE starts[a].at]
        to   == [a \in DOMAIN starts |-> from[a] + lengths[a]]
    IN  IF \E a \in DOMAIN starts : starts[a].kind = "symbolic"
        THEN SliceBy(Shrink(t, from, to), [a \in DOMAIN from |-> 0], lengths, strides)
        ELSE SliceBy(t, from, to, strides)

PutSlice(t, starts, s) ==
    LET room(a)  == t.shape[a] - s.shape[a]
        start(a) == IF starts[a].kind = "symbolic" THEN starts[a].at
                                                   ELSE Clamp(starts[a].at, room(a))
        config == [a \in DOMAIN starts |-> <<start(a), room(a) - start(a)>>]
        mask   == PadWith(Each(s, LAMBDA v : v * 0 + 1), config, 0)
    IN  WhereElse(Each(mask, LAMBDA v : v # 0), PadWith(s, config, 0), t)

\* Which starts a node runs with.
Starts(n, spans) ==
    IF n.captured THEN Symbolic(n.starts, In(n, 1).shape, spans) ELSE n.starts

\* Backend.pad: negative padding is cropped off after the worker padded.
EagerPad(t, config, v, shape) ==
    LET pos == [a \in DOMAIN config |-> [i \in 1..3 |-> Max({config[a][i], 0})]]
        starts == [a \in DOMAIN config |->
                    [kind |-> "static", at |-> Max({0 - config[a][1], 0})]]
    IN  IF \E a \in DOMAIN config : \E i \in 1..2 : config[a][i] < 0
        THEN Slice(Pad(t, pos, v), starts, shape, Ones(Len(shape)))
        ELSE Pad(t, config, v)
-----------------------------------------------------------------------------
(* Reductions *)

Fold(op, v) == CASE op = "sum"        -> SumOf(v)
                 [] op = "product"    -> ProductOf(v)
                 [] op = "reduce_max" -> MaxOf(v)
                 [] op = "reduce_min" -> MinOf(v)

ReduceOp(t, op, axes, keep) ==
    LET mask == Each(t, LAMBDA v : IF v # 0 THEN 1 ELSE 0)
    IN  IF axes = {} THEN t
        ELSE IF op = "all" THEN Reduce(mask, axes, keep, MinOf)
        ELSE IF op = "any" THEN Reduce(mask, axes, keep, MaxOf)
        ELSE Reduce(t, axes, keep, LAMBDA v : Fold(op, v))

\* Ties go to the first index; for the last one, flip, reduce and count back.
ArgReduce(t, op, axis, keep, tie) ==
    LET pick(v) == IF op = "argmax" THEN ArgMaxOf(v) ELSE ArgMinOf(v)
        flat == Reshape(t, <<Size(t.shape)>>)
    IN  CASE tie = "low" /\ axis = 0 -> Reduce(flat, {1}, FALSE, pick)
          [] tie = "low" /\ axis # 0 -> Reduce(t, {axis}, keep, pick)
          [] tie = "high" /\ axis = 0 ->
                Each(Reduce(Flip(flat, {1}), {1}, FALSE, pick),
                     LAMBDA i : flat.shape[1] - 1 - i)
          [] tie = "high" /\ axis # 0 ->
                Each(Reduce(Flip(t, {axis}), {axis}, keep, pick),
                     LAMBDA i : t.shape[axis] - 1 - i)

\* Mutant: every window is padded with 0.
WindowZero(op) == 0

WindowIdentity(op) == CASE op = "window_sum" -> 0 [] op = "window_max" -> 0 - Inf
                        [] op = "window_min" -> Inf [] op = "window_product" -> 1

Window(t, n) ==
    LET padded == PadWith(t, n.padding, WindowIdentity(n.op))
        pooled == Pool(padded, n.window, n.strides, n.dilations)
        fold(v) == CASE n.op = "window_sum" -> SumOf(v) [] n.op = "window_max" -> MaxOf(v)
                     [] n.op = "window_min" -> MinOf(v) [] OTHER -> ProductOf(v)
    IN  Reduce(pooled, (Rank(t) + 1)..(2 * Rank(t)), FALSE, fold)

\* The last extreme place of every window.
Chooser(flat, isMax) ==
    LET lane(w) == [k \in 1..Last(flat.shape) |-> flat.at[Append(w, k - 1)]]
        last(v, best) == Max({k \in DOMAIN v : v[k] = best}) - 1
    IN  Tensor(Front(flat.shape), LAMBDA w :
            last(lane(w), IF isMax THEN MaxOf(lane(w)) ELSE MinOf(lane(w))))

\* The place in the padded operand of each place in a window.
Linear(windows, padded, n) ==
    LET rank == Rank(padded)
    IN  Tensor(windows.shape, LAMBDA c :
            Offset(padded.shape, [a \in 1..rank |-> c[a] * n.strides[a] + c[rank + a]]))

\* Every window sends its source value to its chosen place.
ScatterWindows(windows, padded, source, n) ==
    LET total == <<Size(windows.shape)>>
        contrib(last) == Tensor(Append(source.shape, Size(n.window)), LAMBDA c :
                        IF Last(c) = last.at[Front(c)] THEN source.at[Front(c)] ELSE 0)
        chosen == Chooser(Reshape(windows, Append(source.shape, Size(n.window))),
                          n.op = "window_scatter_max")
    IN  Each(Reshape(ScatterSum(Each(Arange(Size(padded.shape)), LAMBDA i : 0),
                                Reshape(Linear(windows, padded, n), total),
                                Reshape(contrib(chosen), total)), padded.shape),
             LAMBDA v : v + n.init)

\* Select and scatter.
WindowScatter(t, source, n) ==
    LET padded == PadWith(t, n.padding, IF n.op = "window_scatter_max" THEN 0 - Inf ELSE Inf)
    IN  Shrink(ScatterWindows(Pool(padded, n.window, n.strides, Ones(Rank(t))), padded, source, n),
               [a \in DOMAIN n.padding |-> n.padding[a][1]],
               [a \in DOMAIN n.padding |-> n.padding[a][1] + t.shape[a]])

-----------------------------------------------------------------------------
(* Coordinates: the indexed axes are moved to the front and collapsed, a    *)
(* coordinate over them becomes one row number.                             *)

Collapsed(t, axes) ==
    LET others == Others(t, Range(axes))
    IN  Reshape(Permute(t, axes \o others),
                <<Size(Pick(t.shape, axes))>> \o Pick(t.shape, others))

\* lin = the sum over j of idx[:, j] * strides[j]
RowNumber(idx, sizes) ==
    Vector(idx.shape[1], LAMBDA i : Offset(sizes, [j \in DOMAIN sizes |-> idx.at[<<i, j - 1>>]]))

Gather(t, idx, axes) ==
    LET batch == Front(idx.shape)
        flat  == Reshape(idx, <<Size(batch), Last(idx.shape)>>)
    IN  Reshape(Rows(Collapsed(t, axes), RowNumber(flat, Pick(t.shape, axes))),
                batch \o Pick(t.shape, Others(t, Range(axes))))

Indexed(t, idx, updates, op, axes) ==
    LET others == Others(t, Range(axes))
        perm   == axes \o others
        rows   == RowNumber(idx, Pick(t.shape, axes))
        src    == Reshape(updates, <<idx.shape[1]>> \o Pick(t.shape, others))
        done   == IF op = "indexed_add" THEN ScatterSum(Collapsed(t, axes), rows, src)
                                        ELSE Scatter(Collapsed(t, axes), rows, src)
    IN  Permute(Reshape(done, Pick(t.shape, perm)), InversePerm(perm))

-----------------------------------------------------------------------------
(* Contractions *)

\* Shared letters for batch and contracted axes, a letter of its own for every
\* free axis; the output is batch, free of a, free of b.
EinsumDot(a, b, n) ==
    LET nb == Len(n.batch_left)
        nc == Len(n.contract_left)
        freeA == Others(a, Range(n.batch_left) \cup Range(n.contract_left))
        freeB == Others(b, Range(n.batch_right) \cup Range(n.contract_right))
        letter(i, batch, contract, free, base) ==
            IF i \in Range(batch) THEN CHOOSE x \in 1..nb : batch[x] = i
            ELSE IF i \in Range(contract) THEN nb + (CHOOSE x \in 1..nc : contract[x] = i)
            ELSE base + (CHOOSE x \in DOMAIN free : free[x] = i)
        subA == [i \in DOMAIN a.shape |->
                    letter(i, n.batch_left, n.contract_left, freeA, nb + nc)]
        subB == [j \in DOMAIN b.shape |->
                    letter(j, n.batch_right, n.contract_right, freeB, nb + nc + Len(freeA))]
    IN  Einsum(subA, subB,
               [x \in 1..nb |-> x] \o Pick(subA, freeA) \o Pick(subB, freeB), a, b)

\* d - 1 zeros after every element of a space axis, the last ones cut off.
DilateAxis(x, axis, d) ==
    LET n == x.shape[axis]
        wide   == Reshape(x, InsertAt(x.shape, axis + 1, 1))
        padded == PadWith(wide, [a \in DOMAIN wide.shape |->
                                    IF a = axis + 1 THEN <<0, d - 1>> ELSE <<0, 0>>], 0)
        merged == Reshape(padded, [x.shape EXCEPT ![axis] = n * d])
    IN  Shrink(merged, [a \in DOMAIN x.shape |-> 0],
               [merged.shape EXCEPT ![axis] = (n - 1) * d + 1])
\* Mutant: a dilation by 2 is taken for none.
DilateBeyondTwo(x, dilation) ==
    FoldLeft(LAMBDA y, i : IF dilation[i] <= 2 THEN y ELSE DilateAxis(y, i + 2, dilation[i]),
             x, [i \in DOMAIN dilation |-> i])

Dilate(x, dilation) ==
    FoldLeft(LAMBDA y, i : IF dilation[i] <= 1 THEN y ELSE DilateAxis(y, i + 2, dilation[i]),
             x, [i \in DOMAIN dilation |-> i])

ConvFails(n) == n.batch_group_size # 1
Conv(x, w, n) ==
    LET dilated == Dilate(Permute(x, n.input_permutation), n.input_dilation)
        padded  == PadWith(dilated, <<<<0, 0>>, <<0, 0>>>> \o n.padding, 0)
        done    == Conv2d(padded, Permute(w, n.kernel_permutation), n.feature_group_size,
                          n.strides, n.kernel_dilation)
    IN  Permute(done, InversePerm(n.output_permutation))

Div(x, y) == CHOOSE q \in 0..(Prime - 1) : (q * y - x) % Prime = 0

\* Forward substitution for a lower matrix, backward for an upper one.
SolveFails(n) == ~n.left_side \/ n.transform_a \notin {"none", "transpose"}
TriangularSolve(a0, b, n) ==
    LET transposed == n.transform_a = "transpose"
        a     == IF transposed THEN Permute(a0, <<2, 1>>) ELSE a0
        lower == n.lower # transposed
        size  == a.shape[1]
        vector == Rank(b) = 1
        rhs   == IF vector THEN Reshape(b, <<size, 1>>) ELSE b
        order == [k \in 1..size |-> IF lower THEN k - 1 ELSE size - k]
        row(solved, i) == [c \in 0..(rhs.shape[2] - 1) |->
            Div(rhs.at[<<i, c>>]
                    - MapThenSumSet(LAMBDA j : a.at[<<i, j>>] * solved[j][c], DOMAIN solved),
                a.at[<<i, i>>])]
        rows == FoldLeft(LAMBDA solved, i : solved @@ (i :> row(solved, i)), <<>>, order)
        x    == Tensor(rhs.shape, LAMBDA c : rows[c[1]][c[2]])
    IN  IF vector THEN Reshape(x, <<size>>) ELSE x

-----------------------------------------------------------------------------
(* Elementwise integers *)

\* The float nearest to x / y (y > 0), ties to even, as n / 2^k, truncated.
TruncatedQuotient(x, y) ==
    LET abs(v) == IF v < 0 THEN 0 - v ELSE v
        k == CHOOSE i \in 0..(3 * Mantissa) :
                /\ abs(x) * 2^i >= abs(y) * 2^(Mantissa - 1)
                /\ \A j \in 0..(i - 1) : abs(x) * 2^j < abs(y) * 2^(Mantissa - 1)
        num == abs(x) * 2^k
        low == num \div abs(y)
        twice == 2 * (num % abs(y))
        near == IF twice > abs(y) \/ (twice = abs(y) /\ low % 2 = 1) THEN low + 1 ELSE low
    IN  IF x = 0 THEN 0
        ELSE IF (x < 0) = (y < 0) THEN near \div 2^k ELSE 0 - (near \div 2^k)
Quotient(x, y)  == TruncatedQuotient(x, y)
\* Mutant: the floor, as tinygrad's own % takes it.
RemainderOfFloor(x, y) == x - y * (IF y < 0 THEN (0 - x) \div (0 - y) ELSE x \div y)

Remainder(x, y) == x - y * TruncatedQuotient(x, y)

\* The angle of (x, y) in eighths of a turn; Atan is exact on slopes -1, 0, 1.
Atan(slope) == slope
Atan2(y, x) ==
    LET adj == IF x < 0 THEN (IF y >= 0 THEN 4 ELSE 0 - 4) ELSE 0
        onAxis == IF y > 0 THEN 2 ELSE IF y < 0 THEN 0 - 2 ELSE 0
    IN  IF x = 0 THEN onAxis ELSE Atan(y * x) + adj

\* A float keeps Mantissa bits of a number, ties to even.
FloatNear(v) ==
    LET s == CHOOSE i \in 0..v : v < 2^(Mantissa + i) /\ (i = 0 \/ v >= 2^(Mantissa + i - 1))
        low == v \div 2^s
        twice == 2 * (v % 2^s)
    IN  2^s * IF twice > 2^s \/ (twice = 2^s /\ low % 2 = 1) THEN low + 1 ELSE low

\* sign * floor(abs + 0.5), the sum a float again.  Values are in units of
\* 1 / One, the half of the last place below a half.
One == 2^(Mantissa + 1)
Round(q) == LET abs == IF q < 0 THEN 0 - q ELSE q
                up  == FloatNear(abs + One \div 2) \div One
            IN  IF q < 0 THEN 0 - up ELSE up

\* An integer as the set of its one bits; >> repeats the sign bit.
Width(dtype) == CASE dtype \in {"u8", "s8"} -> 8
Bits(v, w) == {i \in 0..(w - 1) : (v \div 2^i) % 2 = 1}
ShiftRight(bits, s, w, signed) ==
    {i - s : i \in {i \in bits : i >= s}}
        \cup (IF signed /\ w - 1 \in bits THEN (w - s)..(w - 1) ELSE {})
BitReduce(v, op, dtype) ==
    LET w == Width(dtype)
        shifts  == SelectSeq(<<1, 2, 4, 8, 16, 32>>, LAMBDA s : s < w)
        smeared == FoldLeft(LAMBDA bits, s :
                        bits \cup ShiftRight(bits, s, w, dtype = "s8"), Bits(v, w), shifts)
    IN  IF op = "count_leading_zeros" THEN w - Cardinality(smeared)
                                      ELSE Cardinality(Bits(v, w))

Truth(b) == IF b THEN 1 ELSE 0
Binary(op, x, y) ==
    CASE op = "add" -> x + y
      [] op = "subtract" -> x - y
      [] op = "multiply" -> x * y
      [] op = "max" -> Max({x, y})
      [] op = "min" -> Min({x, y})
      [] op = "quotient" -> Quotient(x, y)
      [] op = "remainder" -> Remainder(x, y)
      [] op = "atan2" -> Atan2(x, y)
      [] op = "logical_and" -> Truth(x # 0 /\ y # 0)
      [] op = "logical_or" -> Truth(x # 0 \/ y # 0)
      [] op = "logical_xor" -> Truth((x # 0) # (y # 0))
      [] op = "equal" -> Truth(x = y)
      [] op = "less" -> Truth(x < y)
      [] op = "less_equal" -> Truth(x <= y)
BinaryOps == {"add", "subtract", "multiply", "max", "min", "quotient", "remainder", "atan2",
              "logical_and", "logical_or", "logical_xor", "equal", "less", "less_equal"}

-----------------------------------------------------------------------------
(* Complex tensors: a real tensor with a last axis <<real, imaginary>>.     *)

Re(t) == LastAt(t, 0)
Im(t) == LastAt(t, 1)
Cxt(re, im) ==
    Cat(Reshape(re, Append(re.shape, 1)), Reshape(im, Append(im.shape, 1)), Rank(re) + 1)
\* A real tensor among complex ones is (x, 0).
Promoted(t) == Cxt(t, Each(t, LAMBDA v : v * 0))
Promote(n, i) == IF n.complex[i] THEN In(n, i) ELSE Promoted(In(n, i))

\* cos and sin of k * m / n of a turn, for n in {1, 2, 4}.
Turn(n, x, quarter) == <<1, 0, 0 - 1, 0>>[((x * (4 \div n) + quarter) % 4) + 1]
Dft(t, n, axis, inverse) ==
    LET xr == Re(t)
        perm == Append(Others(xr, {axis}), axis)
        wr == Tensor(<<n, n>>, LAMBDA c : Turn(n, c[1] * c[2], 0))
        wi == Tensor(<<n, n>>, LAMBDA c : Turn(n, c[1] * c[2], IF inverse THEN 3 ELSE 1))
        last(x) == Reshape(Permute(x, perm), <<Size(x.shape) \div n, n>>)
        back(y) == Permute(Reshape(y, Pick(xr.shape, perm)), InversePerm(perm))
        scaled(y) == IF inverse THEN Each(y, LAMBDA v : v \div n) ELSE y
        yr == Minus(Matmul(last(xr), Permute(wr, <<2, 1>>)),
                    Matmul(last(Im(t)), Permute(wi, <<2, 1>>)))
        yi == Plus(Matmul(last(xr), Permute(wi, <<2, 1>>)),
                   Matmul(last(Im(t)), Permute(wr, <<2, 1>>)))
    IN  Cxt(back(scaled(yr)), back(scaled(yi)))

\* Mutant: i * i taken for 1.
ComplexProductPlus(a, b) ==
    Cxt(Plus(Times(Re(a), Re(b)), Times(Im(a), Im(b))),
        Plus(Times(Re(a), Im(b)), Times(Im(a), Re(b))))

ComplexProduct(a, b) ==
    Cxt(Minus(Times(Re(a), Re(b)), Times(Im(a), Im(b))),
        Plus(Times(Re(a), Im(b)), Times(Im(a), Re(b))))
ComplexQuotient(a, b) ==
    LET d == Plus(Times(Re(b), Re(b)), Times(Im(b), Im(b)))
        over(t) == Zipped(t, d, Div)
    IN  Cxt(over(Plus(Times(Re(a), Re(b)), Times(Im(a), Im(b)))),
            over(Minus(Times(Im(a), Re(b)), Times(Re(a), Im(b)))))
ComplexDot(a, b, n) ==
    LET dot(x, y) == EinsumDot(x, y, n)
    IN  Cxt(Minus(dot(Re(a), Re(b)), dot(Im(a), Im(b))),
            Plus(dot(Re(a), Im(b)), dot(Im(a), Re(b))))
ComplexSelect(cond, a, b) ==
    WhereElse(Each(Reshape(cond, Append(cond.shape, 1)), LAMBDA v : v # 0), a, b)

ApplyComplex(n, a, b) ==
    LET all  == Range(n.axes)
        from == [i \in DOMAIN n.starts |-> n.starts[i].at]
        to   == [i \in DOMAIN n.starts |-> n.starts[i].at + n.lengths[i]]
    IN  CASE n.op = "add"       -> Plus(a, b)
          [] n.op = "subtract"  -> Minus(a, b)
          [] n.op = "multiply"  -> ComplexProduct(a, b)
          [] n.op = "divide"    -> ComplexQuotient(a, b)
          [] n.op = "conjugate" -> Cxt(Re(a), Each(Im(a), LAMBDA v : 0 - v))
          [] n.op = "real"      -> Re(a)
          [] n.op = "imag"      -> Im(a)
          [] n.op \in {"reshape", "squeeze"} -> Reshape(a, Append(n.shape, 2))
          [] n.op = "transpose" -> Permute(a, Append(n.axes, Len(n.shape) + 1))
          [] n.op = "reverse"   -> Flip(a, all)
          [] n.op = "broadcast" ->
                Broadcast(a, Append(n.shape, 2), Append(n.axes, Len(n.shape) + 1))
          [] n.op = "slice"     -> SliceBy(a, Append(from, 0), Append(to, 2), Append(n.strides, 1))
          [] n.op = "concatenate" -> CatAll([i \in DOMAIN n.ins |-> Promote(n, i)], n.axis)
          [] n.op = "sum"       -> Cxt(Reduce(Re(a), all, n.keep, SumOf),
                                       Reduce(Im(a), all, n.keep, SumOf))
          [] n.op = "dot"       -> ComplexDot(a, b, n)
          [] n.op = "fft"       -> Dft(a, n.length, n.axis, FALSE)
          [] n.op = "ifft"      -> Dft(a, n.length, n.axis, TRUE)
          [] n.op = "iota"      -> Promoted(Iota(n.shape, n.axis))
          [] n.op = "select"    -> ComplexSelect(In(n, 1), b, Promote(n, 3))

-----------------------------------------------------------------------------
(* apply *)

IsComplex(n) == n.dtype = "c64" \/ \E i \in DOMAIN n.complex : n.complex[i]

Apply(n) ==
    IF IsComplex(n) THEN ApplyComplex(n, Promote(n, 1), Promote(n, 2))
    ELSE CASE n.op \in BinaryOps ->
                Zipped(In(n, 1), In(n, 2), LAMBDA x, y : Binary(n.op, x, y))
          [] n.op = "round"      -> Each(In(n, 1), Round)
          [] n.op = "clip"       -> Zipped(Zipped(In(n, 1), In(n, 2), LAMBDA x, y : Max({x, y})),
                                           In(n, 3), LAMBDA x, y : Min({x, y}))
          [] n.op \in {"count_leading_zeros", "population_count"} ->
                Each(In(n, 1), LAMBDA v : BitReduce(v, n.op, n.dtype))
          [] n.op = "select" ->
                WhereElse(Each(In(n, 1), LAMBDA v : v # 0), In(n, 2), In(n, 3))
          [] n.op \in {"reshape", "squeeze"} -> Reshape(In(n, 1), n.shape)
          [] n.op = "broadcast" -> Broadcast(In(n, 1), n.shape, n.axes)
          [] n.op = "transpose" -> Permute(In(n, 1), n.axes)
          [] n.op = "reverse"   -> Flip(In(n, 1), Range(n.axes))
          [] n.op = "concatenate" -> Concatenate(n.ins, n.axis)
          [] n.op = "stack"      -> Stack(n.ins, n.axis)
          [] n.op = "eye"        -> Eye(n.shape)
          [] n.op = "iota"       -> Iota(n.shape, n.axis)
          [] n.op = "pad"        -> EagerPad(In(n, 1), n.config, n.value, n.shape)
          [] n.op = "slice" ->
                Slice(In(n, 1), Starts(n, n.lengths), n.lengths, n.strides)
          [] n.op = "put_slice"  -> PutSlice(In(n, 1), Starts(n, In(n, 2).shape), In(n, 2))
          [] n.op \in {"sum", "product", "reduce_max", "reduce_min", "all", "any"} ->
                ReduceOp(In(n, 1), n.op, Range(n.axes), n.keep)
          [] n.op \in {"argmax", "argmin"} -> ArgReduce(In(n, 1), n.op, n.axis, n.keep, n.tie)
          [] n.op \in {"window_sum", "window_max", "window_min", "window_product"} ->
                Window(In(n, 1), n)
          [] n.op \in {"window_scatter_max", "window_scatter_min"} ->
                WindowScatter(In(n, 1), In(n, 2), n)
          [] n.op = "gather"     -> Gather(In(n, 1), In(n, 2), n.axes)
          [] n.op \in {"indexed_add", "indexed_put"} ->
                Indexed(In(n, 1), In(n, 2), In(n, 3), n.op, n.axes)
          [] n.op = "dot" -> EinsumDot(In(n, 1), In(n, 2), n)
          [] n.op = "conv"       -> Conv(In(n, 1), In(n, 2), n)
          [] n.op = "triangular_solve" -> TriangularSolve(In(n, 1), In(n, 2), n)

LayoutOps == {"reshape", "squeeze", "broadcast", "transpose", "reverse", "concatenate",
              "stack", "eye", "iota", "pad", "slice", "put_slice", "select", "clip"}
\* The layouts of a complex tensor that the worker knows.
ComplexLayouts == {"reshape", "squeeze", "broadcast", "transpose", "reverse", "concatenate",
                   "iota", "slice", "select"}

\* What raises: of a complex tensor also a start read at run time, the layouts
\* the worker does not know, and a predicate that is a pair.
Unsupported(n) ==
    \/ n.op = "pad" /\ PadFails(n)
    \/ n.op = "slice" /\ IsComplex(n) /\ \E a \in DOMAIN n.starts : n.starts[a].kind # "static"
    \/ n.op \in LayoutOps \ ComplexLayouts /\ IsComplex(n)
    \/ n.op = "select" /\ n.complex[1]
    \/ n.op = "conv" /\ ConvFails(n)
    \/ n.op = "triangular_solve" /\ SolveFails(n)

Checked(t, shape) == IF t.shape = shape THEN Value(t) ELSE Rejected
Expected(n) == IF n.dtype = "c64" THEN Append(n.shape, 2) ELSE n.shape

-----------------------------------------------------------------------------
(* What Nx asks: the shape it declares follows from the operands and the    *)
(* attributes, which it has checked (Nx.Shape, outside this repository).    *)

Dims == Nat \ {0}
\* A stored tensor; a complex one has its last axis for the two parts.
IsTensor(t, complex) ==
    /\ t.shape \in Seq(Dims) /\ t.at \in [Coords(t.shape) -> Int]
    /\ complex => t.shape # <<>> /\ Last(t.shape) = 2
ShapeOf(n, i) == IF n.complex[i] THEN Front(In(n, i).shape) ELSE In(n, i).shape

\* Sizes that stretch to others, aligned at their last axes.
Stretches(dims, shape) ==
    LET skip == Len(shape) - Len(dims)
    IN  skip >= 0 /\ \A a \in DOMAIN dims : dims[a] \in {1, shape[skip + a]}
\* Some operand has the rank of the result, and some operand each of its sizes.
HasSize(dims, shape, a) ==
    LET skip == Len(shape) - Len(dims)
    IN  a > skip /\ dims[a - skip] = shape[a]
Broadcasts(n) ==
    /\ \A i \in DOMAIN n.ins : Stretches(ShapeOf(n, i), n.shape)
    /\ \E i \in DOMAIN n.ins : Len(ShapeOf(n, i)) = Len(n.shape)
    /\ \A a \in DOMAIN n.shape :
          n.shape[a] = 1 \/ \E i \in DOMAIN n.ins : HasSize(ShapeOf(n, i), n.shape, a)
\* A window that fits; a known start of a slice (Nx has clamped it) leaves room.
StartsFit(n, dims, spans) ==
    /\ n.starts \in Seq([kind : {"static", "dynamic"}, at : Int]) /\ n.captured \in BOOLEAN
    /\ Len(n.starts) = Len(dims) /\ Len(spans) = Len(dims)
    /\ \A a \in DOMAIN dims : spans[a] <= dims[a]
    /\ \A a \in DOMAIN dims : n.op = "slice" /\ n.starts[a].kind = "static" =>
                              0 <= n.starts[a].at /\ n.starts[a].at + spans[a] <= dims[a]

LayoutAsks(n) ==
    LET dims == ShapeOf(n, 1)
    IN  CASE n.op \in {"reshape", "squeeze"} -> Len(n.ins) = 1 /\ Size(n.shape) = Size(dims)
          [] n.op = "broadcast" ->
                /\ Len(n.ins) = 1 /\ n.axes \in Seq(DOMAIN n.shape) /\ Len(n.axes) = Len(dims)
                /\ \A i, j \in DOMAIN n.axes : i < j => n.axes[i] < n.axes[j]
                /\ \A i \in DOMAIN n.axes : dims[i] \in {1, n.shape[n.axes[i]]}
          [] n.op = "transpose" ->
                /\ Len(n.ins) = 1 /\ n.axes \in Bijection(DOMAIN dims, DOMAIN dims)
                /\ n.shape = Pick(dims, n.axes)
          [] n.op = "reverse" ->
                Len(n.ins) = 1 /\ n.axes \in Seq(DOMAIN dims) /\ n.shape = dims
          [] n.op = "concatenate" ->
                /\ n.ins # <<>> /\ n.axis \in DOMAIN n.shape
                /\ \A i \in DOMAIN n.ins : ShapeOf(n, i) = [n.shape EXCEPT ![n.axis] = ShapeOf(n, i)[n.axis]]
                /\ n.shape[n.axis] = SumOf([i \in DOMAIN n.ins |-> ShapeOf(n, i)[n.axis]])
          [] n.op = "stack" ->
                /\ n.ins # <<>> /\ n.axis \in 1..(Len(dims) + 1)
                /\ \A i \in DOMAIN n.ins : ShapeOf(n, i) = dims
                /\ n.shape = InsertAt(dims, n.axis, Len(n.ins))
          [] n.op = "eye"  -> n.ins = <<>> /\ Len(n.shape) >= 2
          [] n.op = "iota" -> n.ins = <<>> /\ n.axis \in 0..Len(n.shape)
          [] n.op = "pad"  ->
                /\ Len(n.ins) = 1 /\ n.config \in Seq(Int \X Int \X Nat) /\ n.value \in Int
                /\ Len(n.config) = Len(dims) /\ Len(n.shape) = Len(dims) /\ n.eager \in BOOLEAN
                /\ \A a \in DOMAIN dims : n.shape[a] = dims[a] + n.config[a][1] + n.config[a][2]
                                                     + (dims[a] - 1) * n.config[a][3]
          [] n.op = "slice" ->
                /\ Len(n.ins) = 1 /\ n.lengths \in Seq(Dims) /\ n.strides \in Seq(Dims)
                /\ StartsFit(n, dims, n.lengths) /\ Len(n.strides) = Len(dims)
                /\ n.shape = [a \in DOMAIN dims |-> (n.lengths[a] + n.strides[a] - 1) \div n.strides[a]]
          [] n.op = "put_slice" ->
                Len(n.ins) = 2 /\ n.shape = dims /\ StartsFit(n, dims, ShapeOf(n, 2))
          [] n.op \in {"select", "clip"} -> Len(n.ins) = 3 /\ Broadcasts(n)

WellFormed(n) ==
    /\ n.shape \in Seq(Dims) /\ n.complex \in Seq(BOOLEAN)
    /\ Len(n.ins) = Len(n.complex) /\ n.ins = [i \in 1..Len(n.ins) |-> n.ins[i]]
    /\ \A i \in DOMAIN n.ins : IsTensor(In(n, i), n.complex[i])
    /\ n.op \in LayoutOps =>
          /\ LayoutAsks(n)
          /\ IsComplex(n) /\ ~Unsupported(n) => n.dtype = "c64"

ASSUME NodesAssumption == \A n \in Nodes : WellFormed(n)

-----------------------------------------------------------------------------
(* cmd_run_node: apply the node, then compare the shape. *)

Init == node \in Nodes /\ out = Pending

Answer ==
    /\ out = Pending /\ ~Unsupported(node)
    /\ out' = Checked(Apply(node), Expected(node))
    /\ UNCHANGED node

Refuse == out = Pending /\ Unsupported(node) /\ out' = Rejected /\ UNCHANGED node

Next == Answer \/ Refuse
Spec == Init /\ [][Next]_vars
=============================================================================
