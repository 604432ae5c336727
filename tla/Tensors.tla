------------------------------ MODULE Tensors ------------------------------
(***************************************************************************)
(* tinygrad's tensors, as far as priv/worker uses them.  A tensor is a      *)
(* shape (the sizes of its axes) and the value at every coordinate.  Axes   *)
(* are counted from 1, coordinates from 0.  tinygrad is not part of the     *)
(* repository: each operator states what the worker relies on.              *)
(***************************************************************************)
EXTENDS Integers, Sequences, FiniteSets, SequencesExt

CONSTANT Inf      \* larger than every number a tensor holds

Size(shape) == FoldLeft(LAMBDA n, d : n * d, 1, shape)

Extended(cs, d) == {Append(c, i) : c \in cs, i \in 0..(d - 1)}
Coords(shape) == FoldLeft(Extended, {<<>>}, shape)

AxesOf(shape) == [a \in DOMAIN shape |-> a]

\* Row-major position of a coordinate, and the coordinate at a position.
Offset(shape, c) ==
    FoldLeft(LAMBDA n, a : n * shape[a] + c[a], 0, AxesOf(shape))
CoordAt(shape, n) ==
    [a \in DOMAIN shape |->
        (n \div Size(SubSeq(shape, a + 1, Len(shape)))) % shape[a]]

Tensor(shape, Value(_)) ==
    [shape |-> shape, at |-> [c \in Coords(shape) |-> Value(c)]]
Scalar(v) == Tensor(<<>>, LAMBDA c : v)
Item(t) == t.at[<<>>]                                    \* t.item()
Vector(n, Value(_)) == Tensor(<<n>>, LAMBDA c : Value(c[1]))
Arange(n) == Vector(n, LAMBDA i : i)

Rank(t) == Len(t.shape)
Axes(t) == AxesOf(t.shape)
Ones(n) == [i \in 1..n |-> 1]
Pick(s, axes) == [i \in DOMAIN axes |-> s[axes[i]]]
Others(t, axes) == SelectSeq(Axes(t), LAMBDA a : a \notin axes)

\* inverse[perm[i]] = i
InversePerm(perm) == [a \in DOMAIN perm |-> CHOOSE i \in DOMAIN perm : perm[i] = a]

-----------------------------------------------------------------------------
(* Movement *)

Reshape(t, shape) == Tensor(shape, LAMBDA c : t.at[CoordAt(t.shape, Offset(shape, c))])

Permute(t, perm) ==
    Tensor(Pick(t.shape, perm), LAMBDA c : t.at[Pick(c, InversePerm(perm))])

\* An axis of size 1 is read again for every coordinate of its expansion.
Spread(t, c) == t.at[[a \in DOMAIN c |-> IF t.shape[a] = 1 THEN 0 ELSE c[a]]]
Expand(t, shape) == Tensor(shape, LAMBDA c : Spread(t, c))

Flip(t, axes) ==
    Tensor(t.shape, LAMBDA c :
        t.at[[a \in DOMAIN c |-> IF a \in axes THEN t.shape[a] - 1 - c[a] ELSE c[a]]])

\* pad[a] = <<low, high>>
PadWith(t, pad, v) ==
    Tensor([a \in DOMAIN pad |-> pad[a][1] + t.shape[a] + pad[a][2]], LAMBDA c :
        LET d == [a \in DOMAIN pad |-> c[a] - pad[a][1]]
        IN  IF \A a \in DOMAIN d : d[a] \in 0..(t.shape[a] - 1) THEN t.at[d] ELSE v)

\* t[from:to:stride, ...], `to` cut at the end of the axis as Python does.
SliceBy(t, from, to, stride) ==
    LET end(a) == IF to[a] > t.shape[a] THEN t.shape[a] ELSE to[a]
    IN  Tensor([a \in DOMAIN from |-> (end(a) - from[a] + stride[a] - 1) \div stride[a]],
               LAMBDA c : t.at[[a \in DOMAIN c |-> from[a] + c[a] * stride[a]]])
Shrink(t, from, to) == SliceBy(t, from, to, Ones(Rank(t)))

\* t[i] on the first axis, t[..., i] on the last.
First(t, i) == Tensor(Tail(t.shape), LAMBDA c : t.at[<<i>> \o c])
LastAt(t, i) == Tensor(Front(t.shape), LAMBDA c : t.at[Append(c, i)])

Cat(t, u, axis) ==
    Tensor([t.shape EXCEPT ![axis] = @ + u.shape[axis]], LAMBDA c :
        IF c[axis] < t.shape[axis] THEN t.at[c]
                                   ELSE u.at[[c EXCEPT ![axis] = @ - t.shape[axis]]])
CatAll(ts, axis) == FoldLeft(LAMBDA t, u : Cat(t, u, axis), Head(ts), Tail(ts))

-----------------------------------------------------------------------------
(* Arithmetic: operands are aligned at their last axes and expanded. *)

Each(t, Op(_)) == Tensor(t.shape, LAMBDA c : Op(t.at[c]))

Aligned(t, rank) == Reshape(t, Ones(rank - Rank(t)) \o t.shape)
Paired(x, y, Op(_, _)) ==
    Tensor([a \in DOMAIN x.shape |-> Max({x.shape[a], y.shape[a]})],
           LAMBDA c : Op(Spread(x, c), Spread(y, c)))
Zipped(t, u, Op(_, _)) ==
    Paired(Aligned(t, Max({Rank(t), Rank(u)})), Aligned(u, Max({Rank(t), Rank(u)})), Op)
Plus(t, u) == Zipped(t, u, LAMBDA x, y : x + y)
Minus(t, u) == Zipped(t, u, LAMBDA x, y : x - y)
Times(t, u) == Zipped(t, u, LAMBDA x, y : x * y)
WhereElse(cond, t, u) ==
    LET pair == Zipped(t, u, LAMBDA x, y : <<x, y>>)
    IN  Zipped(cond, pair, LAMBDA b, p : IF b THEN p[1] ELSE p[2])

-----------------------------------------------------------------------------
(* Reductions: Fold takes the values along the axes in row-major order. *)

SumOf(v) == FoldLeft(LAMBDA x, y : x + y, 0, v)
ProductOf(v) == FoldLeft(LAMBDA x, y : x * y, 1, v)
MaxOf(v) == FoldLeft(LAMBDA x, y : IF y > x THEN y ELSE x, Head(v), Tail(v))
MinOf(v) == FoldLeft(LAMBDA x, y : IF y < x THEN y ELSE x, Head(v), Tail(v))
ArgMaxOf(v) == Min({i \in DOMAIN v : v[i] = MaxOf(v)}) - 1     \* the first of equals
ArgMinOf(v) == Min({i \in DOMAIN v : v[i] = MinOf(v)}) - 1

Reduce(t, axes, keep, Fold(_)) ==
    LET lane == [a \in DOMAIN t.shape |-> IF a \in axes THEN t.shape[a] ELSE 1]
        kept == [a \in DOMAIN t.shape |-> IF a \in axes THEN 1 ELSE t.shape[a]]
        out  == Tensor(kept, LAMBDA c :
                    Fold([n \in 1..Size(lane) |->
                        t.at[[a \in DOMAIN c |-> c[a] + CoordAt(lane, n - 1)[a]]]]))
    IN  IF keep THEN out ELSE Reshape(out, Pick(t.shape, Others(t, axes)))

\* t._pool: one axis per window position, then one per place inside the window.
Pool(t, window, stride, dilation) ==
    LET positions == [a \in DOMAIN window |->
            (t.shape[a] - dilation[a] * (window[a] - 1) - 1) \div stride[a] + 1]
    IN  Tensor(positions \o window, LAMBDA c :
            t.at[[a \in DOMAIN window |->
                c[a] * stride[a] + c[Rank(t) + a] * dilation[a]]])

-----------------------------------------------------------------------------
(* Selection by computed indices, on the first axis. *)

\* t[lin]: the rows of t named by the vector lin.
Rows(t, lin) ==
    Tensor(lin.shape \o Tail(t.shape), LAMBDA c : t.at[<<lin.at[<<c[1]>>]>> \o Tail(c)])

\* Row i of src lands on row index[i] of t; the rows that land there, in order.
Landing(t, lin, src, c) ==
    LET hits == SetToSortSeq({i \in 0..(lin.shape[1] - 1) : lin.at[<<i>>] = c[1]}, <)
    IN  [n \in DOMAIN hits |-> src.at[<<hits[n]>> \o Tail(c)]]
ScatterSum(t, lin, src) ==
    Tensor(t.shape, LAMBDA c : t.at[c] + SumOf(Landing(t, lin, src, c)))
Scatter(t, lin, src) ==
    Tensor(t.shape, LAMBDA c : Last(<<t.at[c]>> \o Landing(t, lin, src, c)))

-----------------------------------------------------------------------------
(* Contractions.  The axes of both operands carry letters (numbers here);   *)
(* letters absent from the output are summed over.                          *)

Einsum(ta, tb, out, a, b) ==
    LET dim(x) == IF \E i \in DOMAIN ta : ta[i] = x
                  THEN a.shape[CHOOSE i \in DOMAIN ta : ta[i] = x]
                  ELSE b.shape[CHOOSE j \in DOMAIN tb : tb[j] = x]
        gone == SetToSeq((Range(ta) \cup Range(tb)) \ Range(out))
        all  == out \o gone
        terms == Tensor([i \in DOMAIN all |-> dim(all[i])], LAMBDA c :
                    LET v(x) == c[CHOOSE i \in DOMAIN all : all[i] = x]
                    IN  a.at[[i \in DOMAIN ta |-> v(ta[i])]]
                            * b.at[[j \in DOMAIN tb |-> v(tb[j])]])
    IN  Reduce(terms, (Len(out) + 1)..Len(all), FALSE, SumOf)

Matmul(a, b) == Einsum(<<1, 2>>, <<2, 3>>, <<1, 3>>, a, b)

\* x[batch, channel, space...], w[out, channel of the group, space...]
Conv2d(x, w, groups, stride, dilation) ==
    LET space == SubSeq(Axes(x), 3, Rank(x))
        per   == w.shape[1] \div groups
        taps  == Coords(Tail(w.shape))
        positions == [i \in DOMAIN space |->
            (x.shape[i + 2] - dilation[i] * (w.shape[i + 2] - 1) - 1) \div stride[i] + 1]
    IN  Tensor(<<x.shape[1], w.shape[1]>> \o positions, LAMBDA c :
            MapThenSumSet(LAMBDA k :
                w.at[<<c[2]>> \o k] *
                x.at[<<c[1], (c[2] \div per) * w.shape[2] + k[1]>> \o
                     [i \in DOMAIN space |-> c[i + 2] * stride[i] + k[i + 1] * dilation[i]]],
                taps))
=============================================================================
