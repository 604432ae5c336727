---------------------------- MODULE MCOperations ----------------------------
(* The nodes asked for: every operation, over shapes and attributes small    *)
(* enough to enumerate and uneven enough that no two axes are alike.         *)
EXTENDS NxOperations

\* Distinct entries, so that a misplaced one shows; or few values, so that ties do.
Distinct(shape) == Tensor(shape, LAMBDA c : Offset(shape, c) + 1)
Tied(shape)     == Tensor(shape, LAMBDA c : (Offset(shape, c) * 5 + 2) % 3)
Signed(shape)   == Tensor(shape, LAMBDA c : ((Offset(shape, c) * 7) % 5) - 2)

Plain(op, ins, shape, attrs) ==
    attrs @@ [op |-> op, ins |-> ins, shape |-> shape, dtype |-> "f32",
              complex |-> [i \in DOMAIN ins |-> FALSE]]
None == [axis |-> 0]
OnPairs(op, ins, complex, shape, attrs) ==
    attrs @@ [op |-> op, ins |-> ins, shape |-> shape, complex |-> complex,
              dtype |-> IF op \in {"real", "imag"} THEN "f32" ELSE "c64"]

Perms(n) == {p \in [1..n -> 1..n] : \A i, j \in 1..n : i # j => p[i] # p[j]}
Static(n)  == [kind |-> "static", at |-> n]
Dynamic(n) == [kind |-> "dynamic", at |-> n]

-----------------------------------------------------------------------------
Shape == <<2, 3, 2>>
Movement ==
    {Plain("reshape", <<Distinct(Shape)>>, s, None) : s \in {<<12>>, <<3, 4>>, <<4, 1, 3>>}}
    \cup {Plain("squeeze", <<Distinct(<<1, 2, 1, 3>>)>>, s, None) : s \in {<<2, 3>>, <<2, 1, 3>>}}
    \cup {Plain("transpose", <<Distinct(<<2, 3, 4>>)>>, Pick(<<2, 3, 4>>, p), [axes |-> p]) : p \in Perms(3)}
    \cup {Plain("reverse", <<Distinct(Shape)>>, Shape, [axes |-> SetToSeq(S)]) : S \in SUBSET (1..3)}
    \cup {Plain("broadcast", <<Distinct(<<2, 3>>)>>, b[1], [axes |-> b[2]]) : b \in
            {<<<<2, 3, 2>>, <<1, 2>>>>, <<<<4, 2, 3>>, <<2, 3>>>>, <<<<2, 2, 3>>, <<1, 3>>>>}}
    \cup {Plain("broadcast", <<Distinct(<<1>>)>>, <<3, 2>>, [axes |-> <<a>>]) : a \in 1..2}
    \cup {Plain("eye", <<>>, s, None) : s \in {<<2, 3>>, <<3, 2>>, <<2, 2, 2>>}}
    \cup {Plain("iota", <<>>, Shape, [axis |-> a]) : a \in 0..3}
    \cup {Plain("concatenate", <<Distinct(Shape), Signed([Shape EXCEPT ![a] = 1]), Tied(Shape)>>,
                [Shape EXCEPT ![a] = 2 * @ + 1], [axis |-> a]) : a \in 1..3}
    \cup {Plain("stack", <<Distinct(<<2, 3>>), Signed(<<2, 3>>)>>, InsertAt(<<2, 3>>, a, 2), [axis |-> a]) : a \in 1..3}
    \cup {Plain("select", <<Tied(s), Distinct(<<2, 3>>), Signed(<<1, 3>>)>>, <<2, 3>>, None) : s \in {<<2, 3>>, <<3>>, <<>>}}
    \cup {Plain("clip", <<Signed(<<5>>), Scalar(lo), Scalar(1)>>, <<5>>, None) : lo \in {0 - 1, 0, 2}}

Length(n, config) == n + config[1] + config[2] + (n - 1) * config[3]
Pads ==
    {Plain("pad", <<Distinct(<<3, 2>>)>>, <<Length(3, r), Length(2, c)>>,
           [config |-> <<r, c>>, value |-> 9, eager |-> e]) :
        r \in {<<0, 2, 0>>, <<0 - 1, 0, 0>>, <<1, 0 - 2, 0>>, <<0 - 2, 1, 0>>, <<0, 0, 1>>},
        c \in {<<0, 0, 0>>, <<1, 1, 0>>, <<0 - 1, 2, 0>>}, e \in BOOLEAN}

Slices ==
    {Plain("slice", <<Distinct(<<5, 3>>)>>, <<(3 + st - 1) \div st, l>>,
           [starts |-> <<r, c>>, lengths |-> <<3, l>>, strides |-> <<st, 1>>, captured |-> k]) :
        r \in {Static(0), Static(2)} \cup {Dynamic(n) : n \in {0 - 1, 1, 3}},
        c \in {Static(0), Dynamic(1)}, l \in {2, 3}, st \in {1, 2}, k \in BOOLEAN}
    \cup
    {Plain("put_slice", <<Distinct(<<4, 3>>), Signed(<<2, l>>)>>, <<4, 3>>,
           [starts |-> <<r, c>>, captured |-> k]) :
        r \in {Static(1), Static(3)} \cup {Dynamic(n) : n \in {0 - 2, 2, 5}},
        c \in {Static(0), Dynamic(1)}, l \in {2, 3}, k \in BOOLEAN}

-----------------------------------------------------------------------------
Kept(shape, axes, keep) ==
    FlattenSeq([a \in DOMAIN shape |-> IF a \notin axes THEN <<shape[a]>>
                                       ELSE IF keep THEN <<1>> ELSE <<>>])
Reductions ==
    {Plain(op, <<Tied(Shape)>>, Kept(Shape, S, keep), [axes |-> SetToSeq(S), keep |-> keep]) :
        op \in {"sum", "product", "reduce_max", "reduce_min", "all", "any"},
        S \in {{1}, {2}, {1, 3}, {2, 3}, {1, 2, 3}}, keep \in BOOLEAN}
    \cup {Plain(op, <<Scalar(5)>>, <<>>, [axes |-> <<>>, keep |-> FALSE]) : op \in {"sum", "product", "reduce_max", "reduce_min"}}
    \cup
    {Plain(op, <<Tied(Shape)>>, IF a = 0 THEN <<>> ELSE Kept(Shape, {a}, keep),
           [axis |-> a, keep |-> keep, tie |-> tie]) :
        op \in {"argmax", "argmin"}, a \in 0..3, keep \in BOOLEAN, tie \in {"low", "high"}}

Positions(n, w, s, d, p) == (n + p[1] + p[2] - d * (w - 1) - 1) \div s + 1
Windows ==
    {Plain(op, <<Signed(<<4, 3>>)>>, <<Positions(4, 2, st, d, p), Positions(3, w, 1, 1, <<0, 1>>)>>,
           [window |-> <<2, w>>, strides |-> <<st, 1>>, dilations |-> <<d, 1>>, padding |-> <<p, <<0, 1>>>>]) :
        op \in {"window_sum", "window_max", "window_min", "window_product"},
        w \in {1, 2}, st \in {1, 2}, d \in {1, 2}, p \in {<<0, 0>>, <<1, 1>>}}
    \cup
    {Plain(op, <<Tied(<<4, 3>>), Signed(<<Positions(4, 2, st, 1, p), Positions(3, 2, 1, 1, <<0, 0>>)>>)>>, <<4, 3>>,
           [window |-> <<2, 2>>, strides |-> <<st, 1>>, dilations |-> <<1, 1>>, padding |-> <<p, <<0, 0>>>>,
            init |-> 3 * p[1]]) :
        op \in {"window_scatter_max", "window_scatter_min"}, st \in {1, 2},
        p \in {<<0, 0>>, <<1, 0>>, <<1, 1>>}}

\* Coordinates over one or two axes, in either order.
Rows2 == <<<<1, 0>>, <<0, 2>>, <<1, 1>>>>
Index(axes, shape) ==
    Tensor(<<3, Len(axes)>>, LAMBDA c : Rows2[c[1] + 1][IF axes[c[2] + 1] = 2 THEN 2 ELSE 1] % shape[axes[c[2] + 1]])
Twice == Tensor(<<3, 1>>, LAMBDA c : c[1] % 2)
Coordinates ==
    {Plain("gather", <<Distinct(Shape), Index(axes, Shape)>>, <<3>> \o Pick(Shape, Others(Distinct(Shape), Range(axes))),
           [axes |-> axes]) : axes \in {<<1>>, <<2>>, <<1, 2>>, <<2, 1>>, <<3, 2>>, <<2, 3, 1>>}}
    \cup {Plain("gather", <<Distinct(<<2, 3>>), Tensor(<<2, 2, 1>>, LAMBDA c : (c[1] + c[2]) % 2)>>, <<2, 2, 3>>, [axes |-> <<1>>])}
    \cup {Plain(op, <<Distinct(Shape), Index(axes, Shape), Signed(<<3>> \o Pick(Shape, Others(Distinct(Shape), Range(axes))))>>,
                Shape, [axes |-> axes]) :
            op \in {"indexed_add", "indexed_put"}, axes \in {<<2>>, <<1, 2>>, <<2, 1>>, <<3, 2>>, <<2, 3, 1>>}}
    \cup {Plain("indexed_add", <<Distinct(Shape), Twice, Distinct(<<3>> \o Tail(Shape))>>, Shape, [axes |-> <<1>>])}

-----------------------------------------------------------------------------
DotAttrs(cl, cr, bl, br) ==
    [contract_left |-> cl, contract_right |-> cr, batch_left |-> bl, batch_right |-> br]
Dots ==
    {Plain("dot", <<Signed(<<2, 3>>), Distinct(<<3, 2>>)>>, <<2, 2>>, DotAttrs(<<2>>, <<1>>, <<>>, <<>>)),
     Plain("dot", <<Signed(<<2, 3>>), Distinct(<<2, 3>>)>>, <<>>, DotAttrs(<<1, 2>>, <<1, 2>>, <<>>, <<>>)),
     Plain("dot", <<Signed(<<2, 3, 2>>), Distinct(<<3, 2, 2>>)>>, <<2, 2>>, DotAttrs(<<1, 2>>, <<3, 1>>, <<>>, <<>>)),
     Plain("dot", <<Signed(<<2, 3, 2>>), Distinct(<<2, 2, 3>>)>>, <<2, 2, 2>>, DotAttrs(<<2>>, <<3>>, <<1>>, <<1>>)),
     Plain("dot", <<Signed(<<3, 2, 2>>), Distinct(<<3, 2, 2>>)>>, <<2, 3>>, DotAttrs(<<3>>, <<2>>, <<2, 1>>, <<3, 1>>)),
     Plain("dot", <<Signed(<<2>>), Distinct(<<3>>)>>, <<2, 3>>, DotAttrs(<<>>, <<>>, <<>>, <<>>))}

Space(n, w, s, idl, kdl, p) == (((n - 1) * idl + 1 + p[1] + p[2]) - kdl * (w - 1) - 1) \div s + 1
\* Canonical shapes laid out by permutations: axis i of the canon is axis p[i].
Laid(shape, p) == Pick(shape, InversePerm(p))
Convs ==
    {LET x == <<1, 2 * g, 4>>
         w == <<2, 2, 2>>
         y == <<1, 2, Space(4, 2, st, idl, kdl, pad)>>
     IN  Plain("conv", <<Signed(Laid(x, ip)), Distinct(Laid(w, kp))>>, Laid(y, op),
               [input_permutation |-> ip, kernel_permutation |-> kp, output_permutation |-> op,
                input_dilation |-> <<idl>>, kernel_dilation |-> <<kdl>>, strides |-> <<st>>,
                padding |-> <<pad>>, feature_group_size |-> g, batch_group_size |-> 1]) :
        g \in {1, 2}, st \in {1, 2}, idl \in {1, 2}, kdl \in {1, 2}, pad \in {<<0, 0>>, <<2, 1>>},
        ip \in {<<1, 2, 3>>, <<2, 3, 1>>}, kp \in {<<1, 2, 3>>, <<3, 2, 1>>}, op \in {<<1, 2, 3>>, <<3, 1, 2>>}}
BatchGrouped == {[n EXCEPT !.batch_group_size = 2] : n \in {n \in Convs : n.strides = <<2>>}}

Matrix == Tensor(<<3, 3>>, LAMBDA c : ((Offset(<<3, 3>>, c) * 2) % 5) + 1)
Solves3 ==
    {Plain("triangular_solve", <<Matrix, Distinct(s)>>, s,
           [lower |-> lower, transform_a |-> tr, left_side |-> left]) :
        s \in {<<3>>, <<3, 2>>}, lower \in BOOLEAN, tr \in {"none", "transpose", "conjugate"}, left \in BOOLEAN}

Ffts ==
    {OnPairs("fft", <<Signed(<<2, 4>>)>>, <<FALSE>>, <<2, 4>>, [length |-> <<2, 4>>[a], axis |-> a]) : a \in 1..2}
    \cup {OnPairs("fft", <<Signed(<<4, 2, 1, 2>>)>>, <<TRUE>>, <<4, 2, 1>>, [length |-> <<4, 2, 1>>[a], axis |-> a]) : a \in 1..3}

-----------------------------------------------------------------------------
Limit == 2 ^ Mantissa
\* Every float up to twice the mantissa's integers, in units of 1 / One.
Floats == {v \in 0..(2 * Limit * One) : FloatNear(v) = v}
Roundings ==
    LET f == FoldSet(LAMBDA v, acc : Append(acc, v), <<>>, Floats)
    IN  {Plain("round", <<Vector(Len(f), LAMBDA i : sign * f[i + 1])>>, <<Len(f)>>, None) : sign \in {1, 0 - 1}}

Elements ==
    {Plain(op, <<Vector(2 * Limit + 1, LAMBDA i : i - Limit), Scalar(y)>>, <<2 * Limit + 1>>, None) :
        op \in {"quotient", "remainder"}, y \in (0 - Limit..Limit) \ {0}}
    \cup Roundings
    \cup {Plain("atan2", <<Vector(3, LAMBDA i : i - 1), Scalar(x)>>, <<3>>, None) : x \in (0 - 1)..1}
    \cup {Plain(op, <<Vector(256, LAMBDA i : IF dt = "s8" THEN i - 128 ELSE i)>>, <<256>>, [dtype |-> dt]) :
            op \in {"count_leading_zeros", "population_count"}, dt \in {"u8", "s8"}}

Complexes ==
    {OnPairs(op, <<Signed(IF c1 THEN <<2, 3, 2>> ELSE <<2, 3>>), Distinct(IF c2 THEN <<3, 2>> ELSE <<3>>)>>,
             <<c1, c2>>, <<2, 3>>, None) :
        op \in {"add", "subtract", "multiply", "divide"}, c1 \in BOOLEAN, c2 \in {TRUE}}
    \cup {OnPairs(op, <<Signed(<<2, 3, 2>>), Signed(<<3>>)>>, <<TRUE, FALSE>>, <<2, 3>>, None) : op \in {"add", "multiply"}}
    \cup {OnPairs(op, <<Signed(<<3, 2>>)>>, <<TRUE>>, <<3>>, None) : op \in {"conjugate", "real", "imag"}}
PairLayouts ==
    {OnPairs("transpose", <<Distinct(<<2, 3, 4, 2>>)>>, <<TRUE>>, Pick(<<2, 3, 4>>, p), [axes |-> p]) : p \in Perms(3)}
    \cup {OnPairs("reverse", <<Distinct(<<2, 3, 2>>)>>, <<TRUE>>, <<2, 3>>, [axes |-> <<a>>]) : a \in 1..2}
    \cup {OnPairs("reshape", <<Distinct(<<2, 3, 2>>)>>, <<TRUE>>, <<3, 2>>, None),
          OnPairs("squeeze", <<Distinct(<<1, 3, 1, 2>>)>>, <<TRUE>>, <<3, 1>>, None),
          OnPairs("concatenate", <<Signed(<<2, 3>>)>>, <<FALSE>>, <<2, 3>>, [axis |-> 1]),
          OnPairs("broadcast", <<Distinct(<<2, 2>>)>>, <<TRUE>>, <<2, 3>>, [axes |-> <<1>>]),
          OnPairs("broadcast", <<Distinct(<<3, 2>>)>>, <<TRUE>>, <<2, 3>>, [axes |-> <<2>>]),
          OnPairs("concatenate", <<Distinct(<<2, 3, 2>>), Signed(<<2, 3>>)>>, <<TRUE, FALSE>>, <<2, 6>>, [axis |-> 2]),
          OnPairs("select", <<Tied(<<3>>), Distinct(<<2, 3, 2>>), Signed(<<3>>)>>, <<FALSE, TRUE, FALSE>>, <<2, 3>>, None),
          OnPairs("dot", <<Signed(<<2, 3, 2>>), Distinct(<<3, 2, 2>>)>>, <<TRUE, TRUE>>, <<2, 2>>, DotAttrs(<<2>>, <<1>>, <<>>, <<>>))}
    \cup {OnPairs("iota", <<>>, <<>>, <<2, 3>>, [axis |-> a]) : a \in 0..2}
    \cup {OnPairs("stack", <<Distinct(<<3, 2>>), Distinct(<<3, 2>>)>>, <<TRUE, TRUE>>, <<2, 3>>, [axis |-> 1]),
          OnPairs("select", <<Tied(<<3, 2>>), Distinct(<<3>>), Signed(<<3>>)>>, <<TRUE, FALSE, FALSE>>, <<3>>, None)}
    \cup {OnPairs("slice", <<Distinct(<<5, 3, 2>>)>>, <<TRUE>>, <<(3 + st - 1) \div st, 2>>,
                  [starts |-> <<r, Static(1)>>, lengths |-> <<3, 2>>, strides |-> <<st, 1>>, captured |-> k]) :
            r \in {Static(0), Static(2), Dynamic(1)}, st \in {1, 2}, k \in BOOLEAN}
    \cup {OnPairs("sum", <<Distinct(<<2, 3, 2>>)>>, <<TRUE>>, Kept(<<2, 3>>, {a}, keep), [axes |-> <<a>>, keep |-> keep]) :
            a \in 1..2, keep \in BOOLEAN}

AllNodes == UNION {Movement, Pads, Slices, Reductions, Windows, Coordinates, Dots, Convs, BatchGrouped, Solves3,
                   Ffts, Elements, Complexes, PairLayouts}
=============================================================================
