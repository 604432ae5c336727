------------------------------ MODULE MCLowering ------------------------------
(***************************************************************************)
(* Expressions for Lowering, in three scopes of two parameters each: the   *)
(* outermost one has a block or a `while` whose scope may have another     *)
(* one in turn, or a reduce, a conditional or a slice.  Results and        *)
(* operands are varied so that parameters are reached before, after and    *)
(* only through the inner scope, and tensors are shared between scopes'    *)
(* inputs, clauses and starts.                                             *)
(***************************************************************************)
EXTENDS Lowering

Parameter(p) == [op |-> "parameter", pos |-> p]
Tensor(v) == [op |-> "tensor", value |-> v]
Constant(v) == [op |-> "constant", value |-> v]
Metadata(r) == [op |-> "metadata", inner |-> r]
Elem(r, k) == [op |-> "elem", source |-> r, index |-> k]
Operation(code, args) == [op |-> "add", code |-> code, args |-> args, starts |-> <<>>]
Sliced(op, args, starts) == [op |-> op, code |-> 5, args |-> args, starts |-> starts]
Cond(clauses, default) == [op |-> "cond", clauses |-> clauses, default |-> default]
Clause(p, exprs) == [pred |-> p, exprs |-> exprs]
Block(inputs, default) == [op |-> "block", inputs |-> inputs, default |-> default]
While(init, cond, body) == [op |-> "while", init |-> init, cond |-> cond, body |-> body]
Reduce(t, acc, fn) == [op |-> "reduce", tensor |-> t, acc |-> acc, fn |-> fn]
Static(v) == [kind |-> "integer", value |-> v]
Of(r) == [kind |-> "expr", of |-> r]

(* The innermost scope: references 1 .. 4.                                 *)
InnerExprs ==
  {<<Parameter(0), Parameter(1), Tensor(3), e>> :
     e \in {Operation(1, <<1, 2>>), Operation(1, <<3, 2>>),
            Cond(<<Clause(1, <<2>>), Clause(2, <<3>>)>>, <<1>>)}}
InnerOuts == {<<2, 1>>, <<4, 2>>, <<4, 4>>}

(* A middle scope: references 5 .. 9, with an inner scope or without.      *)
Scope(inputs, outs) == {Block(inputs, outs), While(inputs, 1, outs), While(inputs, 4, outs)}
MiddleExprs(outs) ==
  {<<Parameter(0), Parameter(1), s, Elem(7, k), Operation(2, <<8, 5>>)>> :
     s \in UNION {Scope(i, outs) : i \in {<<5, 5>>, <<6, 5>>}}, k \in {1, 2}}
MiddleOuts == {<<8, 6>>, <<9, 8>>, <<6, 9>>}

(* The outer scope: references 10 on.                                      *)
OuterScope(inputs, outs) ==
  {Block(inputs, outs), While(inputs, 5, outs), While(inputs, 9, outs)}
Nested ==
  {[exprs |-> i \o m \o <<Parameter(0), Parameter(1), s, Elem(12, 2), Elem(12, 1)>>,
    outs |-> o] :
     i \in InnerExprs, m \in UNION {MiddleExprs(o) : o \in InnerOuts},
     s \in UNION {OuterScope(<<10, 10>>, o) : o \in MiddleOuts},
     o \in {<<13, 11>>, <<11, 14, 13>>}}

(* One scope and what is not a scope, in all its uses.                     *)
Starts == {<<Static(1), Of(6)>>, <<Of(7), Of(6), Of(5)>>, <<Of(6), Of(8)>>, <<Of(5), Static(2), Of(7)>>}
Single ==
  UNION {
    {[exprs |-> i \o <<Parameter(0), Parameter(1), Tensor(4), Metadata(7), s>>
               \o <<IF s.op \in {"block", "while", "cond"} THEN Elem(9, k) ELSE Metadata(9),
                    Operation(3, <<10, 5>>),
                    Cond(<<Clause(6, <<10, 11>>), Clause(5, <<11, 8>>)>>, <<8, 5>>),
                    Metadata(12), Elem(13, 1), Elem(13, 2)>>,
      outs |-> o] :
       s \in Scope(<<6, 5>>, <<4, 2>>)
             \cup {Reduce(5, 6, 4), Reduce(6, 8, 1)}
             \cup {Cond(<<Clause(5, <<6, 8>>)>>, <<8, 5>>)}
             \cup {Sliced(op, <<5>>, t) : op \in {"slice", "put_slice"}, t \in Starts},
       k \in {1, 2},
       o \in {<<14, 15>>, <<11, 6>>, <<15, 10, 15>>}} : i \in InnerExprs}

Wellformed(p) ==
  \A r \in DOMAIN p.exprs :
    p.exprs[r].op = "put_slice" => \A s \in ToSet(p.exprs[r].starts) : s.kind = "expr"

MCPrograms == {p \in Nested \cup Single : Wellformed(p)}

MCInputs == {<<0, 1>>, <<1, 0>>, <<2, 5>>}

=============================================================================
