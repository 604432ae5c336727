------------------------------- MODULE Lowering -------------------------------
(***************************************************************************)
(* From an Nx.Defn expression to the graph the worker runs: Lowering in    *)
(* Elixir, validation and evaluation in Python.                            *)
(*                                                                         *)
(* An expression is a dag of tensors, each with a reference that makes     *)
(* sharing visible.  Its scopes are nested: the default of a block is      *)
(* lowered into the graph around it with its parameters bound to the       *)
(* block's inputs, the condition and body of a `while` and the function of *)
(* a reduce become sub-graphs with ids of their own, and literal tensors   *)
(* of all scopes share one list of blobs.                                  *)
(*                                                                         *)
(* Here references are 1 .. Len(program.exprs), an expression's operands   *)
(* come before it, and contents are numbers modulo Modulus.  A pure        *)
(* operation is its code and what it makes of its operands' contents.      *)
(***************************************************************************)
EXTENDS Naturals, Sequences, FiniteSets, SequencesExt

CONSTANTS
  Programs,   \* expressions a run looks at: exprs, outs
  Inputs,     \* contents of the parameters a run looks at
  Rounds,     \* bound: iterations of a `while`, elements of a fold
  Modulus

ASSUME BoundAssumption == Rounds \in Nat /\ Modulus \in Nat \ {0}

VARIABLES
  program,
  stage,      \* "expression", "lowered", "valid", "rejected", "done"
  graph,
  blobs,
  given,      \* contents of the parameters of the execute
  result

vars == <<program, stage, graph, blobs, given, result>>

Expr(r) == program.exprs[r]

-----------------------------------------------------------------------------
(* The state of a lowering, threaded through it.  A lowering of one        *)
(* expression gives [id, st], of several [ids, st].                        *)

Fresh == [ids |-> <<>>, next |-> 0, inputs |-> <<>>, constants |-> <<>>, nodes |-> <<>>,
          blobs |-> <<>>, bind |-> <<>>, tuples |-> <<>>]

Forget(r, l) == l                                     \* mutant of Remember
Remember(r, l) == [l EXCEPT !.st.ids = (r :> l.id) @@ @]

Uncached(r, l) == l                                   \* mutant of CacheTuple
CacheTuple(r, l) == [l EXCEPT !.st.tuples = (r :> l.ids) @@ @]

Alloc(s) == [id |-> s.next, st |-> [s EXCEPT !.next = @ + 1]]

AddNode(s, n) ==
  LET l == Alloc(s) IN [l EXCEPT !.st.nodes = Append(@, [id |-> l.id] @@ n)]

Select(pred, yes, no) ==
  [op |-> "select", code |-> 0, inputs |-> <<pred, yes, no>>, starts |-> <<>>]

RECURSIVE Lower(_, _), LowerNew(_, _), LowerTuple(_, _)

LowerChildren(rs, s) ==
  FoldLeft(LAMBDA acc, r :
             LET l == Lower(r, acc.st) IN [ids |-> Append(acc.ids, l.id), st |-> l.st],
           [ids |-> <<>>, st |-> s], rs)

LowerParameter(r, s) ==
  LET pos == Expr(r).pos
      l == Alloc(s)
  IN  IF pos \in DOMAIN s.bind THEN Remember(r, [id |-> s.bind[pos], st |-> s])
      ELSE Remember(r, [l EXCEPT !.st.inputs = Append(@, [id |-> l.id, index |-> pos])])

LowerConstant(r, s) ==
  LET l == Alloc(s)
  IN  Remember(r, [l EXCEPT !.st.constants = Append(@, [id |-> l.id, value |-> Expr(r).value])])

BlobAfter(s) == Len(s.blobs) + 1                      \* mutant of BlobIndex
BlobIndex(s) == Len(s.blobs)

LowerTensor(r, s) ==
  LET l == Alloc(s)
      c == [id |-> l.id, data_index |-> BlobIndex(s)]
  IN  Remember(r, [l EXCEPT !.st.constants = Append(@, c),
                            !.st.blobs = Append(@, Expr(r).value)])

-----------------------------------------------------------------------------
(* Scopes.                                                                 *)

LeftBound(l, s) == l                                  \* mutant of Unbound
Unbound(l, s) == [l EXCEPT !.st.bind = s.bind]

(* The default of a block, its parameters bound to the inputs.             *)
LowerBlock(e, s) ==
  LET i == LowerChildren(e.inputs, s)
      bind == [pos \in 0 .. Len(i.ids) - 1 |-> i.ids[pos + 1]]
  IN  Unbound(LowerChildren(e.default, [i.st EXCEPT !.bind = bind]), s)

InScope(s) == [Fresh EXCEPT !.blobs = s.blobs, !.bind = s.bind]  \* mutant of Isolated
Isolated(s) == [Fresh EXCEPT !.blobs = s.blobs]

GraphOf(l) == [inputs |-> l.st.inputs, constants |-> l.st.constants,
               nodes |-> l.st.nodes, outputs |-> l.ids]

(* A sub-graph; only the blobs come back to the graph around it.           *)
LowerIsolated(outs, s) ==
  LET l == LowerChildren(outs, Isolated(s))
  IN  [sub |-> GraphOf(l), st |-> [s EXCEPT !.blobs = l.st.blobs]]

LowerWhile(e, s) ==
  LET i == LowerChildren(e.init, s)
      c == LowerIsolated(<<e.cond>>, i.st)
      b == LowerIsolated(e.body, c.st)
      ids == [k \in DOMAIN e.body |-> b.st.next + k - 1]
      node == [id |-> ids[1], op |-> "while", inputs |-> i.ids,
               cond |-> c.sub, body |-> b.sub, outputs |-> ids]
  IN  [ids |-> ids, st |-> [b.st EXCEPT !.next = @ + Len(ids), !.nodes = Append(@, node)]]

LowerReduce(r, s) ==
  LET e == Expr(r)
      i == LowerChildren(<<e.tensor, e.acc>>, s)
      f == LowerIsolated(<<e.fn>>, i.st)
  IN  Remember(r, AddNode(f.st, [op |-> "reduce", inputs |-> i.ids, fn |-> f.sub]))

-----------------------------------------------------------------------------
(* Conditionals become chains of selects, the first clause outermost.      *)

LowerCond(r, s) ==
  LET e == Expr(r)
  IN  Remember(r, FoldRight(LAMBDA c, else :
             LET p == Lower(c.pred, else.st)
                 x == Lower(c.exprs[1], p.st)
             IN  AddNode(x.st, Select(p.id, x.id, else.id)),
           e.clauses, Lower(e.default[1], s)))

LowerTupleCond(e, s) ==
  LET d == LowerChildren(e.default, s)
      cs == FoldLeft(LAMBDA acc, c :
              LET p == Lower(c.pred, acc.st)
                  x == LowerChildren(c.exprs, p.st)
              IN  [data |-> Append(acc.data, [pred |-> p.id, ids |-> x.ids]), st |-> x.st],
            [data |-> <<>>, st |-> d.st], e.clauses)
      chain(i, st) ==
        FoldRight(LAMBDA c, else : AddNode(else.st, Select(c.pred, c.ids[i], else.id)),
                  cs.data, [id |-> d.ids[i], st |-> st])
  IN  FoldLeft(LAMBDA acc, i :
                 LET l == chain(i, acc.st) IN [ids |-> Append(acc.ids, l.id), st |-> l.st],
               [ids |-> <<>>, st |-> cs.st], [i \in DOMAIN d.ids |-> i])

-----------------------------------------------------------------------------
(* Operations.  Starts of a slice are integers or expressions, those of a  *)
(* put_slice expressions some of which are compile-time constants; the     *)
(* others become further inputs of the node.                               *)

RECURSIVE Literal(_)
Literal(r) == CASE Expr(r).op = "metadata" -> Literal(Expr(r).inner)
                [] Expr(r).op \in {"constant", "tensor"} -> TRUE
                [] OTHER -> FALSE
RECURSIVE LiteralValue(_)
LiteralValue(r) == IF Expr(r).op = "metadata" THEN LiteralValue(Expr(r).inner)
                   ELSE Expr(r).value

StaticStart(e, start) ==
  IF start.kind = "integer" THEN TRUE ELSE e.op = "put_slice" /\ Literal(start.of)

StartValue(start) ==
  IF start.kind = "integer" THEN start.value ELSE LiteralValue(start.of)

LowerOperation(r, s) ==
  LET e == Expr(r)
      a == LowerChildren(e.args, s)
      Dynamic(start) == ~StaticStart(e, start)
      dynamic == SelectSeq(e.starts, Dynamic)
      d == LowerChildren([k \in DOMAIN dynamic |-> dynamic[k].of], a.st)
      Spec(k) ==
        IF Dynamic(e.starts[k])
        THEN [input |-> Cardinality({j \in 1 .. k - 1 : Dynamic(e.starts[j])})]
        ELSE [static |-> StartValue(e.starts[k])]
  IN  Remember(r, AddNode(d.st, [op |-> e.op, code |-> e.code, inputs |-> a.ids \o d.ids,
                                 starts |-> [k \in DOMAIN e.starts |-> Spec(k)]]))

-----------------------------------------------------------------------------
(* The traversal.                                                          *)

Lower(r, s) == IF r \in DOMAIN s.ids THEN [id |-> s.ids[r], st |-> s] ELSE LowerNew(r, s)

Project(r, index, s) ==
  LET l == LowerTuple(Expr(r).source, s) IN Remember(r, [id |-> l.ids[index], st |-> l.st])

LowerNew(r, s) ==
  LET e == Expr(r)
      One(l) == [id |-> l.ids[1], st |-> l.st]
  IN  CASE e.op = "parameter" -> LowerParameter(r, s)
        [] e.op = "constant"  -> LowerConstant(r, s)
        [] e.op = "tensor"    -> LowerTensor(r, s)
        [] e.op = "metadata"  -> Remember(r, Lower(e.inner, s))
        [] e.op = "elem"      -> Project(r, e.index, s)
        [] e.op = "block"     -> Remember(r, One(LowerBlock(e, s)))
        [] e.op = "cond"      -> LowerCond(r, s)
        [] e.op = "reduce"    -> LowerReduce(r, s)
        [] OTHER              -> LowerOperation(r, s)

LowerTuple(r, s) ==
  LET e == Expr(r)
  IN  CASE r \in DOMAIN s.tuples -> [ids |-> s.tuples[r], st |-> s]
        [] e.op = "metadata"     -> LowerTuple(e.inner, s)
        [] e.op = "cond"         -> LowerTupleCond(e, s)
        [] e.op = "while"        -> CacheTuple(r, LowerWhile(e, s))
        [] OTHER                 -> CacheTuple(r, LowerBlock(e, s))

-----------------------------------------------------------------------------
(* graph.py: validate.  Shapes and types are left out.                     *)

Defines(n) == IF n.op = "while" THEN n.outputs ELSE <<n.id>>

SubGraphs(n) == CASE n.op = "while"  -> <<n.cond, n.body>>
                  [] n.op = "reduce" -> <<n.fn>>
                  [] OTHER           -> <<>>

Sources(g) == [k \in DOMAIN g.inputs |-> g.inputs[k].id]
              \o [k \in DOMAIN g.constants |-> g.constants[k].id]
AllIds(g) == Sources(g) \o FlattenSeq([k \in DOMAIN g.nodes |-> Defines(g.nodes[k])])
DefinedBefore(g, k) ==
  ToSet(Sources(g)) \cup UNION {ToSet(Defines(g.nodes[j])) : j \in 1 .. k - 1}

ReferencesDefined(g) ==
  /\ \A k \in DOMAIN g.nodes : ToSet(g.nodes[k].inputs) \subseteq DefinedBefore(g, k)
  /\ ToSet(g.outputs) \subseteq ToSet(AllIds(g))

DataInRange(g, bs) ==
  \A c \in ToSet(g.constants) : "data_index" \in DOMAIN c => c.data_index < Len(bs)

Acceptable(g, bs) ==
  /\ IsInjective(AllIds(g))
  /\ IsInjective([k \in DOMAIN g.inputs |-> g.inputs[k].index])
  /\ DataInRange(g, bs)
  /\ ReferencesDefined(g)
  /\ g.outputs # <<>>
  /\ \A n \in ToSet(g.nodes) : \A sub \in ToSet(SubGraphs(n)) : sub.outputs # <<>>

-----------------------------------------------------------------------------
(* What the worker makes of a graph, and what the expression means.        *)

(* An operation tells its code and the position of each operand.           *)
Combine(code, vs) ==
  LET f[k \in 0 .. Len(vs)] == IF k = 0 THEN code ELSE f[k - 1] + (2 * k + 1) * vs[k]
  IN  f[Len(vs)] % Modulus

Iterate(Cond(_), Body(_), state) ==
  LET f[k \in 0 .. Rounds] == IF k = 0 THEN state
                              ELSE IF Cond(f[k - 1]) # 0 THEN Body(f[k - 1]) ELSE f[k - 1]
  IN  f[Rounds]

FoldElements(F(_, _), acc, tensor) ==
  LET f[k \in 0 .. Rounds] == IF k = 0 THEN acc ELSE F(f[k - 1], (tensor + k) % Modulus)
  IN  f[Rounds]

ApplyNode(n, env) ==
  LET Dynamic(spec) == "input" \in DOMAIN spec
      base == Len(n.inputs) - Len(SelectSeq(n.starts, Dynamic))
      in == [k \in DOMAIN n.inputs |-> env[n.inputs[k]]]
      start(spec) == IF Dynamic(spec) THEN in[base + 1 + spec.input] ELSE spec.static
  IN  IF n.op = "select" THEN IF in[1] # 0 THEN in[2] ELSE in[3]
      ELSE Combine(n.code, SubSeq(in, 1, base)
                           \o [k \in DOMAIN n.starts |-> start(n.starts[k])])

RECURSIVE Interpret(_, _, _)
EvalNode(env, n, bs) ==
  CASE n.op = "while" ->
         LET init == [k \in DOMAIN n.inputs |-> env[n.inputs[k]]]
             final == Iterate(LAMBDA st : Interpret(n.cond, st, bs)[1],
                              LAMBDA st : Interpret(n.body, st, bs), init)
         IN  [id \in ToSet(n.outputs) |->
                final[CHOOSE k \in DOMAIN n.outputs : n.outputs[k] = id]] @@ env
    [] n.op = "reduce" ->
         (n.id :> FoldElements(LAMBDA acc, x : Interpret(n.fn, <<acc, x>>, bs)[1],
                               env[n.inputs[2]], env[n.inputs[1]])) @@ env
    [] OTHER -> (n.id :> ApplyNode(n, env)) @@ env

ConstantValue(c, bs) == IF "value" \in DOMAIN c THEN c.value ELSE bs[c.data_index + 1]

Interpret(g, params, bs) ==
  LET Of(seq, id) == CHOOSE x \in ToSet(seq) : x.id = id
      ids(seq) == {x.id : x \in ToSet(seq)}
      start == [id \in ids(g.inputs) |-> params[Of(g.inputs, id).index + 1]]
               @@ [id \in ids(g.constants) |-> ConstantValue(Of(g.constants, id), bs)]
      env == FoldLeft(LAMBDA e, n : EvalNode(e, n, bs), start, g.nodes)
  IN  [k \in DOMAIN g.outputs |-> env[g.outputs[k]]]

(* The meaning of an expression where its scope's parameters are params.   *)
RECURSIVE Denote(_, _), DenoteTuple(_, _)
DenoteAll(rs, params) == [k \in DOMAIN rs |-> Denote(rs[k], params)]

Denote(r, params) ==
  LET e == Expr(r)
      start(s) == IF s.kind = "integer" THEN s.value ELSE Denote(s.of, params)
  IN  CASE e.op = "parameter" -> params[e.pos + 1]
        [] e.op \in {"constant", "tensor"} -> e.value
        [] e.op = "metadata" -> Denote(e.inner, params)
        [] e.op = "elem" -> DenoteTuple(e.source, params)[e.index]
        [] e.op \in {"block", "cond"} -> DenoteTuple(r, params)[1]
        [] e.op = "reduce" -> FoldElements(LAMBDA acc, x : Denote(e.fn, <<acc, x>>),
                                           Denote(e.acc, params), Denote(e.tensor, params))
        [] OTHER -> Combine(e.code, DenoteAll(e.args, params)
                                    \o [k \in DOMAIN e.starts |-> start(e.starts[k])])

DenoteTuple(r, params) ==
  LET e == Expr(r)
      holds == {k \in DOMAIN e.clauses : Denote(e.clauses[k].pred, params) # 0}
      first == CHOOSE k \in holds : \A j \in holds : k <= j
  IN  CASE e.op = "metadata" -> DenoteTuple(e.inner, params)
        [] e.op = "block" -> DenoteAll(e.default, DenoteAll(e.inputs, params))
        [] e.op = "while" -> Iterate(LAMBDA st : Denote(e.cond, st),
                                     LAMBDA st : DenoteAll(e.body, st),
                                     DenoteAll(e.init, params))
        [] OTHER -> DenoteAll(IF holds = {} THEN e.default ELSE e.clauses[first].exprs,
                              params)

-----------------------------------------------------------------------------
(* Compile, validate, execute.                                             *)

NoGraph == GraphOf([ids |-> <<>>, st |-> Fresh])

Init ==
  /\ program \in Programs
  /\ stage = "expression"
  /\ graph = NoGraph
  /\ blobs = <<>>
  /\ given = <<>>
  /\ result = <<>>

ToGraph ==
  /\ stage = "expression"
  /\ LET l == LowerChildren(program.outs, Fresh)
     IN  graph' = GraphOf(l) /\ blobs' = l.st.blobs
  /\ stage' = "lowered"
  /\ UNCHANGED <<program, given, result>>

Validate ==
  /\ stage = "lowered"
  /\ stage' = IF Acceptable(graph, blobs) THEN "valid" ELSE "rejected"
  /\ UNCHANGED <<program, graph, blobs, given, result>>

Run ==
  /\ stage = "valid"
  /\ given' \in Inputs
  /\ result' = Interpret(graph, given', blobs)
  /\ stage' = "done"
  /\ UNCHANGED <<program, graph, blobs>>

Done == stage = "done" /\ UNCHANGED vars

Next == ToGraph \/ Validate \/ Run \/ Done

Spec == Init /\ [][Next]_vars

-----------------------------------------------------------------------------
(* Properties.                                                             *)

Lowered == stage # "expression"

(* The graph computes what the expression means: every parameter is looked *)
(* up in its own scope, every shared tensor keeps its value, clauses are   *)
(* tried in order, starts and literals reach the operand they belong to.   *)
SameValue == stage = "done" => result = DenoteAll(program.outs, given)

(* The validation, which takes the graph for untrusted input, never        *)
(* refuses what the lowering made: unique ids, inputs and references to    *)
(* what is already defined.                                                *)
NeverRejected == stage # "rejected"

(* Sub-graphs name only what they define themselves.  The validation does  *)
(* not look at their references; a wrong one would fail in an execute.     *)
RECURSIVE SelfContained(_)
SelfContained(g) ==
  /\ IsInjective(AllIds(g)) /\ ReferencesDefined(g)
  /\ \A n \in ToSet(g.nodes) : \A sub \in ToSet(SubGraphs(n)) : SelfContained(sub)
SubGraphsAreClosed == Lowered => SelfContained(graph)

(* "Shared subexpressions" are computed once: apart from the selects of    *)
(* conditionals a scope has one node for each computing tensor that its    *)
(* results need, however often it is used.                                 *)
RECURSIVE Work(_)
Work(g) ==
  LET sub(n) == FoldLeft(LAMBDA acc, h : acc + Work(h), 0, SubGraphs(n))
      own(n) == IF n.op = "select" THEN 0 ELSE 1
  IN  FoldLeft(LAMBDA acc, n : acc + own(n) + sub(n), 0, g.nodes)

Operands(r) ==
  LET e == Expr(r)
  IN  CASE e.op \in {"parameter", "constant", "tensor"} -> {}
        [] e.op = "metadata" -> {e.inner}
        [] e.op = "elem"     -> {e.source}
        [] e.op = "block"    -> ToSet(e.inputs) \cup ToSet(e.default)
        [] e.op = "while"    -> ToSet(e.init)
        [] e.op = "reduce"   -> {e.tensor, e.acc}
        [] e.op = "cond"     -> ToSet(e.default)
                                \cup UNION {{c.pred} \cup ToSet(c.exprs) : c \in ToSet(e.clauses)}
        [] OTHER             -> ToSet(e.args) \cup {s.of : s \in {t \in ToSet(e.starts) : t.kind = "expr"}}

RECURSIVE Reach(_)
Reach(S) == LET T == S \cup UNION {Operands(r) : r \in S} IN IF T = S THEN S ELSE Reach(T)

RECURSIVE WorkOf(_)
WorkOf(roots) ==
  MapThenSumSet(LAMBDA r :
      CASE Expr(r).op = "while"  -> 1 + WorkOf({Expr(r).cond}) + WorkOf(ToSet(Expr(r).body))
        [] Expr(r).op = "reduce" -> 1 + WorkOf({Expr(r).fn})
        [] Expr(r).op \in {"parameter", "constant", "tensor", "metadata", "elem", "block",
                           "cond"} -> 0
        [] OTHER -> 1,
    Reach(roots))

LoweredOnce == Lowered => Work(graph) = WorkOf(ToSet(program.outs))

=============================================================================
