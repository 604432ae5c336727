----------------------------- MODULE MCExecutable ----------------------------
(***************************************************************************)
(* Graphs for Executable: every graph over the ids of the configuration    *)
(* whose computing nodes take the id before them and another one, whose    *)
(* views and eager nodes take the id before them or the first input, and   *)
(* whose outputs are the last node and perhaps the first.  Among them are  *)
(* segments on both sides of an eager node, values that cross it, dead     *)
(* segments, segments that only pass an input on, and static graphs.  A    *)
(* node whose scalar is hidden in a function lies between two others.      *)
(***************************************************************************)
EXTENDS Executable

Operands(n, k) ==
  IF k = "op" THEN {{n - 1, i} : i \in {j \in Id : j < n - 1}} ELSE {{n - 1}, {1}}

AnyOperands == UNION {Operands(n, "op") \cup Operands(n, "view") : n \in Node}

Kinds ==
  {k \in [Node -> {"op", "view", "eager", "hidden"}] :
     \A n \in Node : k[n] = "hidden" => n - 1 \in Node /\ n + 1 \in Node}

FirstNode == CHOOSE n \in Node : \A m \in Node : n <= m

MCGraphs ==
  UNION {{[kind |-> k, ins |-> s, outs |-> o] :
            s \in {f \in [Node -> AnyOperands] : \A n \in Node : f[n] \in Operands(n, k[n])},
            o \in {{End - 1}, {FirstNode, End - 1}}} :
         k \in Kinds}

=============================================================================
