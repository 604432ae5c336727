--------------------------- MODULE Executable_proofs ---------------------------
(***************************************************************************)
(* For every graph, any number of executes and any number of captures and  *)
(* replays that raise: an execute returns what interpretation of its own   *)
(* inputs gives, results that were returned stay as they were, and nothing *)
(* is refused or given up without need.                                    *)
(*                                                                         *)
(* The argument is about places.  What a segment writes is named by its    *)
(* own nodes, what the ids before it are kept in is not; so neither a      *)
(* replay nor a call that raised midway touches what is read later.        *)
(***************************************************************************)
EXTENDS Executable, WellFoundedInduction, TLAPS

-----------------------------------------------------------------------------
(* Induction, over sets.                                                   *)

(* A set of numbers has a least element.                                   *)
LEMMA Least ==
  ASSUME NEW T \in SUBSET Nat, T # {}
  PROVE  \E x \in T : \A y \in T : x <= y
<1> DEFINE R == OpToRel(<, Nat)
<1>1. IsWellFoundedOn(R, Nat)
  BY NatLessThanWellFounded
<1>2. \A x, y \in Nat : x < y => <<x, y>> \in R
  BY DEF OpToRel
<1> HIDE DEF R
<1>3. PICK x \in T : \A y \in T : ~ (<<y, x>> \in R)
  BY <1>1, WFMin
<1>4. \A y \in T : ~(y < x)
  BY <1>2, <1>3
<1> QED
  BY <1>4

(* A set with 0 and, with a number, the next holds all of them.            *)
LEMMA Numbers ==
  ASSUME NEW A, 0 \in A, \A n \in Nat : n \in A => n + 1 \in A
  PROVE  Nat \subseteq A
<1> DEFINE T == Nat \ A
<1> SUFFICES ASSUME T # {} PROVE FALSE
  OBVIOUS
<1> T \in SUBSET Nat
  OBVIOUS
<1> HIDE DEF T
<1>1. PICK x \in T : \A y \in T : x <= y
  BY Least
<1>2. x \in Nat /\ x \notin A /\ x # 0
  BY DEF T
<1>3. x - 1 \in Nat /\ x - 1 \notin T
  BY <1>1, <1>2
<1>4. x - 1 \in A
  BY <1>3 DEF T
<1> QED
  BY <1>2, <1>3, <1>4

-----------------------------------------------------------------------------
(* The evaluation of a graph.                                              *)

(* Ids are numbers, and a node's operands come before it.                  *)
LEMMA GraphFacts ==
  ASSUME graph \in Graphs
  PROVE  /\ Id \subseteq Nat /\ 0 \notin Id
         /\ Node \subseteq Id /\ Input \subseteq Id /\ Const \subseteq Id
         /\ Id = Input \cup Const \cup Node
         /\ (Input \cup Const) \cap Node = {} /\ Input \cap Const = {}
         /\ graph.outs \subseteq Id
         /\ \A n \in Node : graph.ins[n] \subseteq Id /\ \A i \in graph.ins[n] : i < n
         /\ \A n \in Node : graph.kind[n] = "view" =>
              Origin(n) \in Id /\ Origin(n) < n /\ graph.ins[n] = {Origin(n)}
<1>1. WellFormed(graph)
  BY GraphAssumption
<1>2. Id \subseteq Nat /\ 0 \notin Id
  <2>1. PICK m \in Id : Id \subseteq 1 .. m
    BY IdAssumption
  <2> QED
    BY <2>1
<1>3. \A n \in Node : graph.ins[n] \subseteq Id /\ \A i \in graph.ins[n] : i < n
  BY <1>1 DEF WellFormed
<1>4. ASSUME NEW n \in Node, graph.kind[n] = "view"
      PROVE  Origin(n) \in Id /\ Origin(n) < n /\ graph.ins[n] = {Origin(n)}
  <2>1. PICK i \in Id : graph.ins[n] = {i}
    BY <1>1, <1>4 DEF WellFormed
  <2>2. Origin(n) = i
    BY <2>1 DEF Origin
  <2> QED
    BY <1>3, <2>1, <2>2
<1> QED
  BY <1>1, <1>2, <1>3, <1>4, IdAssumption DEF WellFormed, Id

(* An operation reads its operands only.                                   *)
LEMMA ApplyReads ==
  ASSUME NEW i, NEW g, NEW h, \A j \in graph.ins[i] : g[j] = h[j]
  PROVE  Apply(i, g) = Apply(i, h)
<1>1. {g[j] : j \in graph.ins[i]} = {h[j] : j \in graph.ins[i]}
  OBVIOUS
<1> QED
  BY <1>1 DEF Apply

(* A recursive definition is of the function that satisfies it, if any.    *)
LEMMA EvaluateIsChosen ==
  ASSUME NEW S, NEW base, NEW g,
         g = [i \in Id |-> IF i \notin S THEN base[i]
                           ELSE IF graph.kind[i] = "view" THEN g[Origin(i)]
                           ELSE Apply(i, g)]
  PROVE  Evaluate(S, base) =
           [i \in Id |->
              IF i \notin S THEN base[i]
              ELSE IF graph.kind[i] = "view" THEN Evaluate(S, base)[Origin(i)]
              ELSE Apply(i, Evaluate(S, base))]
  BY ZenonT(30) DEF Evaluate

(* The value of a node is made of the values before it.                    *)
LEMMA EvaluateEquation ==
  ASSUME graph \in Graphs, NEW S \in SUBSET Node, NEW base, NEW i \in Id
  PROVE  Evaluate(S, base)[i] =
           IF i \notin S THEN base[i]
           ELSE IF graph.kind[i] = "view" THEN Evaluate(S, base)[Origin(i)]
           ELSE Apply(i, Evaluate(S, base))
<1> DEFINE B(g, k) == IF k \notin S THEN base[k]
                      ELSE IF graph.kind[k] = "view" THEN g[Origin(k)]
                      ELSE Apply(k, g)
           Before(n) == {k \in Id : k < n}
           A == {n \in Nat : \E g : g = [k \in Before(n) |-> B(g, k)]}
<1>1. ASSUME NEW g, NEW h, NEW k \in Id, \A j \in Id : j < k => g[j] = h[j]
      PROVE  B(g, k) = B(h, k)
  <2>1. CASE k \notin S
    BY <2>1
  <2>2. CASE k \in S /\ graph.kind[k] = "view"
    BY <1>1, <2>2, GraphFacts
  <2>3. CASE k \in S /\ graph.kind[k] # "view"
    <3>1. \A j \in graph.ins[k] : g[j] = h[j]
      BY <1>1, <2>3, GraphFacts
    <3>2. Apply(k, g) = Apply(k, h)
      BY <3>1, ApplyReads
    <3> QED
      BY <2>3, <3>2
  <2> QED
    BY <2>1, <2>2, <2>3
<1>2. ASSUME NEW g, g = [k \in Id |-> B(g, k)]
      PROVE  Evaluate(S, base) = [k \in Id |-> B(Evaluate(S, base), k)]
  BY <1>2, EvaluateIsChosen
<1> HIDE DEF B
<1>3. 0 \in A
  <2> DEFINE g == [k \in {} |-> 0]
  <2>1. Before(0) = {}
    BY GraphFacts
  <2>2. g = [k \in Before(0) |-> B(g, k)]
    BY <2>1
  <2> QED
    BY <2>2
<1>4. ASSUME NEW n \in Nat, n \in A PROVE n + 1 \in A
  <2>1. PICK g : g = [k \in Before(n) |-> B(g, k)]
    BY <1>4
  <2> DEFINE h == [k \in Before(n + 1) |-> IF k = n THEN B(g, n) ELSE g[k]]
  <2>2. \A j \in Before(n) : h[j] = g[j]
    BY GraphFacts
  <2>3. ASSUME NEW k \in Before(n + 1) PROVE h[k] = B(h, k)
    <3>1. \A j \in Id : j < k => g[j] = h[j]
      BY <2>2, <2>3, GraphFacts
    <3>2. B(g, k) = B(h, k)
      BY <1>1, <3>1
    <3>3. h[k] = B(g, k)
      BY <2>1, <2>3, GraphFacts
    <3> QED
      BY <3>2, <3>3
  <2>4. h = [k \in Before(n + 1) |-> B(h, k)]
    BY <2>3
  <2> HIDE DEF h
  <2>5. \E f : f = [k \in Before(n + 1) |-> B(f, k)]
    BY <2>4
  <2> QED
    BY <2>5
<1>5. Nat \subseteq A
  <2> HIDE DEF A
  <2> QED
    BY <1>3, <1>4, Numbers
<1>6. PICK m \in Nat : Id \subseteq 1 .. m
  BY IdAssumption, GraphFacts
<1>7. m + 1 \in A
  <2> HIDE DEF A
  <2> QED
    BY <1>5
<1>8. Before(m + 1) = Id
  <2>1. \A k \in Id : k < m + 1
    BY <1>6
  <2> QED
    BY <2>1
<1>9. \E g : g = [k \in Id |-> B(g, k)]
  BY <1>7, <1>8
<1>10. Evaluate(S, base) = [k \in Id |-> B(Evaluate(S, base), k)]
  BY <1>2, <1>9
<1>11. Evaluate(S, base)[i] = B(Evaluate(S, base), i)
  BY <1>10
<1> QED
  BY <1>11 DEF B

(* The node or id whose buffer a view in S shares, views of views followed.*)
Root(S) ==
  LET r[i \in Id] == IF i \in S /\ graph.kind[i] = "view" THEN r[Origin(i)] ELSE i
  IN  r

(* The recursive definition of Root is of the function that satisfies it.  *)
LEMMA RootIsChosen ==
  ASSUME NEW S, NEW g,
         g = [i \in Id |-> IF i \in S /\ graph.kind[i] = "view" THEN g[Origin(i)] ELSE i]
  PROVE  Root(S) =
           [i \in Id |-> IF i \in S /\ graph.kind[i] = "view" THEN Root(S)[Origin(i)] ELSE i]
  BY ZenonT(30) DEF Root

(* A view shares what its source shares.                                   *)
LEMMA RootEquation ==
  ASSUME graph \in Graphs, NEW S \in SUBSET Node, NEW x \in Id
  PROVE  Root(S)[x] = IF x \in S /\ graph.kind[x] = "view" THEN Root(S)[Origin(x)] ELSE x
<1> DEFINE B(g, i) == IF i \in S /\ graph.kind[i] = "view" THEN g[Origin(i)] ELSE i
           Before(n) == {i \in Id : i < n}
           A == {n \in Nat : \E g : g = [i \in Before(n) |-> B(g, i)]}
<1>1. ASSUME NEW g, NEW h, NEW i \in Id, \A j \in Id : j < i => g[j] = h[j]
      PROVE  B(g, i) = B(h, i)
  BY <1>1, GraphFacts
<1>2. ASSUME NEW g, g = [i \in Id |-> B(g, i)]
      PROVE  Root(S) = [i \in Id |-> B(Root(S), i)]
  BY <1>2, RootIsChosen
<1> HIDE DEF B
<1>3. 0 \in A
  <2> DEFINE g == [i \in {} |-> 0]
  <2>1. Before(0) = {}
    BY GraphFacts
  <2>2. g = [i \in Before(0) |-> B(g, i)]
    BY <2>1
  <2> QED
    BY <2>2
<1>4. ASSUME NEW n \in Nat, n \in A PROVE n + 1 \in A
  <2>1. PICK g : g = [i \in Before(n) |-> B(g, i)]
    BY <1>4
  <2> DEFINE h == [i \in Before(n + 1) |-> IF i = n THEN B(g, n) ELSE g[i]]
  <2>2. \A j \in Before(n) : h[j] = g[j]
    BY GraphFacts
  <2>3. ASSUME NEW i \in Before(n + 1) PROVE h[i] = B(h, i)
    <3>1. \A j \in Id : j < i => g[j] = h[j]
      BY <2>2, <2>3, GraphFacts
    <3>2. B(g, i) = B(h, i)
      BY <1>1, <3>1
    <3>3. h[i] = B(g, i)
      BY <2>1, <2>3, GraphFacts
    <3> QED
      BY <3>2, <3>3
  <2>4. h = [i \in Before(n + 1) |-> B(h, i)]
    BY <2>3
  <2> HIDE DEF h
  <2>5. \E f : f = [i \in Before(n + 1) |-> B(f, i)]
    BY <2>4
  <2> QED
    BY <2>5
<1>5. Nat \subseteq A
  <2> HIDE DEF A
  <2> QED
    BY <1>3, <1>4, Numbers
<1>6. PICK m \in Nat : Id \subseteq 1 .. m
  BY IdAssumption, GraphFacts
<1>7. m + 1 \in A
  <2> HIDE DEF A
  <2> QED
    BY <1>5
<1>8. Before(m + 1) = Id
  <2>1. \A i \in Id : i < m + 1
    BY <1>6
  <2> QED
    BY <2>1
<1>9. \E g : g = [i \in Id |-> B(g, i)]
  BY <1>7, <1>8
<1>10. Root(S) = [i \in Id |-> B(Root(S), i)]
  BY <1>2, <1>9
<1>11. Root(S)[x] = B(Root(S), x)
  BY <1>10
<1> QED
  BY <1>11 DEF B


(* A root is before its views, and is no view itself.                      *)
LEMMA RootFacts ==
  ASSUME graph \in Graphs, NEW S \in SUBSET Node, NEW i \in Id
  PROVE  /\ Root(S)[i] \in Id
         /\ Root(S)[i] <= i
         /\ Root(S)[i] \in S => graph.kind[Root(S)[i]] # "view"
         /\ i \notin S => Root(S)[i] = i
<1> DEFINE Good(k) == /\ Root(S)[k] \in Id
                      /\ Root(S)[k] <= k
                      /\ Root(S)[k] \in S => graph.kind[Root(S)[k]] # "view"
           T == {k \in Id : ~Good(k)}
<1>1. \A k \in Id : Root(S)[k] =
        IF k \in S /\ graph.kind[k] = "view" THEN Root(S)[Origin(k)] ELSE k
  BY RootEquation
<1>2. T = {}
  <2> SUFFICES ASSUME T # {} PROVE FALSE
    OBVIOUS
  <2>1. T \in SUBSET Nat
    BY GraphFacts
  <2>2. PICK x \in T : \A y \in T : x <= y
    <3> HIDE DEF T
    <3> QED
      BY <2>1, Least
  <2>3. x \in Id /\ x \in Nat
    BY GraphFacts
  <2>4. x \in S /\ graph.kind[x] = "view"
    BY <1>1, <2>3
  <2>5. Origin(x) \in Id /\ Origin(x) < x /\ Origin(x) \in Nat
    BY <2>4, GraphFacts
  <2>6. Good(Origin(x))
    BY <2>2, <2>3, <2>5
  <2>7. Root(S)[x] = Root(S)[Origin(x)]
    BY <1>1, <2>3, <2>4
  <2>8. Root(S)[Origin(x)] \in Nat
    BY <2>6, GraphFacts
  <2>9. Good(x)
    BY <2>3, <2>5, <2>6, <2>7, <2>8
  <2> QED
    BY <2>9
<1>3. Good(i)
  BY <1>2
<1> QED
  BY <1>1, <1>3

(* A root outside S is read by a node of S.                                *)
LEMMA RootIsRead ==
  ASSUME graph \in Graphs, NEW S \in SUBSET Node, NEW i \in S, Root(S)[i] \notin S
  PROVE  \E n \in S : Root(S)[i] \in graph.ins[n]
<1> DEFINE T == {k \in S : Root(S)[k] \notin S /\ ~\E n \in S : Root(S)[k] \in graph.ins[n]}
<1>1. \A k \in Id : Root(S)[k] =
        IF k \in S /\ graph.kind[k] = "view" THEN Root(S)[Origin(k)] ELSE k
  BY RootEquation
<1>2. \A k \in Id : k \notin S => Root(S)[k] = k
  BY <1>1
<1>3. T = {}
  <2> SUFFICES ASSUME T # {} PROVE FALSE
    OBVIOUS
  <2>1. T \in SUBSET Nat
    BY GraphFacts
  <2>2. PICK x \in T : \A y \in T : x <= y
    <3> HIDE DEF T
    <3> QED
      BY <2>1, Least
  <2>3. x \in S /\ x \in Id /\ x \in Nat
    BY GraphFacts
  <2>4. graph.kind[x] = "view"
    BY <1>1, <2>3
  <2>5. Origin(x) \in Id /\ Origin(x) < x /\ Origin(x) \in Nat /\ Origin(x) \in graph.ins[x]
    BY <2>3, <2>4, GraphFacts
  <2>6. Root(S)[x] = Root(S)[Origin(x)]
    BY <1>1, <2>3, <2>4
  <2>7. CASE Origin(x) \in S
    <3>1. Origin(x) \in T
      BY <2>6, <2>7
    <3> QED
      BY <2>2, <2>3, <2>5, <3>1
  <2>8. CASE Origin(x) \notin S
    BY <1>2, <2>3, <2>5, <2>6, <2>8
  <2> QED
    BY <2>7, <2>8
<1> QED
  BY <1>3

(* The recursive definition of Where is of a function that satisfies it.   *)
LEMMA WhereIsChosen ==
  ASSUME NEW S, NEW e, NEW r, NEW g,
         g = [i \in Id |-> IF i \notin S THEN e[i]
                           ELSE IF graph.kind[i] = "view" THEN g[Origin(i)]
                           ELSE <<i, "buf", r>>]
  PROVE  Where(S, e, r) =
           [i \in Id |-> IF i \notin S THEN e[i]
                         ELSE IF graph.kind[i] = "view" THEN Where(S, e, r)[Origin(i)]
                         ELSE <<i, "buf", r>>]
  BY ZenonT(30) DEF Where

(* An id is kept where its root is: in a buffer of this run, or where it   *)
(* was before.                                                             *)
LEMMA WhereIs ==
  ASSUME graph \in Graphs, NEW S \in SUBSET Node, NEW e, NEW r
  PROVE  /\ DOMAIN Where(S, e, r) = Id
         /\ Where(S, e, r) = [i \in Id |-> Where(S, e, r)[i]]
         /\ \A i \in Id : Where(S, e, r)[i] =
              IF Root(S)[i] \in S THEN <<Root(S)[i], "buf", r>> ELSE e[Root(S)[i]]
<1> DEFINE w == Where(S, e, r)
           at(k) == IF Root(S)[k] \in S THEN <<Root(S)[k], "buf", r>> ELSE e[Root(S)[k]]
           g == [k \in Id |-> at(k)]
           T == {k \in Id : w[k] # at(k)}
<1>1. \A k \in Id : Root(S)[k] =
        IF k \in S /\ graph.kind[k] = "view" THEN Root(S)[Origin(k)] ELSE k
  BY RootEquation
<1>2. \A k \in S : k \in Id /\ (graph.kind[k] = "view" => Origin(k) \in Id /\ Origin(k) < k)
  BY GraphFacts
<1>3. \A k \in Id : g[k] = IF k \notin S THEN e[k]
                           ELSE IF graph.kind[k] = "view" THEN g[Origin(k)]
                           ELSE <<k, "buf", r>>
  BY <1>1, <1>2
<1>4. g = [k \in Id |-> IF k \notin S THEN e[k]
                           ELSE IF graph.kind[k] = "view" THEN g[Origin(k)]
                           ELSE <<k, "buf", r>>]
  <2> HIDE DEF at
  <2>1. g = [k \in Id |-> g[k]]
    OBVIOUS
  <2> HIDE DEF g
  <2> QED
    BY <1>3, <2>1
<1>5. w = [k \in Id |-> IF k \notin S THEN e[k]
                        ELSE IF graph.kind[k] = "view" THEN w[Origin(k)]
                        ELSE <<k, "buf", r>>]
  <2> HIDE DEF g
  <2> QED
    BY <1>4, WhereIsChosen
<1> HIDE DEF w
<1>6. \A k \in Id : w[k] = IF k \notin S THEN e[k]
                           ELSE IF graph.kind[k] = "view" THEN w[Origin(k)]
                           ELSE <<k, "buf", r>>
  BY <1>5
<1>7. T = {}
  <2> SUFFICES ASSUME T # {} PROVE FALSE
    OBVIOUS
  <2>1. T \in SUBSET Nat
    BY GraphFacts
  <2>2. PICK x \in T : \A y \in T : x <= y
    <3> HIDE DEF T
    <3> QED
      BY <2>1, Least
  <2>3. x \in Id /\ x \in Nat
    BY GraphFacts
  <2>4. x \in S /\ graph.kind[x] = "view"
    BY <1>1, <1>6, <2>3
  <2>5. Origin(x) \in Id /\ Origin(x) < x /\ Origin(x) \in Nat
    BY <1>2, <2>4, GraphFacts
  <2>6. w[Origin(x)] = at(Origin(x))
    BY <2>2, <2>3, <2>5
  <2>7. w[x] = at(x)
    BY <1>1, <1>6, <2>3, <2>4, <2>6
  <2> QED
    BY <2>7
<1>8. \A i \in Id : w[i] = at(i)
  BY <1>7
<1>9. DOMAIN w = Id /\ w = [i \in Id |-> w[i]]
  BY <1>5
<1> QED
  BY <1>8, <1>9 DEF w

(* What is not evaluated keeps its value; a view has the value of its root.*)
LEMMA EvaluateRoot ==
  ASSUME graph \in Graphs, NEW S \in SUBSET Node, NEW base
  PROVE  \A i \in Id : /\ i \notin S => Evaluate(S, base)[i] = base[i]
                       /\ Evaluate(S, base)[i] = Evaluate(S, base)[Root(S)[i]]
<1> DEFINE v == Evaluate(S, base)
           T == {k \in Id : v[k] # v[Root(S)[k]]}
<1>1. \A k \in Id : Root(S)[k] =
        IF k \in S /\ graph.kind[k] = "view" THEN Root(S)[Origin(k)] ELSE k
  BY RootEquation
<1>2. \A k \in S : k \in Id /\ (graph.kind[k] = "view" => Origin(k) \in Id /\ Origin(k) < k)
  BY GraphFacts
<1>3. \A k \in Id : v[k] =
        IF k \notin S THEN base[k]
        ELSE IF graph.kind[k] = "view" THEN v[Origin(k)]
        ELSE Apply(k, v)
  BY EvaluateEquation
<1> HIDE DEF v
<1>4. \A k \in Id : /\ k \notin S => v[k] = base[k]
                    /\ k \in S /\ graph.kind[k] = "view" => v[k] = v[Origin(k)]
  BY <1>3
<1>5. T = {}
  <2> SUFFICES ASSUME T # {} PROVE FALSE
    OBVIOUS
  <2>1. T \in SUBSET Nat
    BY GraphFacts
  <2>2. PICK x \in T : \A y \in T : x <= y
    <3> HIDE DEF T
    <3> QED
      BY <2>1, Least
  <2>3. x \in Id /\ x \in Nat
    BY GraphFacts
  <2>4. x \in S /\ graph.kind[x] = "view"
    BY <1>1, <2>3
  <2>5. Origin(x) \in Id /\ Origin(x) < x /\ Origin(x) \in Nat
    BY <1>2, <2>4, GraphFacts
  <2>6. v[Origin(x)] = v[Root(S)[Origin(x)]]
    BY <2>2, <2>3, <2>5
  <2>7. v[x] = v[Root(S)[x]]
    BY <1>1, <1>4, <2>3, <2>4, <2>6
  <2> QED
    BY <2>7
<1>6. \A i \in Id : v[i] = v[Root(S)[i]]
  BY <1>5
<1> QED
  BY <1>4, <1>6 DEF v

(* A part of the graph, evaluated from right values, gives right values.   *)
LEMMA EvaluateAgrees ==
  ASSUME graph \in Graphs, NEW S \in SUBSET Node, NEW base, NEW whole,
         \A n \in S : \A j \in graph.ins[n] \ S : base[j] = Evaluate(Node, whole)[j]
  PROVE  \A n \in S : Evaluate(S, base)[n] = Evaluate(Node, whole)[n]
<1> DEFINE v == Evaluate(S, base)
           u == Evaluate(Node, whole)
           T == {n \in S : v[n] # u[n]}
<1>a. Node \in SUBSET Node /\ \A k \in S : k \in Node /\ k \in Id
  BY GraphFacts
<1>b. \A i \in Id : v[i] = IF i \notin S THEN base[i]
                            ELSE IF graph.kind[i] = "view" THEN v[Origin(i)]
                            ELSE Apply(i, v)
  BY EvaluateEquation
<1>c. \A i \in Id : u[i] = IF i \notin Node THEN whole[i]
                            ELSE IF graph.kind[i] = "view" THEN u[Origin(i)]
                            ELSE Apply(i, u)
  BY <1>a, EvaluateEquation
<1>d. \A n \in S : \A j \in graph.ins[n] \ S : base[j] = u[j]
  OBVIOUS
<1>e. \A j \in Id \ S : v[j] = base[j]
  BY EvaluateRoot
<1> HIDE DEF v, u
<1>1. \A k \in S : v[k] = IF graph.kind[k] = "view" THEN v[Origin(k)]
                          ELSE Apply(k, v)
  BY <1>a, <1>b
<1>2. \A k \in S : u[k] = IF graph.kind[k] = "view" THEN u[Origin(k)]
                          ELSE Apply(k, u)
  BY <1>a, <1>c
<1>3. \A n \in S : \A j \in graph.ins[n] \ S : v[j] = u[j]
  BY <1>a, <1>d, <1>e, GraphFacts
<1> SUFFICES ASSUME T # {} PROVE FALSE
  BY DEF v, u
<1>4. T \in SUBSET Nat
  BY GraphFacts
<1>5. PICK x \in T : \A y \in T : x <= y
  <2> HIDE DEF T
  <2> QED
    BY <1>4, Least
<1>6. x \in S /\ x \in Node /\ x \in Nat /\ v[x] # u[x]
  BY <1>4
<1>7. \A j \in graph.ins[x] : v[j] = u[j]
  <2> SUFFICES ASSUME NEW j \in graph.ins[x], j \in S PROVE v[j] = u[j]
    BY <1>3, <1>6
  <2>1. j < x /\ j \in Nat
    BY <1>6, GraphFacts
  <2>2. j \notin T
    BY <1>5, <1>6, <2>1
  <2> QED
    BY <2>2
<1>8. Apply(x, v) = Apply(x, u)
  BY <1>7, ApplyReads
<1>9. graph.kind[x] = "view" => Origin(x) \in graph.ins[x]
  BY <1>6, GraphFacts
<1> QED
  BY <1>1, <1>2, <1>6, <1>7, <1>8, <1>9

(* The graph's own inputs and constants are what it starts from.           *)
LEMMA ExpectedSources ==
  ASSUME graph \in Graphs
  PROVE  /\ \A i \in Input : Expected[i] = given[i]
         /\ \A i \in Const : Expected[i] = {<<i, 0>>}
<1> DEFINE whole == [i \in Id |-> IF i \in Input THEN given[i] ELSE {<<i, 0>>}]
<1>1. \A i \in Id \ Node : Evaluate(Node, whole)[i] = whole[i]
  <2> Node \in SUBSET Node
    OBVIOUS
  <2> HIDE DEF whole
  <2> QED
    BY EvaluateRoot
<1>2. \A i \in Input : i \in Id \ Node /\ whole[i] = given[i]
  BY GraphFacts
<1>3. \A i \in Const : i \in Id \ Node /\ whole[i] = {<<i, 0>>}
  BY GraphFacts
<1> QED
  BY <1>1, <1>2, <1>3 DEF Expected

(* Contents that are right where a part of the graph reads give the right  *)
(* values for its nodes, and for what it only passes on.                   *)
LEMMA ValuesAreRight ==
  ASSUME graph \in Graphs, NEW S \in SUBSET Node, NEW e, NEW h,
         \A n \in S : \A j \in graph.ins[n] \ S : Content(h, e[j]) = Expected[j]
  PROVE  \A n \in S : Values(S, e, h)[n] = Expected[n]
<1> DEFINE whole == [i \in Id |-> IF i \in Input THEN given[i] ELSE {<<i, 0>>}]
           base == [i \in Id |-> Content(h, e[i])]
<1>1. Expected = Evaluate(Node, whole)
  BY DEF Expected
<1>2. Values(S, e, h) = Evaluate(S, base)
  BY DEF Values
<1>3. \A n \in S : \A j \in graph.ins[n] \ S : j \in Id
  BY GraphFacts
<1>4. \A n \in S : \A j \in graph.ins[n] \ S : base[j] = Evaluate(Node, whole)[j]
  BY <1>1, <1>3
<1> HIDE DEF whole, base
<1>5. \A n \in S : Evaluate(S, base)[n] = Evaluate(Node, whole)[n]
  BY <1>4, EvaluateAgrees
<1> QED
  BY <1>1, <1>2, <1>5

(* The value of a view is that of its root, wherever that was computed.    *)
LEMMA ValuesRoot ==
  ASSUME graph \in Graphs, NEW S \in SUBSET Node, NEW e, NEW h, NEW i \in Id
  PROVE  /\ Values(S, e, h)[i] = Values(S, e, h)[Root(S)[i]]
         /\ i \notin S => Values(S, e, h)[i] = Content(h, e[i])
  BY EvaluateRoot DEF Values

-----------------------------------------------------------------------------
(* The plan: its items follow one another without a gap.                   *)

(* Nodes are numbered without a gap, and End comes after them.             *)
LEMMA NodesInOrder ==
  ASSUME graph \in Graphs
  PROVE  /\ Node \subseteq Nat
         /\ End \in Nat
         /\ \A n \in Node : n < End
         /\ \A m, n \in Node : \A k \in Nat : m <= k /\ k <= n => k \in Node
         /\ \E first \in Node : \A n \in Node : first <= n
<1>1. PICK first \in Node, last \in Node : Node = first .. last
  BY IdAssumption
<1>2. Node \subseteq Nat
  BY GraphFacts
<1>3. \A n \in Node : first <= n /\ n <= last
  BY <1>1, <1>2
<1> DEFINE top == CHOOSE m \in Node : \A n \in Node : n <= m
<1>4. top \in Node /\ \A n \in Node : n <= top
  <2> HIDE DEF top
  <2>1. \E m \in Node : \A n \in Node : n <= m
    BY <1>3
  <2> QED
    BY <2>1 DEF top
<1>5. End = 1 + top
  BY DEF End
<1> HIDE DEF top
<1>6. End \in Nat /\ \A n \in Node : n < End
  BY <1>2, <1>4, <1>5
<1>7. \A m, n \in Node : \A k \in Nat : m <= k /\ k <= n => k \in Node
  BY <1>1, <1>2
<1> QED
  BY <1>2, <1>3, <1>6, <1>7

FirstHead == CHOOSE h \in Heads : \A n \in Heads : h <= n

(* The plan begins with the first node.                                    *)
LEMMA FirstItem ==
  ASSUME graph \in Graphs
  PROVE  FirstHead \in Heads /\ \A n \in Node : FirstHead <= n
<1>1. PICK first \in Node : \A n \in Node : first <= n
  BY NodesInOrder
<1>2. first \in Nat /\ first - 1 \notin Node
  BY <1>1, NodesInOrder
<1>3. first \in Heads
  BY <1>2 DEF Heads
<1>4. Heads \subseteq Node
  BY DEF Heads
<1>5. \E h0 \in Heads : \A n \in Heads : h0 <= n
  BY <1>1, <1>3, <1>4
<1>6. FirstHead \in Heads /\ \A n \in Heads : FirstHead <= n
  BY <1>5 DEF FirstHead
<1>7. FirstHead \in Nat /\ FirstHead <= first
  BY <1>3, <1>4, <1>6, NodesInOrder
<1>8. Node \subseteq Nat
  BY NodesInOrder
<1> QED
  BY <1>1, <1>2, <1>6, <1>7, <1>8

(* The next item begins where this one ends.                               *)
LEMMA NextItemIs ==
  ASSUME graph \in Graphs, NEW h \in Heads
  PROVE  \/ /\ NextItem(h) = End
            /\ \A n \in Heads : n <= h
         \/ /\ NextItem(h) \in Heads
            /\ h < NextItem(h)
            /\ \A n \in Heads : n > h => NextItem(h) <= n
<1>1. Heads \in SUBSET Nat
  BY NodesInOrder DEF Heads
<1>2. CASE \E n \in Heads : n > h
  <2> DEFINE T == {n \in Heads : n > h}
  <2>1. T \in SUBSET Nat /\ T # {}
    BY <1>1, <1>2
  <2>2. PICK x \in T : \A y \in T : x <= y
    <3> HIDE DEF T
    <3> QED
      BY <2>1, Least
  <2>3. \E n \in Heads : n > h /\ \A m \in Heads : m > h => n <= m
    BY <2>2
  <2>4. NextItem(h) = CHOOSE n \in Heads : n > h /\ \A m \in Heads : m > h => n <= m
    BY <1>2 DEF NextItem
  <2>5. /\ NextItem(h) \in Heads
        /\ NextItem(h) > h
        /\ \A m \in Heads : m > h => NextItem(h) <= m
    BY <2>3, <2>4
  <2> QED
    BY <1>1, <2>5
<1>3. CASE ~\E n \in Heads : n > h
  BY <1>1, <1>3 DEF NextItem
<1> QED
  BY <1>2, <1>3

(* An item is the nodes from its head to the next one.                     *)
LEMMA ItemFacts ==
  ASSUME graph \in Graphs, NEW h \in Heads
  PROVE  /\ h \in Node /\ h \in Nat
         /\ Item(h) \in SUBSET Node
         /\ NextItem(h) = End \/ NextItem(h) \in Heads
         /\ NextItem(h) \in Nat /\ h < NextItem(h)
         /\ \A n \in Node : n \in Item(h) <=> h <= n /\ n < NextItem(h)
<1> DEFINE p == NextItem(h)
<1>1. h \in Node /\ Heads \subseteq Node /\ Node \subseteq Nat
  BY NodesInOrder DEF Heads
<1>2. Item(h) \in SUBSET Node
  BY <1>1 DEF Item
<1>3. p = End \/ p \in Heads
  BY NextItemIs
<1>4. p \in Nat /\ h < p
  BY <1>1, NextItemIs, NodesInOrder
<1>5. ASSUME NEW n \in Node, h <= n, n < p PROVE n \in Item(h)
  <2>1. n \in Nat /\ \A m \in h .. n : m \in Node /\ m < p
    BY <1>1, <1>4, <1>5, NodesInOrder
  <2>2. \A m \in Heads : m > h => m >= p
    BY <1>1, <1>4, NextItemIs
  <2>3. CASE Eager(h)
    <3>1. ASSUME n # h PROVE FALSE
      <4>1. h + 1 \in h .. n /\ h + 1 \in Nat
        BY <1>1, <1>5, <2>1, <3>1
      <4>2. h + 1 \in Heads
        <5>1. h + 1 \in Node /\ (h + 1) - 1 = h
          BY <1>1, <2>1, <4>1
        <5> QED
          BY <2>3, <5>1 DEF Heads
      <4> QED
        BY <1>1, <1>4, <2>1, <2>2, <4>1, <4>2
    <3> QED
      BY <2>3, <3>1 DEF Item
  <2>4. CASE ~Eager(h)
    <3>1. ASSUME NEW m \in h .. n, Eager(m) PROVE FALSE
      <4>1. m \in Heads /\ m < p /\ m > h /\ m \in Nat
        BY <1>1, <2>1, <2>4, <3>1 DEF Heads
      <4> QED
        BY <1>4, <2>2, <4>1
    <3> QED
      BY <1>5, <2>4, <3>1 DEF Item
  <2> QED
    BY <2>3, <2>4
<1>6. ASSUME NEW n \in Item(h) PROVE h <= n /\ n < p
  <2>1. n \in Node /\ n \in Nat
    BY <1>1, <1>2
  <2>2. CASE Eager(h)
    <3>1. n = h
      BY <2>2 DEF Item
    <3> QED
      BY <1>1, <1>4, <3>1
  <2>3. CASE ~Eager(h)
    <3>1. n >= h /\ \A m \in h .. n : ~Eager(m)
      BY <2>3 DEF Item
    <3>2. CASE p = End
      BY <1>1, <2>1, <3>1, <3>2, NodesInOrder
    <3>3. ASSUME p \in Heads, p <= n PROVE FALSE
      <4>1. p \in Node /\ (Eager(p) \/ p - 1 \notin Node \/ Eager(p - 1))
        BY <3>3 DEF Heads
      <4>2. p \in h .. n /\ p - 1 \in h .. n /\ p - 1 \in Nat
        BY <1>1, <1>4, <2>1, <3>3
      <4>3. p - 1 \in Node
        BY <1>1, <2>1, <4>2, NodesInOrder
      <4> QED
        BY <3>1, <4>1, <4>2, <4>3
    <3> QED
      BY <1>1, <1>3, <1>4, <2>1, <3>1, <3>2, <3>3
  <2> QED
    BY <2>2, <2>3
<1> QED
  BY <1>1, <1>2, <1>3, <1>4, <1>5, <1>6

(* The meaning of a graph depends on the graph and its inputs only.        *)
LEMMA ExpectedStays ==
  ASSUME graph' = graph, given' = given
  PROVE  Expected' = Expected
  BY DEF Expected, Evaluate, Apply, Origin

(* The plan depends on the graph only.                                     *)
LEMMA PlanStays ==
  ASSUME graph' = graph
  PROVE  /\ \A h : Item(h)' = Item(h) /\ NextItem(h)' = NextItem(h) /\ OutputIds(h)' = OutputIds(h)
         /\ \A S : Root(S)' = Root(S)
         /\ Heads' = Heads
  BY DEF Item, NextItem, OutputIds, After, Root, Origin, Heads, Eager, RequiresEager

-----------------------------------------------------------------------------
(* The invariant.                                                          *)

Held == (Id \X Role \X Nat) \cup {NoBuffer}

Jit == [count : 0 .. 2, mode : {"jit", "interpret"}, at : Nat, ret : [Id -> Held]]

(* The types that the other parts need.                                    *)
Types ==
  /\ graph \in Graphs
  /\ run \in Nat
  /\ failures \in Nat
  /\ pos = End \/ (phase = "segments" /\ pos \in Heads)
  /\ env \in [Id -> Held]
  /\ jit \in [Node \cup {Whole} -> Jit]

(* What the program holds was copied by an earlier run, into a buffer of   *)
(* its own.                                                                *)
KeptApart ==
  \A b \in kept :
    /\ b \in DOMAIN heap
    /\ b \in Id \X {"kept"} \X Nat
    /\ b[3] <= run
    /\ phase # "idle" => b[3] < run

(* Constants are uploaded once and never written again.                    *)
ConstantsStay ==
  \A i \in Const : Constant(i) \in DOMAIN heap /\ heap[Constant(i)] = {<<i, 0>>}

(* A buffer that no item at or after p writes.                             *)
Behind(b, p) ==
  b # NoBuffer => /\ b[2] \in {"buf", "copy", "kept"}
                  /\ b[1] \in Node /\ b[2] # "kept" => b[1] < p

EnvBehind == \A i \in Id : Behind(env[i], pos)

Right(i) == env[i] # NoBuffer /\ Content(heap, env[i]) = Expected[i]

(* What a run starts from is right until it is over.                       *)
SourcesRight ==
  phase \in {"whole", "segments"} => \A i \in Input \cup Const : Right(i)

ReadFrom(i, p) == i \in graph.outs \/ \E n \in Node : p <= n /\ i \in graph.ins[n]

(* What the plan has come past is right as long as it is needed.           *)
ComputedRight ==
  phase = "segments" => \A i \in Node : i < pos /\ ReadFrom(i, pos) => Right(i)

(* A segment's output is where the capture computed its root; what was not *)
(* computed there is in a clone.                                           *)
SegmentReturns(h, ret, r) ==
  \A i \in OutputIds(h) :
    ret[i] = IF Root(Item(h))[i] \in Item(h) THEN <<Root(Item(h))[i], "buf", r>>
                                             ELSE <<i, "copy", r>>

CapturesReturn ==
  /\ \A h \in Node : jit[h].count = 2 => SegmentReturns(h, jit[h].ret, jit[h].at)
  /\ jit[Whole].count = 2 =>
       \A i \in graph.outs : jit[Whole].ret[i] = <<i, "out", jit[Whole].at>>

XInv ==
  /\ Types
  /\ KeptApart
  /\ ConstantsStay
  /\ EnvBehind
  /\ SourcesRight
  /\ ComputedRight
  /\ CapturesReturn
  /\ ResultsAreRight
  /\ RejectedForViews
  /\ FallsBackOnFailure

-----------------------------------------------------------------------------
(* Contents of buffers.                                                    *)

(* A write leaves the other buffers alone.                                 *)
LEMMA NotWritten ==
  ASSUME NEW f, NEW g, NEW b, b \notin DOMAIN g
  PROVE  /\ Content(Overwrite(f, g), b) = Content(f, b)
         /\ b \in DOMAIN f => /\ b \in DOMAIN Overwrite(f, g)
                              /\ Overwrite(f, g)[b] = f[b]
  BY DEF Overwrite, Content

(* What is written is there.                                               *)
LEMMA Written ==
  ASSUME NEW f, NEW g, NEW b, b \in DOMAIN g
  PROVE  /\ b \in DOMAIN Overwrite(f, g)
         /\ Overwrite(f, g)[b] = g[b]
         /\ Content(Overwrite(f, g), b) = g[b]
  BY DEF Overwrite, Content

(* The clones of arguments are buffers of their own.                       *)
LEMMA ClonesFacts ==
  ASSUME NEW args
  PROVE  /\ DOMAIN Clones(args) \subseteq Id \X {"arg"} \X {run}
         /\ \A i \in Id : i \in DOMAIN args /\ args[i] = <<i, "arg", run>> =>
              /\ args[i] \in DOMAIN Clones(args)
              /\ Clones(args)[args[i]] = Content(heap, env[i])
<1> DEFINE D == {args[i] : i \in DOMAIN args} \cap (Id \X {"arg"} \X {run})
<1>1. Clones(args) = [b \in D |-> Content(heap, env[b[1]])]
  BY DEF Clones
<1>2. ASSUME NEW i \in Id, i \in DOMAIN args, args[i] = <<i, "arg", run>>
      PROVE  args[i] \in D /\ args[i][1] = i
  BY <1>2
<1> HIDE DEF D
<1>3. DOMAIN Clones(args) = D /\ \A b \in D : Clones(args)[b] = Content(heap, env[b[1]])
  BY <1>1
<1> QED
  BY <1>2, <1>3 DEF D

(* A call reads what its arguments hold, cloned or not.                    *)
LEMMA ArgumentContents ==
  ASSUME EnvBehind, NoBuffer \notin Id \X Role \X Nat, run \in Nat,
         NEW args, DOMAIN args \subseteq Id,
         \A i \in DOMAIN args : args[i] = env[i] \/ args[i] = <<i, "arg", run>>
  PROVE  \A i \in DOMAIN args :
           Content(Overwrite(heap, Clones(args)), args[i]) = Content(heap, env[i])
<1> SUFFICES ASSUME NEW i \in DOMAIN args
             PROVE  Content(Overwrite(heap, Clones(args)), args[i]) = Content(heap, env[i])
  OBVIOUS
<1>1. i \in Id
  OBVIOUS
<1>2. CASE args[i] = <<i, "arg", run>>
  BY <1>1, <1>2, ClonesFacts, Written
<1>3. CASE args[i] = env[i]
  <2>1. env[i] \notin DOMAIN Clones(args)
    <3> SUFFICES ASSUME env[i] \in Id \X {"arg"} \X {run} PROVE FALSE
      BY ClonesFacts
    <3>1. env[i][2] = "arg" /\ env[i] \in Id \X Role \X Nat
      BY DEF Role
    <3>2. env[i] # NoBuffer
      BY <3>1
    <3> QED
      BY <1>1, <3>1, <3>2 DEF EnvBehind, Behind
  <2> QED
    BY <1>3, <2>1, NotWritten
<1> QED
  BY <1>2, <1>3

-----------------------------------------------------------------------------
(* Writes that leave constants and what the program holds alone.           *)

Spare ==
  {b \in Id \X {"buf", "arg", "copy", "out"} \X Nat : b[2] = "buf" => b[1] \notin Const}

Keeps(f) ==
  /\ \A b \in kept : b \in DOMAIN f /\ f[b] = heap[b]
  /\ \A i \in Const : Constant(i) \in DOMAIN f /\ f[Constant(i)] = {<<i, 0>>}

(* The contents as they are keep both.                                     *)
LEMMA HeapKeeps ==
  ASSUME KeptApart, ConstantsStay
  PROVE  Keeps(heap)
  BY DEF KeptApart, ConstantsStay, Keeps

(* So do they after a spare buffer was written.                            *)
LEMMA SpareKeeps ==
  ASSUME KeptApart, NEW f, NEW g, Keeps(f), DOMAIN g \subseteq Spare
  PROVE  Keeps(Overwrite(f, g))
<1>1. ASSUME NEW b \in kept PROVE b \notin DOMAIN g
  <2>1. b[2] = "kept"
    BY DEF KeptApart
  <2>2. \A c \in Spare : c[2] # "kept"
    BY DEF Spare
  <2> QED
    BY <2>1, <2>2
<1>2. ASSUME NEW i \in Const PROVE Constant(i) \notin DOMAIN g
  <2>1. Constant(i)[1] = i /\ Constant(i)[2] = "buf"
    BY DEF Constant
  <2>2. \A c \in Spare : c[2] = "buf" => c[1] \notin Const
    BY DEF Spare
  <2> QED
    BY <2>1, <2>2
<1>3. \A b \in kept : b \in DOMAIN Overwrite(f, g) /\ Overwrite(f, g)[b] = f[b]
  BY <1>1, NotWritten DEF Keeps
<1>4. \A i \in Const : /\ Constant(i) \in DOMAIN Overwrite(f, g)
                       /\ Overwrite(f, g)[Constant(i)] = f[Constant(i)]
  BY <1>2, NotWritten DEF Keeps
<1> QED
  BY <1>3, <1>4 DEF Keeps

(* What a step leaves of constants and handles if it keeps both.           *)
LEMMA KeptStays ==
  ASSUME XInv, Keeps(heap'), kept' = kept, run' \in Nat,
         \/ run' = run /\ (phase # "idle" \/ phase' = "idle")
         \/ run' = run + 1
  PROVE  KeptApart' /\ ConstantsStay'
<1>1. ASSUME NEW b \in kept
      PROVE  /\ b \in DOMAIN heap'
             /\ b \in Id \X {"kept"} \X Nat
             /\ b[3] <= run'
             /\ phase' # "idle" => b[3] < run'
  <2>1. /\ b \in DOMAIN heap'
        /\ b \in Id \X {"kept"} \X Nat
        /\ b[3] <= run
        /\ phase # "idle" => b[3] < run
    BY DEF XInv, KeptApart, Keeps
  <2>2. b[3] \in Nat /\ run \in Nat
    BY <2>1 DEF XInv, Types
  <2> QED
    BY <2>1, <2>2
<1>2. KeptApart'
  BY <1>1 DEF KeptApart
<1>3. ConstantsStay'
  BY DEF Keeps, ConstantsStay, Constant
<1> QED
  BY <1>2, <1>3

-----------------------------------------------------------------------------
(* Calls of a TinyJit.                                                     *)

(* The run whose buffers a call writes.                                    *)
Writer(k) == IF jit[k].count = 2 THEN jit[k].at ELSE run

(* A call writes what it computes and its clones, each with its value.     *)
LEMMA CallWritesAre ==
  ASSUME NEW k, NEW S, NEW args, NEW ids, NEW h, NEW c, c = Call(k, S, args, ids, h)
  PROVE  c.writes =
           [b \in Operations(S, Writer(k)) \cup
                  ({c.ret[i] : i \in ids} \cap (Id \X {"copy", "out"} \X {Writer(k)})) |->
              Values(S, InTrace(args), h)[b[1]]]
  BY DEF Call, Writer

(* A call returns what the capture did, or what the function returns.      *)
LEMMA CallReturnIs ==
  ASSUME NEW k, NEW S, NEW args, NEW ids, NEW h
  PROVE  Call(k, S, args, ids, h).ret =
           IF jit[k].count = 2 THEN jit[k].ret
           ELSE Return(k, S, Where(S, InTrace(args), run), ids)
  BY DEF Call

(* What it writes is spare.                                                *)
LEMMA CallWritesSpare ==
  ASSUME Types, NEW k \in Node \cup {Whole}, NEW S \in SUBSET Node, NEW args, NEW ids, NEW h
  PROVE  DOMAIN Call(k, S, args, ids, h).writes \subseteq Spare
<1> DEFINE c == Call(k, S, args, ids, h)
<1>1. Writer(k) \in Nat
  BY DEF Writer, Types, Jit
<1>2. DOMAIN c.writes = Operations(S, Writer(k)) \cup
                     ({c.ret[i] : i \in ids} \cap (Id \X {"copy", "out"} \X {Writer(k)}))
  <2>1. c.writes =
          [b \in Operations(S, Writer(k)) \cup
                 ({c.ret[i] : i \in ids} \cap (Id \X {"copy", "out"} \X {Writer(k)})) |->
             Values(S, InTrace(args), h)[b[1]]]
    BY CallWritesAre
  <2> HIDE DEF c
  <2> QED
    BY <2>1
<1> HIDE DEF c
<1>3. Operations(S, Writer(k)) \subseteq Spare
  <2>1. \A n \in S : n \in Id /\ n \notin Const
    BY GraphFacts DEF Types
  <2> QED
    BY <1>1, <2>1 DEF Operations, Spare
<1>4. Id \X {"copy", "out"} \X {Writer(k)} \subseteq Spare
  BY <1>1 DEF Spare
<1> QED
  BY <1>2, <1>3, <1>4 DEF c

(* Clones of arguments are spare.                                          *)
LEMMA ClonesSpare ==
  ASSUME run \in Nat, NEW args
  PROVE  DOMAIN Clones(args) \subseteq Spare
<1>1. Id \X {"arg"} \X {run} \subseteq Spare
  BY DEF Spare
<1> QED
  BY <1>1, ClonesFacts

(* What becomes of a TinyJit that is called.                               *)
LEMMA CalledIs ==
  ASSUME Types, NEW k \in Node \cup {Whole}, NEW ret \in [Id -> Held], jit' = Called(k, ret)
  PROVE  /\ jit' \in [Node \cup {Whole} -> Jit]
         /\ \A j \in Node \cup {Whole} : j # k => jit'[j] = jit[j]
         /\ jit'[k].mode = jit[k].mode
         /\ jit'[k].count = 2 =>
              \/ jit[k].count = 2 /\ jit'[k].ret = jit[k].ret /\ jit'[k].at = jit[k].at
              \/ jit[k].count = 1 /\ jit'[k].ret = ret /\ jit'[k].at = run
<1> DEFINE count == IF jit[k].count = 2 THEN 2 ELSE jit[k].count + 1
           at == IF jit[k].count = 1 THEN run ELSE jit[k].at
           out == IF jit[k].count = 1 THEN ret ELSE jit[k].ret
           new == [jit[k] EXCEPT !.count = count, !.at = at, !.ret = out]
<1>1. jit \in [Node \cup {Whole} -> Jit] /\ jit[k] \in Jit /\ run \in Nat
  BY DEF Types
<1>2. count \in 0 .. 2 /\ at \in Nat /\ out \in [Id -> Held]
  BY <1>1 DEF Jit
<1>3. jit' = [jit EXCEPT ![k] = new]
  BY <1>1 DEF Called
<1>4. /\ new \in Jit /\ new.mode = jit[k].mode
      /\ new.count = count /\ new.at = at /\ new.ret = out
  <2> HIDE DEF count, at, out
  <2> QED
    BY <1>1, <1>2 DEF Jit
<1>5. count = 2 =>
        \/ jit[k].count = 2 /\ out = jit[k].ret /\ at = jit[k].at
        \/ jit[k].count = 1 /\ out = ret /\ at = run
  BY <1>1 DEF Jit
<1> HIDE DEF count, at, out
<1> HIDE DEF new
<1>7. \A j \in Node \cup {Whole} : jit'[j] = IF j = k THEN new ELSE jit[j]
  BY <1>1, <1>3
<1>8. jit' \in [Node \cup {Whole} -> Jit]
  BY <1>1, <1>3, <1>4
<1> QED
  BY <1>4, <1>5, <1>7, <1>8

-----------------------------------------------------------------------------
(* The segment the plan has come to.                                       *)

AtNode == phase = "segments" /\ pos \in Heads

(* What an item reads from outside is right.                               *)
LEMMA ReadIsRight ==
  ASSUME XInv, AtNode, NEW n \in Item(pos), NEW j \in graph.ins[n] \ Item(pos)
  PROVE  j \in Id /\ Right(j)
<1> USE DEF XInv, Types
<1>1. /\ Item(pos) \in SUBSET Node /\ pos \in Nat /\ NextItem(pos) \in Nat
      /\ \A m \in Node : m \in Item(pos) <=> pos <= m /\ m < NextItem(pos)
  BY ItemFacts DEF AtNode
<1>2. n \in Node /\ pos <= n /\ n < NextItem(pos)
  BY <1>1
<1>3. j \in Id /\ j \in Nat /\ n \in Nat /\ j < n
  BY <1>2, GraphFacts
<1>4. CASE j \in Input \cup Const
  BY <1>3, <1>4 DEF AtNode, SourcesRight
<1>5. CASE j \in Node
  <2>1. j < pos
    BY <1>1, <1>2, <1>3, <1>5
  <2>2. ReadFrom(j, pos)
    BY <1>2 DEF ReadFrom
  <2> QED
    BY <1>3, <1>5, <2>1, <2>2 DEF AtNode, ComputedRight
<1> QED
  BY <1>3, <1>4, <1>5 DEF Id

(* What is read before an item is kept apart from what the item writes.    *)
LEMMA BehindItem ==
  ASSUME XInv, AtNode, NEW i \in Id, NEW b, b[1] \in Item(pos), b[2] \in {"buf", "copy"},
         b # NoBuffer
  PROVE  env[i] # b
<1>1. /\ Item(pos) \in SUBSET Node /\ pos \in Nat
      /\ \A m \in Node : m \in Item(pos) => pos <= m
  BY ItemFacts DEF AtNode, XInv, Types
<1>2. b[1] \in Node /\ b[1] \in Nat /\ pos <= b[1]
  BY <1>1, NodesInOrder DEF XInv, Types
<1> SUFFICES ASSUME env[i] = b PROVE FALSE
  OBVIOUS
<1>3. b[1] < pos
  BY <1>2 DEF XInv, EnvBehind, Behind
<1> QED
  BY <1>1, <1>2, <1>3

(* The arguments of a segment are buffers in use or clones.                *)
LEMMA SegmentArgsAre ==
  ASSUME XInv
  PROVE  /\ DOMAIN SegmentArgs = InputIds(pos)
         /\ \A i \in InputIds(pos) : SegmentArgs[i] = env[i] \/ SegmentArgs[i] = <<i, "arg", run>>
  BY DEF SegmentArgs

(* The inputs of a segment are ids.                                        *)
LEMMA InputsAreIds ==
  ASSUME XInv, AtNode
  PROVE  /\ InputIds(pos) \subseteq Id /\ InputIds(pos) \cap Const = {}
         /\ \A n \in Item(pos) : \A j \in graph.ins[n] \ Item(pos) :
              j \in Const \/ j \in InputIds(pos)
<1>1. Item(pos) \in SUBSET Node
  BY ItemFacts DEF AtNode, XInv, Types
<1>2. \A n \in Item(pos) : graph.ins[n] \subseteq Id
  BY <1>1, GraphFacts DEF XInv, Types
<1> DEFINE U == UNION {graph.ins[n] : n \in Item(pos)}
<1>3. InputIds(pos) = U \ (Item(pos) \cup Const)
  BY DEF InputIds
<1>4. U \subseteq Id /\ \A n \in Item(pos) : \A j \in graph.ins[n] : j \in U
  BY <1>2
<1> HIDE DEF U
<1> QED
  BY <1>3, <1>4

(* A segment is called with what the ids it reads should hold.             *)
LEMMA SegmentContents ==
  ASSUME XInv, AtNode, NEW n \in Item(pos), NEW j \in graph.ins[n] \ Item(pos)
  PROVE  Content(Contents, InTrace(SegmentArgs)[j]) = Expected[j]
<1> USE DEF XInv, Types
<1>1. j \in Id /\ Right(j)
  BY ReadIsRight
<1>2. CASE j \in Const
  <2>1. InTrace(SegmentArgs)[j] = Constant(j)
    BY <1>1, <1>2, InputsAreIds, SegmentArgsAre DEF InTrace
  <2>2. Keeps(Contents)
    BY HeapKeeps, ClonesSpare, SpareKeeps DEF Contents
  <2>3. Content(Contents, Constant(j)) = {<<j, 0>>}
    BY <1>2, <2>2 DEF Keeps, Content
  <2>4. Expected[j] = {<<j, 0>>}
    BY <1>2, ExpectedSources
  <2> QED
    BY <2>1, <2>3, <2>4
<1>3. CASE j \notin Const
  <2>1. j \in InputIds(pos)
    BY <1>3, InputsAreIds
  <2>2. InTrace(SegmentArgs)[j] = SegmentArgs[j]
    BY <1>1, <2>1, SegmentArgsAre DEF InTrace
  <2>3. Content(Contents, SegmentArgs[j]) = Content(heap, env[j])
    BY <2>1, InputsAreIds, SegmentArgsAre, ArgumentContents, NoBufferAssumption DEF Contents
  <2> QED
    BY <1>1, <2>2, <2>3 DEF Right
<1> QED
  BY <1>2, <1>3

(* So it computes what it should.                                          *)
LEMMA SegmentValues ==
  ASSUME XInv, AtNode
  PROVE  \A n \in Item(pos) :
           Values(Item(pos), InTrace(SegmentArgs), Contents)[n] = Expected[n]
<1>1. graph \in Graphs /\ Item(pos) \in SUBSET Node
  BY ItemFacts DEF AtNode, XInv, Types
<1> QED
  BY <1>1, SegmentContents, ValuesAreRight

(* A segment returns the buffers of its roots and clones of the rest.      *)
LEMMA SegmentReturnsAre ==
  ASSUME XInv, AtNode
  PROVE  /\ SegmentReturns(pos, SegmentCall.ret, Writer(pos))
         /\ SegmentCall.ret \in [Id -> Held]
<1> DEFINE S == Item(pos)
           e == InTrace(SegmentArgs)
           ret == SegmentCall.ret
<1>1. /\ graph \in Graphs /\ S \in SUBSET Node /\ pos \in Node /\ pos # Whole
      /\ run \in Nat /\ S \subseteq Id
  BY ItemFacts, GraphFacts DEF AtNode, XInv, Types, Whole
<1>2. OutputIds(pos) \subseteq S
  BY DEF OutputIds
<1>3. ret = IF jit[pos].count = 2 THEN jit[pos].ret
            ELSE Return(pos, S, Where(S, e, run), OutputIds(pos))
  <2>1. SegmentCall = Call(pos, S, SegmentArgs, OutputIds(pos), Contents)
    BY DEF SegmentCall
  <2> HIDE DEF S
  <2>2. SegmentCall.ret = IF jit[pos].count = 2 THEN jit[pos].ret
            ELSE Return(pos, S, Where(S, InTrace(SegmentArgs), run), OutputIds(pos))
    BY <2>1, CallReturnIs
  <2> QED
    BY <2>2
<1>4. CASE jit[pos].count = 2
  <2>1. jit[pos] \in Jit
    BY <1>1 DEF XInv, Types
  <2> QED
    BY <1>1, <1>3, <1>4, <2>1 DEF XInv, CapturesReturn, Writer, Jit
<1>5. CASE jit[pos].count # 2
  <2> DEFINE w == Where(S, e, run)
             at(i) == IF Root(S)[i] \in S THEN <<Root(S)[i], "buf", run>> ELSE <<i, "copy", run>>
  <2>1. ASSUME NEW i \in S
        PROVE  SegmentReturn(S, w[i], i) = at(i)
    <3>1. w[i] = IF Root(S)[i] \in S THEN <<Root(S)[i], "buf", run>> ELSE e[Root(S)[i]]
      BY <1>1, WhereIs
    <3>2. CASE Root(S)[i] \in S
      BY <3>1, <3>2 DEF SegmentReturn, Computed
    <3>3. CASE Root(S)[i] \notin S
      <4> DEFINE j == Root(S)[i]
      <4>1. PICK n \in S : j \in graph.ins[n]
        BY <1>1, <3>3, RootIsRead
      <4>2. j \in Id /\ Right(j)
        BY <3>3, <4>1, ReadIsRight
      <4>3. CASE j \in Const
        <5>1. e[j] = Constant(j)
          BY <4>2, <4>3, InputsAreIds, SegmentArgsAre DEF InTrace
        <5>2. ~Computed(S, e[j])
          BY <3>3, <5>1 DEF Constant, Computed
        <5> QED
          BY <3>1, <3>3, <5>2 DEF SegmentReturn
      <4>4. CASE j \notin Const
        <5>1. j \in InputIds(pos)
          BY <3>3, <4>1, <4>4, InputsAreIds
        <5>2. e[j] = env[j] \/ e[j] = <<j, "arg", run>>
          BY <4>2, <5>1, SegmentArgsAre DEF InTrace
        <5>3. ASSUME e[j] = env[j] PROVE ~Computed(S, e[j])
          BY <4>2, <5>3, BehindItem DEF Computed, Right
        <5>4. ASSUME e[j] = <<j, "arg", run>> PROVE ~Computed(S, e[j])
          BY <5>4 DEF Computed
        <5> QED
          BY <3>1, <3>3, <5>2, <5>3, <5>4 DEF SegmentReturn
      <4> QED
        BY <4>3, <4>4
    <3> QED
      BY <3>2, <3>3
  <2> HIDE DEF w
  <2>2. ret = [i \in Id |-> IF i \notin OutputIds(pos) THEN NoBuffer
                            ELSE SegmentReturn(S, w[i], i)]
    BY <1>1, <1>3, <1>5 DEF Return, w
  <2>3. \A i \in OutputIds(pos) : ret[i] = at(i)
    BY <1>1, <1>2, <2>1, <2>2
  <2>4. \A i \in Id : i \notin OutputIds(pos) => ret[i] = NoBuffer
    BY <2>2
  <2>5. \A i \in S : at(i) \in Held
    BY <1>1, GraphFacts DEF Held, Role
  <2>6. ret \in [Id -> Held]
    <3> HIDE DEF ret, at
    <3>1. \A i \in Id : ret[i] \in Held
      BY <1>2, <2>3, <2>4, <2>5 DEF Held
    <3> QED
      BY <2>2, <3>1
  <2>7. Writer(pos) = run
    BY <1>5 DEF Writer
  <2> QED
    BY <2>3, <2>6, <2>7 DEF SegmentReturns
<1> QED
  BY <1>4, <1>5

(* It writes its own buffers only, and the outputs with what they should   *)
(* hold.                                                                   *)
LEMMA SegmentWrites ==
  ASSUME XInv, AtNode
  PROVE  /\ \A b \in DOMAIN SegmentCall.writes :
              b[1] \in Item(pos) /\ b[2] \in {"buf", "copy"} /\ b # NoBuffer
         /\ \A i \in OutputIds(pos) :
              /\ SegmentCall.ret[i] \in DOMAIN SegmentCall.writes
              /\ SegmentCall.writes[SegmentCall.ret[i]] = Expected[i]
<1> DEFINE S == Item(pos)
           v == Values(S, InTrace(SegmentArgs), Contents)
           ret == SegmentCall.ret
           r == Writer(pos)
           D == Operations(S, r) \cup
                  ({ret[i] : i \in OutputIds(pos)} \cap (Id \X {"copy", "out"} \X {r}))
<1>1. /\ graph \in Graphs /\ S \in SUBSET Node /\ pos \in Node /\ S \subseteq Id
      /\ OutputIds(pos) \subseteq S
  BY ItemFacts, GraphFacts DEF AtNode, XInv, Types, OutputIds
<1>2. r \in Nat
  BY <1>1 DEF Writer, XInv, Types, Jit
<1>3. SegmentCall.writes = [b \in D |-> v[b[1]]]
  BY CallWritesAre DEF SegmentCall
<1>4. \A i \in OutputIds(pos) :
        ret[i] = IF Root(S)[i] \in S THEN <<Root(S)[i], "buf", r>> ELSE <<i, "copy", r>>
  BY SegmentReturnsAre DEF SegmentReturns
<1>5. \A n \in S : v[n] = Expected[n]
  BY SegmentValues
<1>6. \A i \in S : v[Root(S)[i]] = v[i]
  BY <1>1, ValuesRoot
<1>7. \A i \in S : Root(S)[i] \in S => graph.kind[Root(S)[i]] # "view"
  BY <1>1, RootFacts
<1>8. \A n \in S : <<n, "buf", r>> # NoBuffer /\ <<n, "copy", r>> # NoBuffer
  BY <1>1, <1>2, NoBufferAssumption DEF Role
<1> HIDE DEF v, ret, r
<1>9. ASSUME NEW b \in D
      PROVE  b[1] \in S /\ b[2] \in {"buf", "copy"} /\ b # NoBuffer
  <2>1. CASE b \in Operations(S, r)
    BY <1>8, <2>1 DEF Operations
  <2>2. CASE b \notin Operations(S, r)
    <3>1. PICK i \in OutputIds(pos) : b = ret[i]
      BY <2>2
    <3>2. b[2] # "buf"
      BY <2>2
    <3>3. b = <<i, "copy", r>>
      <4>1. CASE Root(S)[i] \in S
        <5>1. b = <<Root(S)[i], "buf", r>>
          BY <1>4, <3>1, <4>1
        <5> QED
          BY <3>2, <5>1
      <4>2. CASE Root(S)[i] \notin S
        BY <1>4, <3>1, <4>2
      <4> QED
        BY <4>1, <4>2
    <3> QED
      BY <1>1, <1>8, <3>3
  <2> QED
    BY <2>1, <2>2
<1>10. ASSUME NEW i \in OutputIds(pos)
       PROVE  ret[i] \in D /\ v[ret[i][1]] = Expected[i]
  <2>1. i \in S /\ i \in Id
    BY <1>1
  <2>2. CASE Root(S)[i] \in S
    <3>1. ret[i] = <<Root(S)[i], "buf", r>>
      BY <1>4, <2>2
    <3>2. ret[i] \in Operations(S, r)
      BY <1>7, <2>1, <2>2, <3>1 DEF Operations
    <3> QED
      BY <1>5, <1>6, <2>1, <3>1, <3>2
  <2>3. CASE Root(S)[i] \notin S
    <3>1. ret[i] = <<i, "copy", r>>
      BY <1>4, <2>3
    <3> QED
      BY <1>5, <2>1, <3>1
  <2> QED
    BY <2>2, <2>3
<1> HIDE DEF D
<1>11. DOMAIN SegmentCall.writes = D /\ \A b \in D : SegmentCall.writes[b] = v[b[1]]
  BY <1>3
<1> QED
  BY <1>9, <1>10, <1>11 DEF ret

-----------------------------------------------------------------------------
(* Steps of the plan.                                                      *)

(* What a step leaves of the TinyJits if it touches none.                  *)
LEMMA CapturesStay ==
  ASSUME XInv, graph' = graph, jit' = jit, failures' = failures
  PROVE  CapturesReturn' /\ FallsBackOnFailure'
<1>1. CapturesReturn'
  BY PlanStays DEF XInv, CapturesReturn, SegmentReturns
<1>2. FallsBackOnFailure'
  BY DEF XInv, FallsBackOnFailure
<1> QED
  BY <1>1, <1>2

(* What is behind an item is behind the later ones.                        *)
LEMMA BehindLater ==
  ASSUME Node \subseteq Nat, NEW p \in Nat, NEW q \in Nat, p <= q, NEW b, Behind(b, p)
  PROVE  Behind(b, q)
<1>1. ASSUME b # NoBuffer, b[1] \in Node, b[2] # "kept" PROVE b[1] < q
  <2>1. b[1] < p /\ b[1] \in Nat
    BY <1>1 DEF Behind
  <2> QED
    BY <2>1
<1> QED
  BY <1>1 DEF Behind

(* The next item is reached with everything right if the ids of this one   *)
(* are, as far as they are read later, and the others are where they were. *)
LEMMA NextItemRight ==
  ASSUME XInv, AtNode, graph' = graph, given' = given, phase' = phase, pos' = NextItem(pos),
         \A i \in Id \ Item(pos) : env'[i] = env[i],
         \A i \in Id : Content(heap', env[i]) = Content(heap, env[i]),
         \A i \in Item(pos) : Behind(env'[i], pos'),
         \A i \in OutputIds(pos) : env'[i] # NoBuffer /\ Content(heap', env'[i]) = Expected[i]
  PROVE  /\ EnvBehind' /\ SourcesRight' /\ ComputedRight'
         /\ pos' = End \/ (phase' = "segments" /\ pos' \in Heads)
<1> USE DEF XInv, Types
<1>1. /\ Item(pos) \in SUBSET Node /\ pos \in Nat /\ pos' \in Nat /\ pos < pos'
      /\ pos' = End \/ pos' \in Heads
      /\ \A n \in Node : n \in Item(pos) <=> pos <= n /\ n < pos'
  BY ItemFacts DEF AtNode
<1>2. Node \subseteq Nat /\ Node \subseteq Id /\ (Input \cup Const) \subseteq Id \ Node
  BY GraphFacts
<1>3. \A i \in Id \ Item(pos) : Right(i) => Right(i)'
  BY ExpectedStays DEF Right
<1>4. EnvBehind'
  <2>1. ASSUME NEW i \in Id \ Item(pos) PROVE Behind(env'[i], pos')
    <3>1. Behind(env[i], pos)
      BY DEF EnvBehind
    <3>2. Behind(env[i], pos')
      BY <1>1, <1>2, <3>1, BehindLater
    <3> QED
      BY <3>2
  <2> QED
    BY <2>1 DEF EnvBehind, Behind
<1>5. SourcesRight'
  BY <1>1, <1>2, <1>3 DEF SourcesRight, AtNode
<1>6. ASSUME NEW i \in Node, i < pos', ReadFrom(i, pos)' PROVE Right(i)'
  <2>1. i \in graph.outs \/ \E n \in Node : pos' <= n /\ i \in graph.ins[n]
    BY <1>6 DEF ReadFrom
  <2>2. CASE i \in Item(pos)
    <3>1. ASSUME NEW n \in Node, pos' <= n PROVE \A m \in Item(pos) : n > m
      <4>1. ASSUME NEW m \in Item(pos) PROVE n > m
        <5>1. m \in Nat /\ n \in Nat /\ m < pos'
          BY <1>1, <1>2
        <5> QED
          BY <1>1, <3>1, <5>1
      <4> QED
        BY <4>1
    <3>2. i \in OutputIds(pos)
      BY <1>6, <2>1, <2>2, <3>1 DEF OutputIds, After
    <3> QED
      BY <3>2, ExpectedStays DEF Right
  <2>3. CASE i \notin Item(pos)
    <3>1. i < pos
      BY <1>1, <1>2, <1>6, <2>3
    <3>2. ReadFrom(i, pos)
      BY <1>1, <1>2, <2>1 DEF ReadFrom
    <3> QED
      BY <1>2, <1>3, <2>3, <3>1, <3>2 DEF ComputedRight, AtNode
  <2> QED
    BY <2>2, <2>3
<1>7. ComputedRight'
  BY <1>6 DEF ComputedRight
<1> QED
  BY <1>1, <1>4, <1>5, <1>7 DEF AtNode

(* A step of the plan leaves nothing to say of results and refusals.       *)
LEMMA PlanStep ==
  ASSUME XInv, AtNode, phase' = phase, graph' = graph, run' = run, kept' = kept,
         failures' \in Nat, env' \in [Id -> Held], jit' \in [Node \cup {Whole} -> Jit],
         Keeps(heap'),
         EnvBehind' /\ SourcesRight' /\ ComputedRight',
         pos' = End \/ (phase' = "segments" /\ pos' \in Heads),
         CapturesReturn' /\ FallsBackOnFailure'
  PROVE  XInv'
<1>1. KeptApart' /\ ConstantsStay'
  BY KeptStays DEF AtNode, XInv, Types
<1>2. Types'
  BY PlanStays DEF XInv, Types, End
<1>3. ResultsAreRight' /\ RejectedForViews'
  BY DEF AtNode, ResultsAreRight, RejectedForViews
<1> QED
  BY <1>1, <1>2, <1>3 DEF XInv

(* Interpretation of an item over contents that agree with the heap.       *)
LEMMA InterpretRight ==
  ASSUME XInv, AtNode, graph' = graph, given' = given, phase' = phase, pos' = NextItem(pos),
         NEW h, Keeps(h), \A i \in Id : Content(h, env[i]) = Content(heap, env[i]),
         Interpret(Item(pos), h)
  PROVE  /\ EnvBehind' /\ SourcesRight' /\ ComputedRight'
         /\ pos' = End \/ (phase' = "segments" /\ pos' \in Heads)
         /\ env' \in [Id -> Held]
         /\ Keeps(heap')
<1> DEFINE S == Item(pos)
           v == Values(S, env, h)
           g == [b \in Operations(S, run) |-> v[b[1]]]
<1>1. /\ graph \in Graphs /\ run \in Nat /\ S \in SUBSET Node /\ S \subseteq Id /\ pos \in Nat
      /\ pos' \in Nat /\ \A n \in S : n \in Nat /\ pos <= n /\ n < pos' /\ n \notin Const
  BY ItemFacts, GraphFacts DEF AtNode, XInv, Types
<1>2. env' = Where(S, env, run) /\ heap' = Overwrite(h, g)
  BY DEF Interpret
<1>3. /\ env' = [i \in Id |-> env'[i]]
      /\ \A i \in Id : env'[i] = IF Root(S)[i] \in S THEN <<Root(S)[i], "buf", run>>
                                                     ELSE env[Root(S)[i]]
  <2>1. env \in [Id -> Held]
    BY DEF XInv, Types
  <2> HIDE DEF S
  <2>2. /\ Where(S, env, run) = [i \in Id |-> Where(S, env, run)[i]]
        /\ \A i \in Id : Where(S, env, run)[i] =
             IF Root(S)[i] \in S THEN <<Root(S)[i], "buf", run>> ELSE env[Root(S)[i]]
    BY <1>1, WhereIs
  <2> QED
    BY <1>2, <2>2
<1>4. \A i \in Id : Root(S)[i] \in Id /\ (i \notin S => Root(S)[i] = i)
                    /\ (Root(S)[i] \in S => graph.kind[Root(S)[i]] # "view")
  BY <1>1, RootFacts
<1>5. \A n \in S : v[n] = Expected[n]
  <2>1. \A n \in S : \A j \in graph.ins[n] \ S : Content(h, env[j]) = Expected[j]
    BY ReadIsRight DEF Right
  <2> QED
    BY <1>1, <2>1, ValuesAreRight
<1>6. \A i \in Id : v[i] = v[Root(S)[i]] /\ (i \notin S => v[i] = Content(h, env[i]))
  BY <1>1, ValuesRoot
<1> HIDE DEF v
<1>7. /\ DOMAIN g = Operations(S, run)
      /\ \A n \in S : graph.kind[n] # "view" =>
           <<n, "buf", run>> \in DOMAIN g /\ g[<<n, "buf", run>>] = v[n]
  BY DEF Operations
<1>8. \A i \in Id : env[i] \notin DOMAIN g
  <2>1. \A b \in Operations(S, run) : b[1] \in S /\ b[2] = "buf" /\ b # NoBuffer
    BY <1>1, NoBufferAssumption DEF Operations, Role
  <2> QED
    BY <1>7, <2>1, BehindItem
<1> HIDE DEF g
<1>9. \A i \in Id : Content(heap', env[i]) = Content(heap, env[i])
  BY <1>2, <1>8, NotWritten
<1>10. \A n \in S : graph.kind[n] # "view" => Content(heap', <<n, "buf", run>>) = v[n]
  BY <1>2, <1>7, Written
<1>11. \A i \in Id \ S : env'[i] = env[i]
  BY <1>3, <1>4
<1>12. ASSUME NEW i \in S
       PROVE  /\ Behind(env'[i], pos')
              /\ env'[i] # NoBuffer /\ Content(heap', env'[i]) = Expected[i]
  <2> DEFINE m == Root(S)[i]
  <2>1. i \in Id /\ m \in Id /\ v[m] = Expected[i]
    BY <1>1, <1>4, <1>5, <1>6
  <2>2. CASE m \in S
    <3>1. env'[i] = <<m, "buf", run>> /\ graph.kind[m] # "view"
      BY <1>3, <1>4, <2>1, <2>2
    <3>2. Behind(env'[i], pos')
      BY <1>1, <2>2, <3>1 DEF Behind
    <3>3. env'[i] # NoBuffer
      BY <1>1, <2>1, <3>1, NoBufferAssumption DEF Role
    <3> QED
      BY <1>10, <2>1, <2>2, <3>1, <3>2, <3>3
  <2>3. CASE m \notin S
    <3>1. env'[i] = env[m]
      BY <1>3, <2>1, <2>3
    <3>2. PICK n \in S : m \in graph.ins[n]
      BY <1>1, <2>3, RootIsRead
    <3>3. Right(m)
      BY <2>3, <3>2, ReadIsRight
    <3>4. Behind(env[m], pos)
      BY <2>1 DEF XInv, EnvBehind
    <3>5. Behind(env'[i], pos')
      <4>1. pos <= pos' /\ Node \subseteq Nat
        BY ItemFacts, NodesInOrder DEF AtNode, XInv, Types
      <4>2. Behind(env[m], pos')
        BY <1>1, <3>4, <4>1, BehindLater
      <4> QED
        BY <3>1, <4>2
    <3>6. Content(heap', env'[i]) = Expected[i]
      BY <1>6, <1>9, <2>1, <2>3, <3>1
    <3> QED
      BY <3>1, <3>3, <3>5, <3>6 DEF Right
  <2> QED
    BY <2>2, <2>3
<1>13. \A i \in OutputIds(pos) : i \in S
  BY DEF OutputIds
<1>14. /\ EnvBehind' /\ SourcesRight' /\ ComputedRight'
       /\ pos' = End \/ (phase' = "segments" /\ pos' \in Heads)
  BY <1>9, <1>11, <1>12, <1>13, NextItemRight
<1>15. env' \in [Id -> Held]
  <2>1. \A i \in Id : env[i] \in Held
    BY DEF XInv, Types
  <2>2. \A i \in Id : env'[i] \in Held
    BY <1>1, <1>3, <1>4, <2>1 DEF Held, Role
  <2> QED
    BY <1>3, <2>2
<1>16. Keeps(heap')
  <2>1. Operations(S, run) \subseteq Spare
    BY <1>1 DEF Operations, Spare
  <2> QED
    BY <1>2, <1>7, <2>1, SpareKeeps DEF XInv
<1> QED
  BY <1>14, <1>15, <1>16


-----------------------------------------------------------------------------
(* The actions.                                                            *)

(* What every step does: the invariant, and nothing the program holds or   *)
(* the graph needs is lost or changed.                                     *)
Preserved == XInv' /\ Keeps(heap') /\ kept \subseteq kept'

(* It holds of the start.                                                  *)
LEMMA InitIsRight == Init => XInv
<1> SUFFICES ASSUME Init PROVE XInv
  OBVIOUS
<1>1. /\ graph \in Graphs /\ run = 0 /\ failures = 0 /\ pos = End /\ kept = {}
      /\ phase \in {"compile", "idle"}
      /\ env = [i \in Id |-> NoBuffer]
      /\ heap = [b \in {Constant(i) : i \in Const} |-> {<<b[1], 0>>}]
      /\ jit = [k \in Node \cup {Whole} |-> Fresh]
  BY DEF Init
<1>2. Fresh \in Jit /\ Fresh.count = 0 /\ Fresh.mode = "jit"
  BY DEF Fresh, Jit, Held
<1>3. \A k \in Node \cup {Whole} : jit[k] \in Jit /\ jit[k].count = 0 /\ jit[k].mode = "jit"
  BY <1>1, <1>2
<1>4. Types
  BY <1>1, <1>2 DEF Types, Held
<1>5. ConstantsStay
  <2>1. \A i \in Const : Constant(i)[1] = i
    BY DEF Constant
  <2> QED
    BY <1>1, <2>1 DEF ConstantsStay
<1>6. KeptApart /\ EnvBehind
  BY <1>1 DEF KeptApart, EnvBehind, Behind
<1>7. SourcesRight /\ ComputedRight /\ ResultsAreRight /\ RejectedForViews
  BY <1>1 DEF SourcesRight, ComputedRight, ResultsAreRight, RejectedForViews
<1>8. CapturesReturn /\ FallsBackOnFailure
  BY <1>3 DEF CapturesReturn, FallsBackOnFailure
<1> QED
  BY <1>4, <1>5, <1>6, <1>7, <1>8 DEF XInv

(* A stutter keeps it.                                                     *)
LEMMA StutterIsRight ==
  ASSUME XInv, UNCHANGED vars
  PROVE  Preserved
<1>1. Keeps(heap')
  BY HeapKeeps DEF XInv, vars
<1>2. KeptApart' /\ ConstantsStay' /\ EnvBehind' /\ Types'
  BY PlanStays
  DEF XInv, vars, KeptApart, ConstantsStay, EnvBehind, Behind, Types, End
<1>3. \A i \in Id : Right(i) => Right(i)'
  BY ExpectedStays DEF vars, Right
<1>4. SourcesRight' /\ ComputedRight'
  BY <1>3 DEF XInv, vars, SourcesRight, ComputedRight, ReadFrom, Id
<1>5. CapturesReturn' /\ FallsBackOnFailure'
  BY CapturesStay DEF vars
<1>6. ResultsAreRight' /\ RejectedForViews'
  <2>1. Breaks' = Breaks
    BY DEF Breaks, Eager, RequiresEager, vars
  <2> QED
    BY <2>1, ExpectedStays DEF XInv, vars, ResultsAreRight, RightOutputs, RejectedForViews
<1> QED
  BY <1>1, <1>2, <1>4, <1>5, <1>6 DEF Preserved, XInv, vars

(* ExpectedSources in every state.                                         *)
LEMMA SourcesAlways ==
  graph \in Graphs =>
    /\ \A i \in Input : Expected[i] = given[i]
    /\ \A i \in Const : Expected[i] = {<<i, 0>>}
  BY ExpectedSources

(* A run starts with its inputs and the constants in place, apart from     *)
(* what is going to be written.                                            *)
LEMMA StartIsRight ==
  ASSUME XInv, graph' = graph, run' = run + 1, heap' = Overwrite(heap, Supplied(run')),
         NEW source, \A i \in Input : source[i] \in kept \cup {Supply(j, run') : j \in Input},
         env' = [i \in Id |-> IF i \in Input THEN source[i]
                              ELSE IF i \in Const THEN Constant(i) ELSE NoBuffer],
         given' = [i \in Input |-> heap'[source[i]]]
  PROVE  /\ env' \in [Id -> Held]
         /\ EnvBehind'
         /\ \A i \in Input \cup Const : Right(i)'
         /\ Keeps(heap')
<1> USE DEF XInv, Types
<1>1. /\ Input \subseteq Id /\ Const \subseteq Id /\ (Input \cup Const) \cap Node = {}
      /\ Input \cap Const = {} /\ run' \in Nat
  BY GraphFacts
<1>2. /\ DOMAIN Supplied(run') = {Supply(j, run') : j \in Input}
      /\ DOMAIN Supplied(run') \subseteq Spare
  BY <1>1 DEF Supplied, Supply, Spare
<1>3. Keeps(heap')
  BY <1>2, HeapKeeps, SpareKeeps
<1>4. ASSUME NEW i \in Input
      PROVE  /\ env'[i] = source[i] /\ source[i] \in DOMAIN heap'
             /\ source[i] \in Id \X Role \X Nat
             /\ source[i][2] \in {"buf", "kept"}
             /\ source[i][1] \in Node => source[i][2] = "kept"
  <2>1. env'[i] = source[i]
    BY <1>1
  <2>2. CASE source[i] \in kept
    BY <1>3, <2>1, <2>2 DEF Keeps, KeptApart, Role
  <2>3. CASE source[i] \in {Supply(j, run') : j \in Input}
    <3>1. source[i] \in DOMAIN heap'
      BY <1>2, <2>3, Written
    <3>2. PICK j \in Input : source[i] = <<j, "buf", run'>>
      BY <2>3 DEF Supply
    <3> QED
      BY <1>1, <2>1, <3>1, <3>2 DEF Role
  <2> QED
    BY <2>2, <2>3
<1>5. ASSUME NEW i \in Const
      PROVE  /\ env'[i] = Constant(i) /\ Constant(i) \in Id \X Role \X Nat
             /\ Constant(i)[1] = i /\ Constant(i)[2] = "buf"
  BY <1>1 DEF Constant, Role
<1>6. \A i \in Id : i \notin Input \cup Const => env'[i] = NoBuffer
  OBVIOUS
<1>7. env' \in [Id -> Held]
  <2>1. \A i \in Id : env'[i] \in Held
    BY <1>4, <1>5, <1>6 DEF Held
  <2> QED
    BY <2>1
<1>8. EnvBehind'
  <2>1. ASSUME NEW i \in Input PROVE Behind(env'[i], pos')
    <3>1. env'[i][2] \in {"buf", "kept"} /\ (env'[i][1] \in Node => env'[i][2] = "kept")
      BY <1>4
    <3> QED
      BY <3>1 DEF Behind
  <2>2. ASSUME NEW i \in Const PROVE Behind(env'[i], pos')
    <3>1. env'[i][2] = "buf" /\ env'[i][1] \notin Node
      BY <1>1, <1>5
    <3> QED
      BY <3>1 DEF Behind
  <2>3. \A i \in Id : Behind(env'[i], pos')
    BY <1>6, <2>1, <2>2 DEF Behind
  <2> QED
    BY <2>3 DEF EnvBehind, Behind
<1>9. /\ \A i \in Input : Expected'[i] = given'[i]
      /\ \A i \in Const : Expected'[i] = {<<i, 0>>}
  <2>1. (graph \in Graphs =>
           /\ \A i \in Input : Expected[i] = given[i]
           /\ \A i \in Const : Expected[i] = {<<i, 0>>})'
    BY SourcesAlways, PTL
  <2> QED
    BY <2>1
<1>10. ASSUME NEW i \in Input PROVE Right(i)'
  <2>1. env'[i] # NoBuffer
    BY <1>4, NoBufferAssumption
  <2>2. given'[i] = heap'[source[i]]
    OBVIOUS
  <2>3. Content(heap', env'[i]) = given'[i]
    BY <1>4, <2>2 DEF Content
  <2> QED
    BY <1>9, <2>1, <2>3 DEF Right
<1>11. ASSUME NEW i \in Const PROVE Right(i)'
  <2>1. env'[i] # NoBuffer
    BY <1>5, NoBufferAssumption
  <2>2. Content(heap', env'[i]) = {<<i, 0>>}
    BY <1>3, <1>5 DEF Content, Keeps
  <2> QED
    BY <1>9, <2>1, <2>2 DEF Right
<1> QED
  BY <1>3, <1>7, <1>8, <1>10, <1>11

(* A dummy call starts right.                                              *)
LEMMA DummiesAreRight ==
  ASSUME XInv, Dummies
  PROVE  Preserved
<1> DEFINE source == [i \in Input |-> Supply(i, run')]
<1>1. /\ phase = "compile" /\ phase' = "whole" /\ run' = run + 1 /\ graph' = graph /\ pos' = pos
      /\ jit' = jit /\ kept' = kept /\ failures' = failures
      /\ heap' = Overwrite(heap, Supplied(run'))
      /\ given' = [i \in Input |-> {<<i, run'>>}]
      /\ env' = [i \in Id |-> IF i \in Input THEN Supply(i, run')
                              ELSE IF i \in Const THEN Constant(i) ELSE NoBuffer]
  BY DEF Dummies
<1>2. \A i \in Input : source[i] \in kept \cup {Supply(j, run') : j \in Input}
  OBVIOUS
<1>3. env' = [i \in Id |-> IF i \in Input THEN source[i]
                           ELSE IF i \in Const THEN Constant(i) ELSE NoBuffer]
  BY <1>1
<1>4. \A i \in Input : heap'[Supply(i, run')] = {<<i, run'>>}
  <2>1. \A i \in Input : Supply(i, run') \in DOMAIN Supplied(run')
    BY DEF Supplied
  <2>2. \A i \in Input : Supplied(run')[Supply(i, run')] = {<<i, run'>>}
    <3>1. \A i \in Input : Supply(i, run')[1] = i
      BY DEF Supply
    <3> QED
      BY <3>1 DEF Supplied
  <2> QED
    BY <1>1, <2>1, <2>2, Written
<1>5. given' = [i \in Input |-> heap'[source[i]]]
  BY <1>1, <1>4
<1> HIDE DEF source
<1>6. /\ env' \in [Id -> Held] /\ EnvBehind' /\ Keeps(heap')
      /\ \A i \in Input \cup Const : Right(i)'
  BY <1>1, <1>2, <1>3, <1>5, StartIsRight
<1>7. KeptApart' /\ ConstantsStay'
  BY <1>1, <1>6, KeptStays DEF XInv, Types
<1>8. Types'
  BY <1>1, <1>6 DEF XInv, Types, End
<1>9. SourcesRight' /\ ComputedRight' /\ ResultsAreRight' /\ RejectedForViews'
  BY <1>1, <1>6 DEF SourcesRight, ComputedRight, ResultsAreRight, RejectedForViews
<1>10. CapturesReturn' /\ FallsBackOnFailure'
  BY <1>1, CapturesStay
<1> QED
  BY <1>1, <1>6, <1>7, <1>8, <1>9, <1>10 DEF Preserved, XInv

(* So does an execute, whatever handles it is given.                       *)
LEMMA ExecuteIsRight ==
  ASSUME XInv, Execute
  PROVE  Preserved
<1>1. /\ phase = "idle" /\ run' = run + 1 /\ graph' = graph
      /\ phase' = IF Static THEN "whole" ELSE "segments"
      /\ pos' = IF Static THEN End ELSE FirstHead
      /\ jit' = jit /\ kept' = kept /\ failures' = failures
      /\ heap' = Overwrite(heap, Supplied(run'))
  BY DEF Execute, FirstHead
<1>2. PICK source \in Sources(run') :
        /\ env' = [i \in Id |-> IF i \in Input THEN source[i]
                                ELSE IF i \in Const THEN Constant(i) ELSE NoBuffer]
        /\ given' = [i \in Input |-> heap'[source[i]]]
  BY DEF Execute
<1>3. \A i \in Input : source[i] \in kept \cup {Supply(j, run') : j \in Input}
  BY DEF Sources
<1>4. /\ env' \in [Id -> Held] /\ EnvBehind' /\ Keeps(heap')
      /\ \A i \in Input \cup Const : Right(i)'
  BY <1>1, <1>2, <1>3, StartIsRight
<1>5. KeptApart' /\ ConstantsStay'
  BY <1>1, <1>4, KeptStays DEF XInv, Types
<1>6. FirstHead \in Heads /\ \A n \in Node : FirstHead <= n
  BY FirstItem DEF XInv, Types
<1>7. Heads' = Heads /\ End' = End
  BY <1>1, PlanStays DEF End
<1>8. Types'
  BY <1>1, <1>4, <1>6, <1>7 DEF XInv, Types
<1>9. SourcesRight' /\ ResultsAreRight' /\ RejectedForViews'
  BY <1>1, <1>4 DEF SourcesRight, ResultsAreRight, RejectedForViews
<1>10. ComputedRight'
  <2> SUFFICES ASSUME phase' = "segments", NEW i \in Node, i < pos' PROVE FALSE
    BY DEF ComputedRight
  <2>1. pos' = FirstHead
    BY <1>1
  <2>2. FirstHead <= i /\ FirstHead \in Nat /\ i \in Nat
    BY <1>6, NodesInOrder DEF XInv, Types, Heads
  <2> QED
    BY <2>1, <2>2
<1>11. CapturesReturn' /\ FallsBackOnFailure'
  BY <1>1, CapturesStay
<1> QED
  BY <1>1, <1>4, <1>5, <1>8, <1>9, <1>10, <1>11 DEF Preserved, XInv

(* A step that only leaves a phase without a plan.                         *)
LEMMA PhaseStep ==
  ASSUME XInv, UNCHANGED <<graph, run, pos, env, heap, jit, kept, failures>>,
         phase \notin {"segments", "idle"} \/ phase' = "idle",
         phase # "segments", phase' \notin {"whole", "segments", "reply"},
         phase' = "compile_error" => Breaks,
         phase' = "rejected" => \E i, j \in Input : env[i] = env[j] /\ object'[i] # object'[j]
  PROVE  Preserved
<1>1. Keeps(heap')
  BY HeapKeeps DEF XInv
<1>2. KeptApart' /\ ConstantsStay'
  BY <1>1, KeptStays DEF XInv, Types
<1>3. Types' /\ EnvBehind'
  BY DEF XInv, Types, EnvBehind, Behind, End
<1>4. SourcesRight' /\ ComputedRight' /\ ResultsAreRight' /\ RejectedForViews'
  <2>1. Breaks' = Breaks
    BY DEF Breaks, Eager, RequiresEager
  <2> QED
    BY <2>1 DEF SourcesRight, ComputedRight, ResultsAreRight, RejectedForViews
<1>5. CapturesReturn' /\ FallsBackOnFailure'
  BY CapturesStay
<1> QED
  BY <1>1, <1>2, <1>3, <1>4, <1>5 DEF Preserved, XInv

(* A capture that has to read a scalar ends the compile.                   *)
LEMMA CaptureBreaksIsRight ==
  ASSUME XInv, CaptureBreaks
  PROVE  Preserved
<1>1. /\ phase = "whole" /\ phase' = "compile_error" /\ Breaks
      /\ UNCHANGED <<graph, run, pos, env, heap, jit, kept, failures>>
  BY DEF CaptureBreaks
<1> QED
  BY <1>1, PhaseStep

(* A compile does not fail its own validation.                             *)
LEMMA CapturedIsRight ==
  ASSUME XInv, Captured
  PROVE  Preserved
<1>1. phase = "reply" /\ RightOutputs
  BY DEF XInv, ResultsAreRight, Captured
<1>2. phase' \in {"idle", "compile"} /\ UNCHANGED <<graph, run, pos, env, heap, jit, kept, failures>>
  BY <1>1 DEF Captured
<1> QED
  BY <1>1, <1>2, PhaseStep

(* A buffer in use is not one an argument is cloned into.                  *)
LEMMA NotAClone ==
  ASSUME XInv, NEW i \in Id, NEW j \in Id
  PROVE  env[i] # <<j, "arg", run>>
<1> SUFFICES ASSUME env[i] = <<j, "arg", run>> PROVE FALSE
  OBVIOUS
<1>1. env[i] \in Id \X Role \X Nat /\ env[i][2] = "arg"
  BY DEF XInv, Types, Role
<1>2. env[i] # NoBuffer
  BY <1>1, NoBufferAssumption
<1> QED
  BY <1>1, <1>2 DEF XInv, EnvBehind, Behind

(* Only different views of one buffer are refused.                         *)
LEMMA RejectIsRight ==
  ASSUME XInv, Reject
  PROVE  Preserved
<1>1. /\ phase = "whole" /\ phase' = "rejected" /\ Duplicates(Dedup)
      /\ UNCHANGED <<graph, run, pos, object, env, heap, jit, kept, failures>>
  BY DEF Reject
<1>2. DOMAIN Dedup = Input /\ \A i \in Input :
        Dedup[i] = IF Repeated(i) THEN <<i, "arg", run>> ELSE env[i]
  BY DEF Dedup
<1>3. PICK i \in Input, j \in Input : i # j /\ Dedup[i] = Dedup[j]
  BY <1>1, <1>2 DEF Duplicates
<1>4. i \in Id /\ j \in Id /\ i \in Nat /\ j \in Nat
  BY GraphFacts DEF XInv, Types
<1>5. env[i] # <<j, "arg", run>> /\ env[j] # <<i, "arg", run>>
  BY <1>4, NotAClone
<1>6. <<i, "arg", run>> # <<j, "arg", run>>
  BY <1>3
<1>7. ~Repeated(i) /\ ~Repeated(j)
  BY <1>2, <1>3, <1>5, <1>6
<1>8. env[i] = env[j]
  BY <1>2, <1>3, <1>7
<1>9. i < j \/ j < i
  BY <1>3, <1>4
<1>10. object[i] # object[j]
  BY <1>7, <1>9 DEF Repeated
<1> QED
  BY <1>1, <1>8, <1>10, PhaseStep

(* An error is answered, and the worker is idle again.                     *)
LEMMA RejectedIsRight ==
  ASSUME XInv, Rejected
  PROVE  Preserved
  BY PhaseStep DEF Rejected

(* The whole graph is called with what its sources hold.                   *)
LEMMA WholeContents ==
  ASSUME XInv, phase = "whole", NEW h, h = Overwrite(heap, Clones(Dedup))
  PROVE  /\ Keeps(h)
         /\ \A i \in Id : Values(Node, InTrace(Dedup), h)[i] = Expected[i]
<1>1. /\ graph \in Graphs /\ run \in Nat /\ Input \subseteq Id /\ Const \subseteq Id
      /\ Id = Input \cup Const \cup Node /\ (Input \cup Const) \cap Node = {}
      /\ Input \cap Const = {} /\ \A n \in Node : graph.ins[n] \subseteq Id
  BY GraphFacts DEF XInv, Types
<1>2. /\ DOMAIN Dedup = Input
      /\ \A i \in Input : Dedup[i] = env[i] \/ Dedup[i] = <<i, "arg", run>>
  BY DEF Dedup
<1>3. Keeps(h)
  BY <1>1, HeapKeeps, ClonesSpare, SpareKeeps DEF XInv
<1>4. ASSUME NEW i \in Input PROVE Content(h, InTrace(Dedup)[i]) = Expected[i]
  <2>1. InTrace(Dedup)[i] = Dedup[i]
    BY <1>1, <1>2 DEF InTrace
  <2>2. Content(h, Dedup[i]) = Content(heap, env[i])
    BY <1>1, <1>2, ArgumentContents, NoBufferAssumption DEF XInv
  <2> QED
    BY <2>1, <2>2 DEF XInv, SourcesRight, Right
<1>5. ASSUME NEW i \in Const PROVE Content(h, InTrace(Dedup)[i]) = Expected[i]
  <2>1. InTrace(Dedup)[i] = Constant(i)
    BY <1>1, <1>2 DEF InTrace
  <2>2. Content(h, Constant(i)) = {<<i, 0>>}
    BY <1>3 DEF Keeps, Content
  <2> QED
    BY <1>1, <2>1, <2>2, ExpectedSources
<1>6. \A n \in Node : Values(Node, InTrace(Dedup), h)[n] = Expected[n]
  <2>1. \A n \in Node : \A j \in graph.ins[n] \ Node :
          Content(h, InTrace(Dedup)[j]) = Expected[j]
    BY <1>1, <1>4, <1>5
  <2>2. Node \in SUBSET Node
    OBVIOUS
  <2> QED
    BY <1>1, <2>1, <2>2, ValuesAreRight
<1>7. \A i \in Input \cup Const : Values(Node, InTrace(Dedup), h)[i] = Expected[i]
  <2>1. Node \in SUBSET Node
    OBVIOUS
  <2>2. ASSUME NEW i \in Input \cup Const
        PROVE  Values(Node, InTrace(Dedup), h)[i] = Content(h, InTrace(Dedup)[i])
    <3>1. i \in Id /\ i \notin Node
      BY <1>1
    <3> QED
      BY <1>1, <2>1, <3>1, ValuesRoot
  <2> QED
    BY <1>4, <1>5, <2>2
<1> QED
  BY <1>1, <1>3, <1>6, <1>7

(* A replay of the whole graph returns what interpretation does.           *)
LEMMA RunWholeIsRight ==
  ASSUME XInv, RunWhole
  PROVE  Preserved
<1> DEFINE h == Overwrite(heap, Clones(Dedup))
           call == Call(Whole, Node, Dedup, graph.outs, h)
           r == Writer(Whole)
           v == Values(Node, InTrace(Dedup), h)
           D == Operations(Node, r) \cup
                  ({call.ret[i] : i \in graph.outs} \cap (Id \X {"copy", "out"} \X {r}))
<1>1. /\ phase = "whole" /\ phase' = "reply" /\ heap' = Overwrite(h, call.writes)
      /\ outs' = call.ret /\ jit' = Called(Whole, call.ret)
      /\ UNCHANGED <<graph, run, pos, given, object, env, kept, failures>>
  BY DEF RunWhole
<1>2. /\ graph \in Graphs /\ run \in Nat /\ graph.outs \subseteq Id /\ jit[Whole] \in Jit
      /\ r \in Nat /\ Whole \notin Node
  BY GraphFacts DEF XInv, Types, Writer, Jit, Whole
<1>3. /\ Keeps(h) /\ \A i \in Id : v[i] = Expected[i]
  BY <1>1, WholeContents
<1>4. /\ call.ret = IF jit[Whole].count = 2 THEN jit[Whole].ret
                    ELSE Return(Whole, Node, Where(Node, InTrace(Dedup), run), graph.outs)
      /\ call.writes = [b \in D |-> v[b[1]]]
      /\ DOMAIN call.writes \subseteq Spare
  <2>1. Node \in SUBSET Node /\ Whole \in Node \cup {Whole}
    OBVIOUS
  <2> HIDE DEF h
  <2>2. call.ret = IF jit[Whole].count = 2 THEN jit[Whole].ret
                   ELSE Return(Whole, Node, Where(Node, InTrace(Dedup), run), graph.outs)
    BY CallReturnIs
  <2>3. call.writes = [b \in D |-> v[b[1]]]
    BY CallWritesAre
  <2>4. DOMAIN call.writes \subseteq Spare
    BY <2>1, CallWritesSpare DEF XInv
  <2> QED
    BY <2>2, <2>3, <2>4
<1> HIDE DEF v, call
<1>5. /\ \A i \in graph.outs : call.ret[i] = <<i, "out", r>>
      /\ call.ret \in [Id -> Held]
  <2>1. CASE jit[Whole].count = 2
    BY <1>2, <1>4, <2>1 DEF XInv, CapturesReturn, Writer, Jit
  <2>2. CASE jit[Whole].count # 2
    <3>1. call.ret = [i \in Id |-> IF i \notin graph.outs THEN NoBuffer ELSE <<i, "out", run>>]
      BY <1>4, <2>2 DEF Return, GraphReturn
    <3>2. r = run
      BY <2>2 DEF Writer
    <3>3. \A i \in Id : <<i, "out", run>> \in Held
      BY <1>2 DEF Held, Role
    <3>4. NoBuffer \in Held
      BY DEF Held
    <3> QED
      BY <1>2, <3>1, <3>2, <3>3, <3>4
  <2> QED
    BY <2>1, <2>2
<1> HIDE DEF r
<1>6. \A i \in graph.outs : call.ret[i] \in D
  <2>1. ASSUME NEW i \in graph.outs
        PROVE  call.ret[i] \in Id \X {"copy", "out"} \X {r}
    <3>1. i \in Id /\ call.ret[i] = <<i, "out", r>>
      BY <1>2, <1>5
    <3> QED
      BY <3>1
  <2> QED
    BY <2>1
<1> HIDE DEF D, h
<1>7. \A i \in graph.outs : call.ret[i] \in DOMAIN call.writes /\ call.writes[call.ret[i]] = v[i]
  BY <1>4, <1>5, <1>6
<1>8. ResultsAreRight'
  <2>1. ASSUME NEW i \in graph.outs PROVE Content(heap', outs'[i]) = Expected'[i]
    <3>1. Content(heap', outs'[i]) = v[i]
      BY <1>1, <1>7, Written
    <3> QED
      BY <1>1, <1>2, <1>3, <3>1, ExpectedStays
  <2> QED
    BY <1>1, <2>1 DEF ResultsAreRight, RightOutputs
<1>9. Keeps(heap')
  BY <1>1, <1>3, <1>4, SpareKeeps DEF XInv
<1>10. /\ jit' \in [Node \cup {Whole} -> Jit]
       /\ \A j \in Node : jit'[j] = jit[j]
       /\ jit'[Whole].count = 2 =>
            \/ jit[Whole].count = 2 /\ jit'[Whole].ret = jit[Whole].ret
                                    /\ jit'[Whole].at = jit[Whole].at
            \/ jit[Whole].count = 1 /\ jit'[Whole].ret = call.ret /\ jit'[Whole].at = run
  <2>1. Whole \in Node \cup {Whole} /\ \A j \in Node : j # Whole
    BY <1>2
  <2> QED
    BY <1>1, <1>5, <2>1, CalledIs DEF XInv
<1>11. CapturesReturn'
  <2>1. (\A k \in Node : jit[k].count = 2 => SegmentReturns(k, jit[k].ret, jit[k].at))'
    <3>1. \A k \in Node : jit[k].count = 2 => SegmentReturns(k, jit[k].ret, jit[k].at)
      BY DEF XInv, CapturesReturn
    <3> QED
      BY <1>1, <1>10, <3>1, PlanStays DEF SegmentReturns
  <2>2. jit'[Whole].count = 2 =>
          \A i \in graph.outs : jit'[Whole].ret[i] = <<i, "out", jit'[Whole].at>>
    <3>1. jit[Whole].count = 1 => r = run
      BY DEF r, Writer
    <3> QED
      BY <1>5, <1>10, <3>1 DEF XInv, CapturesReturn
  <2> QED
    BY <1>1, <2>1, <2>2 DEF CapturesReturn
<1>12. FallsBackOnFailure'
  BY <1>1, <1>10 DEF XInv, FallsBackOnFailure
<1>13. KeptApart' /\ ConstantsStay'
  BY <1>1, <1>2, <1>9, KeptStays
<1>14. Types' /\ EnvBehind'
  BY <1>1, <1>10 DEF XInv, Types, EnvBehind, Behind, End
<1>15. SourcesRight' /\ ComputedRight' /\ RejectedForViews'
  BY <1>1 DEF SourcesRight, ComputedRight, RejectedForViews
<1> QED
  BY <1>1, <1>8, <1>9, <1>11, <1>12, <1>13, <1>14, <1>15 DEF Preserved, XInv

(* The end of the plan: every output is in place, and is copied.           *)
LEMMA CollectIsRight ==
  ASSUME XInv, Collect
  PROVE  Preserved
<1> DEFINE K == {outs'[i] : i \in graph.outs}
           g == [b \in K |-> Content(heap, env[b[1]])]
<1>1. /\ phase = "segments" /\ pos = End /\ phase' = "reply"
      /\ outs' = [i \in Id |-> IF i \in graph.outs THEN <<i, "out", run>> ELSE NoBuffer]
      /\ heap' = Overwrite(heap, g)
      /\ UNCHANGED <<graph, run, pos, given, env, jit, kept, failures>>
  BY DEF Collect
<1>2. /\ graph \in Graphs /\ run \in Nat /\ graph.outs \subseteq Id
      /\ Id = Input \cup Const \cup Node /\ \A n \in Node : n < End
  BY GraphFacts, NodesInOrder DEF XInv, Types
<1>3. \A i \in graph.outs : outs'[i] = <<i, "out", run>>
  BY <1>1, <1>2
<1>4. K \subseteq Spare
  BY <1>2, <1>3 DEF Spare
<1>5. \A i \in graph.outs : outs'[i] \in K /\ outs'[i][1] = i
  BY <1>3
<1> HIDE DEF K
<1>6. DOMAIN g = K /\ \A i \in graph.outs : g[outs'[i]] = Content(heap, env[i])
  BY <1>5
<1> HIDE DEF g
<1>7. \A i \in graph.outs : Content(heap, env[i]) = Expected[i]
  <2>1. \A i \in graph.outs : i \in Input \cup Const => Right(i)
    BY <1>1 DEF XInv, SourcesRight
  <2>2. \A i \in graph.outs : i \in Node => Right(i)
    BY <1>1, <1>2 DEF XInv, ComputedRight, ReadFrom
  <2> QED
    BY <1>2, <2>1, <2>2 DEF Right
<1>8. ResultsAreRight'
  <2>1. ASSUME NEW i \in graph.outs PROVE Content(heap', outs'[i]) = Expected'[i]
    <3>1. Content(heap', outs'[i]) = Content(heap, env[i])
      BY <1>1, <1>5, <1>6, Written
    <3> QED
      BY <1>1, <1>7, <3>1, ExpectedStays
  <2> QED
    BY <1>1, <2>1 DEF ResultsAreRight, RightOutputs
<1>9. Keeps(heap')
  BY <1>1, <1>4, <1>6, HeapKeeps, SpareKeeps DEF XInv
<1>10. KeptApart' /\ ConstantsStay'
  BY <1>1, <1>2, <1>9, KeptStays
<1>11. Types' /\ EnvBehind'
  BY <1>1 DEF XInv, Types, EnvBehind, Behind, End
<1>12. SourcesRight' /\ ComputedRight' /\ RejectedForViews'
  BY <1>1 DEF SourcesRight, ComputedRight, RejectedForViews
<1>13. CapturesReturn' /\ FallsBackOnFailure'
  BY <1>1, CapturesStay
<1> QED
  BY <1>1, <1>8, <1>9, <1>10, <1>11, <1>12, <1>13 DEF Preserved, XInv

(* What is returned for later was copied into buffers of its own.          *)
LEMMA ReplyIsRight ==
  ASSUME XInv, NEW copies, Reply(copies),
         \A i \in DOMAIN copies : i \in Id /\ copies[i] = <<i, "kept", run>>
  PROVE  Preserved
<1> DEFINE K == {copies[i] : i \in DOMAIN copies}
           g == [b \in K |-> Content(heap, outs[b[1]])]
<1>1. /\ phase = "reply" /\ phase' = "idle" /\ kept' = kept \cup K
      /\ heap' = Free(Overwrite(heap, g), kept')
      /\ env' = [i \in Id |-> NoBuffer]
      /\ UNCHANGED <<graph, run, pos, jit, failures>>
  BY DEF Reply
<1>2. run \in Nat
  BY DEF XInv, Types
<1>3. K \subseteq Id \X {"kept"} \X {run}
  OBVIOUS
<1> HIDE DEF K
<1>4. DOMAIN g = K
  OBVIOUS
<1> HIDE DEF g
<1>5. ASSUME NEW b \in DOMAIN Overwrite(heap, g), b \in Reachable(kept')
      PROVE  b \in DOMAIN heap' /\ heap'[b] = Overwrite(heap, g)[b]
  BY <1>1, <1>5 DEF Free
<1>6. ASSUME NEW b \in kept PROVE b \in DOMAIN heap' /\ heap'[b] = heap[b]
  <2>1. b \in DOMAIN heap /\ b[3] < run /\ b[3] \in Nat
    BY <1>1 DEF XInv, KeptApart
  <2>2. b \notin DOMAIN g
    BY <1>2, <1>3, <1>4, <2>1
  <2>3. b \in Reachable(kept')
    BY <1>1 DEF Reachable
  <2> QED
    BY <1>5, <2>1, <2>2, <2>3, NotWritten
<1>7. ASSUME NEW b \in K PROVE b \in DOMAIN heap'
  <2>1. b \in Reachable(kept')
    BY <1>1 DEF Reachable
  <2> QED
    BY <1>4, <1>5, <2>1, Written
<1>8. ASSUME NEW i \in Const
      PROVE  Constant(i) \in DOMAIN heap' /\ heap'[Constant(i)] = {<<i, 0>>}
  <2>1. Constant(i) \notin DOMAIN g
    BY <1>3, <1>4 DEF Constant
  <2>2. Constant(i) \in Reachable(kept')
    BY DEF Reachable
  <2>3. Constant(i) \in DOMAIN heap /\ heap[Constant(i)] = {<<i, 0>>}
    BY DEF XInv, ConstantsStay
  <2> QED
    BY <1>5, <2>1, <2>2, <2>3, NotWritten
<1>9. Keeps(heap') /\ ConstantsStay'
  BY <1>6, <1>8 DEF Keeps, ConstantsStay, Constant
<1>10. KeptApart'
  <2>1. ASSUME NEW b \in kept
        PROVE  b \in DOMAIN heap' /\ b \in Id \X {"kept"} \X Nat /\ b[3] <= run
    BY <1>6 DEF XInv, KeptApart
  <2>2. ASSUME NEW b \in K
        PROVE  b \in DOMAIN heap' /\ b \in Id \X {"kept"} \X Nat /\ b[3] <= run
    BY <1>2, <1>3, <1>7
  <2> QED
    BY <1>1, <2>1, <2>2 DEF KeptApart
<1>11. Types' /\ EnvBehind'
  BY <1>1 DEF XInv, Types, EnvBehind, Behind, End, Held
<1>12. SourcesRight' /\ ComputedRight' /\ ResultsAreRight' /\ RejectedForViews'
  BY <1>1 DEF SourcesRight, ComputedRight, ResultsAreRight, RejectedForViews
<1>13. CapturesReturn' /\ FallsBackOnFailure'
  BY <1>1, CapturesStay
<1> QED
  BY <1>1, <1>9, <1>10, <1>11, <1>12, <1>13 DEF Preserved, XInv

(* The plan is at an item.                                                 *)
LEMMA ItemIsHead ==
  ASSUME XInv, AtItem
  PROVE  AtNode
  BY DEF XInv, Types, AtItem, AtNode

(* An item that is interpreted leaves what is read later right.            *)
LEMMA InterpretPreserves ==
  ASSUME XInv, AtItem, Interpret(Item(pos), heap), pos' = NextItem(pos),
         UNCHANGED <<graph, run, phase, given, jit, kept, failures>>
  PROVE  Preserved
<1>1. AtNode
  BY ItemIsHead
<1>2. Keeps(heap)
  BY HeapKeeps DEF XInv
<1>3. /\ EnvBehind' /\ SourcesRight' /\ ComputedRight'
      /\ pos' = End \/ (phase' = "segments" /\ pos' \in Heads)
      /\ env' \in [Id -> Held]
      /\ Keeps(heap')
  BY <1>1, <1>2, InterpretRight
<1>4. CapturesReturn' /\ FallsBackOnFailure'
  BY CapturesStay
<1>5. failures' \in Nat /\ jit' \in [Node \cup {Whole} -> Jit]
  BY DEF XInv, Types
<1> QED
  BY <1>1, <1>3, <1>4, <1>5, PlanStep DEF Preserved

(* A node evaluated eagerly.                                               *)
LEMMA EagerItemIsRight ==
  ASSUME XInv, EagerItem
  PROVE  Preserved
  BY InterpretPreserves DEF EagerItem

(* A segment that was given up.                                            *)
LEMMA InterpretedSegmentIsRight ==
  ASSUME XInv, InterpretedSegment
  PROVE  Preserved
  BY InterpretPreserves DEF InterpretedSegment, AtSegment

(* A segment nothing reads from.                                           *)
LEMMA DeadSegmentIsRight ==
  ASSUME XInv, DeadSegment
  PROVE  Preserved
<1>1. /\ AtNode /\ OutputIds(pos) = {} /\ pos' = NextItem(pos)
      /\ UNCHANGED <<graph, run, phase, given, env, heap, jit, kept, failures>>
  BY ItemIsHead DEF DeadSegment
<1>2. /\ graph \in Graphs /\ pos \in Heads /\ Node \subseteq Nat /\ pos \in Nat /\ pos' \in Nat
      /\ pos <= pos' /\ Item(pos) \subseteq Id
  BY <1>1, ItemFacts, NodesInOrder, GraphFacts DEF AtNode, XInv, Types
<1>3. ASSUME NEW i \in Item(pos) PROVE Behind(env'[i], pos')
  <2>1. Behind(env[i], pos)
    BY <1>2 DEF XInv, EnvBehind
  <2>2. Behind(env[i], pos')
    BY <1>2, <2>1, BehindLater
  <2> QED
    BY <1>1, <2>2
<1>4. /\ EnvBehind' /\ SourcesRight' /\ ComputedRight'
      /\ pos' = End \/ (phase' = "segments" /\ pos' \in Heads)
  BY <1>1, <1>3, NextItemRight
<1>5. Keeps(heap')
  BY <1>1, HeapKeeps DEF XInv
<1>6. CapturesReturn' /\ FallsBackOnFailure'
  BY <1>1, CapturesStay
<1>7. failures' \in Nat /\ jit' \in [Node \cup {Whole} -> Jit] /\ env' \in [Id -> Held]
  BY <1>1 DEF XInv, Types
<1> QED
  BY <1>1, <1>4, <1>5, <1>6, <1>7, PlanStep DEF Preserved

(* The arguments of a segment are never two of one buffer.                 *)
LEMMA ArgsDiffer ==
  ASSUME XInv, AtNode
  PROVE  ~Duplicates(SegmentArgs)
<1> SUFFICES ASSUME Duplicates(SegmentArgs) PROVE FALSE
  OBVIOUS
<1> DEFINE Again(i) == \E j \in InputIds(pos) : j < i /\ env[j] = env[i]
<1>1. DOMAIN SegmentArgs = InputIds(pos) /\ \A i \in InputIds(pos) :
        SegmentArgs[i] = IF Again(i) THEN <<i, "arg", run>> ELSE env[i]
  BY DEF SegmentArgs
<1>2. PICK i \in InputIds(pos), j \in InputIds(pos) : i # j /\ SegmentArgs[i] = SegmentArgs[j]
  BY <1>1 DEF Duplicates
<1>3. i \in Id /\ j \in Id /\ i \in Nat /\ j \in Nat
  BY InputsAreIds, GraphFacts DEF XInv, Types
<1>4. env[i] # <<j, "arg", run>> /\ env[j] # <<i, "arg", run>>
  BY <1>3, NotAClone
<1>5. <<i, "arg", run>> # <<j, "arg", run>>
  BY <1>2
<1>6. ~Again(i) /\ ~Again(j)
  <2> HIDE DEF Again
  <2> QED
    BY <1>1, <1>2, <1>4, <1>5
<1>7. env[i] = env[j]
  <2> HIDE DEF Again
  <2> QED
    BY <1>1, <1>2, <1>6
<1>8. i < j \/ j < i
  BY <1>2, <1>3
<1> QED
  BY <1>6, <1>7, <1>8

(* A segment whose call raised midway is interpreted: what the kernels     *)
(* that ran have written nobody reads.                                     *)
LEMMA FailedSegmentIsRight ==
  ASSUME XInv, FailedSegment
  PROVE  Preserved
<1> DEFINE gone == [Fresh EXCEPT !.mode = "interpret"]
<1>1. /\ AtItem /\ AtNode /\ pos' = NextItem(pos) /\ failures' = failures + 1
      /\ jit' = [jit EXCEPT ![pos] = gone]
      /\ UNCHANGED <<graph, run, phase, given, kept>>
  BY ItemIsHead, ArgsDiffer DEF FailedSegment, AtSegment
<1>2. PICK W \in SUBSET DOMAIN SegmentCall.writes :
        Interpret(Item(pos), Overwrite(heap, [b \in W |-> SegmentCall.writes[b]]))
  BY DEF FailedSegment
<1> DEFINE g == [b \in W |-> SegmentCall.writes[b]]
           h == Overwrite(heap, g)
<1>3. /\ pos \in Node /\ Item(pos) \in SUBSET Node /\ failures \in Nat /\ run \in Nat
      /\ jit \in [Node \cup {Whole} -> Jit] /\ pos # Whole
  BY <1>1, ItemFacts, GraphFacts DEF AtNode, XInv, Types, Whole
<1>4. DOMAIN g = W
  OBVIOUS
<1> HIDE DEF g
<1>5. \A i \in Id : Content(h, env[i]) = Content(heap, env[i])
  <2>1. ASSUME NEW i \in Id PROVE env[i] \notin DOMAIN g
    BY <1>1, <1>4, SegmentWrites, BehindItem
  <2> QED
    BY <2>1, NotWritten
<1>6. Keeps(h)
  <2>1. DOMAIN SegmentCall.writes \subseteq Spare
    BY <1>3, CallWritesSpare DEF SegmentCall, XInv
  <2> QED
    BY <1>4, <2>1, HeapKeeps, SpareKeeps DEF XInv
<1>7. Interpret(Item(pos), h)
  BY <1>2 DEF g
<1> HIDE DEF h
<1>8. /\ EnvBehind' /\ SourcesRight' /\ ComputedRight'
      /\ pos' = End \/ (phase' = "segments" /\ pos' \in Heads)
      /\ env' \in [Id -> Held]
      /\ Keeps(heap')
  BY <1>1, <1>5, <1>6, <1>7, InterpretRight
<1>9. gone \in Jit /\ gone.count = 0
  BY DEF Fresh, Jit, Held
<1> HIDE DEF gone
<1>10. /\ jit' \in [Node \cup {Whole} -> Jit]
       /\ \A k \in Node \cup {Whole} : jit'[k] = IF k = pos THEN gone ELSE jit[k]
  BY <1>1, <1>3, <1>9
<1>11. CapturesReturn'
  <2>1. (\A k \in Node : jit[k].count = 2 => SegmentReturns(k, jit[k].ret, jit[k].at))'
    <3>1. \A k \in Node : jit[k].count = 2 => SegmentReturns(k, jit[k].ret, jit[k].at)
      BY DEF XInv, CapturesReturn
    <3> QED
      BY <1>1, <1>9, <1>10, <3>1, PlanStays DEF SegmentReturns
  <2>2. jit'[Whole] = jit[Whole]
    BY <1>3, <1>10
  <2> QED
    BY <1>1, <2>1, <2>2 DEF XInv, CapturesReturn
<1>12. FallsBackOnFailure' /\ failures' \in Nat
  BY <1>1, <1>3 DEF FallsBackOnFailure
<1> QED
  BY <1>1, <1>8, <1>10, <1>11, <1>12, PlanStep DEF Preserved

(* A captured or replayed segment puts its outputs in place.               *)
LEMMA JitSegmentIsRight ==
  ASSUME XInv, JitSegment
  PROVE  Preserved
<1> DEFINE ret == SegmentCall.ret
           r == Writer(pos)
<1>1. /\ AtItem /\ AtNode /\ pos' = NextItem(pos)
      /\ env' = [i \in Id |-> IF i \in OutputIds(pos) THEN ret[i] ELSE env[i]]
      /\ heap' = Overwrite(Contents, SegmentCall.writes)
      /\ jit' = Called(pos, ret)
      /\ UNCHANGED <<graph, run, phase, given, kept, failures>>
  BY ItemIsHead DEF JitSegment, AtSegment
<1>2. /\ pos \in Node /\ pos \in Nat /\ pos' \in Nat /\ pos <= pos' /\ Item(pos) \in SUBSET Node
      /\ Item(pos) \subseteq Id /\ Node \subseteq Nat
      /\ \A n \in Item(pos) : n < pos'
      /\ failures \in Nat /\ run \in Nat /\ pos # Whole
      /\ jit \in [Node \cup {Whole} -> Jit]
  BY <1>1, ItemFacts, GraphFacts, NodesInOrder DEF AtNode, XInv, Types, Whole
<1>3. OutputIds(pos) \subseteq Item(pos)
  BY DEF OutputIds
<1>4. /\ \A i \in OutputIds(pos) :
           ret[i] = IF Root(Item(pos))[i] \in Item(pos) THEN <<Root(Item(pos))[i], "buf", r>>
                                                        ELSE <<i, "copy", r>>
      /\ ret \in [Id -> Held]
  BY <1>1, SegmentReturnsAre DEF SegmentReturns
<1>5. \A i \in OutputIds(pos) :
        /\ ret[i] \in DOMAIN SegmentCall.writes /\ SegmentCall.writes[ret[i]] = Expected[i]
        /\ ret[i] # NoBuffer
  BY <1>1, SegmentWrites
<1>6. /\ Keeps(Contents) /\ DOMAIN SegmentCall.writes \subseteq Spare
  <2>1. Keeps(Contents)
    BY <1>2, HeapKeeps, ClonesSpare, SpareKeeps DEF Contents, XInv
  <2>2. DOMAIN SegmentCall.writes \subseteq Spare
    BY <1>2, CallWritesSpare DEF SegmentCall, XInv
  <2> QED
    BY <2>1, <2>2
<1>7. Keeps(heap')
  BY <1>1, <1>6, SpareKeeps DEF XInv
<1>8. \A i \in Id : Content(heap', env[i]) = Content(heap, env[i])
  <2>1. ASSUME NEW i \in Id PROVE env[i] \notin DOMAIN SegmentCall.writes
    BY <1>1, SegmentWrites, BehindItem
  <2>2. ASSUME NEW i \in Id PROVE env[i] \notin DOMAIN Clones(SegmentArgs)
    <3> SUFFICES ASSUME env[i] \in Id \X {"arg"} \X {run} PROVE FALSE
      BY ClonesFacts
    <3>1. PICK j \in Id : env[i] = <<j, "arg", run>>
      OBVIOUS
    <3> QED
      BY <3>1, NotAClone
  <2>3. \A i \in Id : Content(Contents, env[i]) = Content(heap, env[i])
    BY <2>2, NotWritten DEF Contents
  <2> QED
    BY <1>1, <2>1, <2>3, NotWritten
<1> HIDE DEF ret, r
<1>9. \A i \in Id : env'[i] = IF i \in OutputIds(pos) THEN ret[i] ELSE env[i]
  BY <1>1
<1>10. ASSUME NEW i \in Item(pos) PROVE Behind(env'[i], pos')
  <2>1. CASE i \in OutputIds(pos)
    <3>1. env'[i] = ret[i]
      BY <1>2, <1>9, <2>1
    <3>2. PICK n \in Item(pos) : env'[i] = <<n, "buf", r>> \/ env'[i] = <<n, "copy", r>>
      BY <1>4, <2>1, <3>1
    <3>3. env'[i][1] = n /\ env'[i][2] \in {"buf", "copy"} /\ n < pos'
      BY <1>2, <3>2
    <3> QED
      BY <3>3 DEF Behind
  <2>2. CASE i \notin OutputIds(pos)
    <3>1. Behind(env[i], pos) /\ env'[i] = env[i]
      BY <1>2, <1>9, <2>2 DEF XInv, EnvBehind
    <3>2. Behind(env[i], pos')
      BY <1>2, <3>1, BehindLater
    <3> QED
      BY <3>1, <3>2
  <2> QED
    BY <2>1, <2>2
<1>11. \A i \in OutputIds(pos) : env'[i] # NoBuffer /\ Content(heap', env'[i]) = Expected[i]
  <2>1. ASSUME NEW i \in OutputIds(pos) PROVE env'[i] = ret[i]
    BY <1>2, <1>3, <1>9
  <2> QED
    BY <1>1, <1>5, <2>1, Written
<1>12. \A i \in Id \ Item(pos) : env'[i] = env[i]
  BY <1>3, <1>9
<1>13. /\ EnvBehind' /\ SourcesRight' /\ ComputedRight'
       /\ pos' = End \/ (phase' = "segments" /\ pos' \in Heads)
  BY <1>1, <1>8, <1>10, <1>11, <1>12, NextItemRight
<1>14. env' \in [Id -> Held]
  <2>1. \A i \in Id : env[i] \in Held
    BY DEF XInv, Types
  <2>2. \A i \in Id : env'[i] \in Held
    BY <1>4, <1>9, <2>1
  <2> QED
    BY <1>1, <2>2
<1>15. /\ jit' \in [Node \cup {Whole} -> Jit]
       /\ \A k \in Node \cup {Whole} : k # pos => jit'[k] = jit[k]
       /\ jit'[pos].mode = jit[pos].mode
       /\ jit'[pos].count = 2 =>
            \/ jit[pos].count = 2 /\ jit'[pos].ret = jit[pos].ret /\ jit'[pos].at = jit[pos].at
            \/ jit[pos].count = 1 /\ jit'[pos].ret = ret /\ jit'[pos].at = run
  BY <1>1, <1>2, <1>4, CalledIs DEF XInv
<1>16. CapturesReturn'
  <2>1. (\A k \in Node : jit[k].count = 2 => SegmentReturns(k, jit[k].ret, jit[k].at))'
    <3>1. \A k \in Node : jit[k].count = 2 => SegmentReturns(k, jit[k].ret, jit[k].at)
      BY DEF XInv, CapturesReturn
    <3>2. jit[pos].count = 1 => SegmentReturns(pos, ret, run)
      BY <1>1, SegmentReturnsAre DEF ret, r, Writer
    <3>3. \A k \in Node : jit'[k].count = 2 => SegmentReturns(k, jit'[k].ret, jit'[k].at)
      <4>1. ASSUME NEW k \in Node, jit'[k].count = 2
            PROVE  SegmentReturns(k, jit'[k].ret, jit'[k].at)
        <5>1. CASE k = pos
          BY <1>2, <1>15, <3>1, <3>2, <4>1, <5>1
        <5>2. CASE k # pos
          BY <1>15, <3>1, <4>1, <5>2
        <5> QED
          BY <5>1, <5>2
      <4> QED
        BY <4>1
    <3> QED
      BY <1>1, <3>3, PlanStays DEF SegmentReturns
  <2>2. jit'[Whole] = jit[Whole]
    BY <1>2, <1>15
  <2> QED
    BY <1>1, <2>1, <2>2 DEF XInv, CapturesReturn
<1>17. FallsBackOnFailure'
  <2>1. \A k \in Node : jit'[k].mode = jit[k].mode
    BY <1>15
  <2> QED
    BY <1>1, <2>1 DEF XInv, FallsBackOnFailure
<1> QED
  BY <1>1, <1>2, <1>7, <1>13, <1>14, <1>15, <1>16, <1>17, PlanStep DEF Preserved

(* Every step preserves the invariant, and what the program holds.         *)
LEMMA NextIsRight ==
  ASSUME XInv, [Next]_vars
  PROVE  Preserved
<1>1. CASE UNCHANGED vars
  BY <1>1, StutterIsRight
<1>2. CASE Dummies \/ Captured
  BY <1>2, DummiesAreRight, CapturedIsRight
<1>3. CASE Execute \/ RunWhole \/ CaptureBreaks \/ Reject \/ Rejected
  BY <1>3, ExecuteIsRight, RunWholeIsRight, CaptureBreaksIsRight, RejectIsRight,
     RejectedIsRight
<1>4. CASE EagerItem \/ DeadSegment \/ InterpretedSegment
  BY <1>4, EagerItemIsRight, DeadSegmentIsRight, InterpretedSegmentIsRight
<1>5. CASE JitSegment \/ FailedSegment
  BY <1>5, JitSegmentIsRight, FailedSegmentIsRight
<1>6. CASE Collect
  BY <1>6, CollectIsRight
<1>7. CASE ReplyHost
  <2>1. Reply(<<>>) /\ DOMAIN <<>> = {}
    BY <1>7 DEF ReplyHost
  <2> QED
    BY <2>1, ReplyIsRight
<1>8. CASE ReplyDevice
  <2> DEFINE copies == [i \in graph.outs |-> ImmutableCopy(i)]
  <2>1. Reply(copies) /\ \A i \in DOMAIN copies : i \in Id /\ copies[i] = <<i, "kept", run>>
    BY <1>8, GraphFacts DEF ReplyDevice, ImmutableCopy, XInv, Types
  <2> QED
    BY <2>1, ReplyIsRight
<1>9. CASE Done
  BY <1>9, StutterIsRight DEF Done
<1> QED
  BY <1>1, <1>2, <1>3, <1>4, <1>5, <1>6, <1>7, <1>8, <1>9 DEF Next

(* The invariant holds throughout.                                         *)
LEMMA Invariant == Spec => []XInv
<1>1. XInv /\ [Next]_vars => XInv'
  BY NextIsRight DEF Preserved
<1> QED
  BY <1>1, InitIsRight, PTL DEF Spec

-----------------------------------------------------------------------------
(* The theorems.                                                           *)

(* What an execute returns is what the graph, interpreted node by node,    *)
(* makes of the inputs of this very execute, whether it was replayed as    *)
(* one TinyJit, replayed in segments, interpreted, or fell back to         *)
(* interpretation after a call that raised midway.                         *)
THEOREM ExecutesAreRight == Spec => []ResultsAreRight
<1>1. XInv => ResultsAreRight
  BY DEF XInv
<1> QED
  BY <1>1, Invariant, PTL

(* "Returned Nx tensors are immutable": no step of a later execute writes  *)
(* or frees a buffer behind a handle the program holds.                    *)
THEOREM ReturnedTensorsAreImmutable == Spec => KeptUnchanged
<1>1. XInv /\ [Next]_vars => [\A b \in kept : b \in kept' /\ heap'[b] = heap[b]]_vars
  BY NextIsRight DEF Preserved, Keeps
<1> QED
  BY <1>1, Invariant, PTL DEF Spec, KeptUnchanged

(* A replay is refused only for different views of one buffer, and a       *)
(* compile fails only where the capture has to read a scalar, never in the *)
(* validation of its own third dummy call.                                 *)
THEOREM RefusedForViewsOnly == Spec => []RejectedForViews
<1>1. XInv => RejectedForViews
  BY DEF XInv
<1> QED
  BY <1>1, Invariant, PTL

(* A segment is interpreted only after a capture or replay of it failed.   *)
THEOREM GivenUpOnFailureOnly == Spec => []FallsBackOnFailure
<1>1. XInv => FallsBackOnFailure
  BY DEF XInv
<1> QED
  BY <1>1, Invariant, PTL

=============================================================================
