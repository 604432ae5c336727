------------------------------ MODULE MCWhileJit ------------------------------
(***************************************************************************)
(* Programs for WhileJit.  A body's outputs are inputs or are computed     *)
(* from one or from all of them.                                           *)
(***************************************************************************)
EXTENDS WhileJit

Passes(o) == [op : {"pass"}, of : {o}, from : {{i} : i \in Var}]
Calcs(o) == [op : {"calc"}, of : {o}, from : {{i} : i \in Var} \cup {Var}]

Inner == [Var -> Passes("inner") \cup Calcs("inner")]
Results == [j \in Var |-> [op |-> "pass", of |-> "inner", from |-> {j}]]

(* A loop on its own: its results are the results of the execute.          *)
TopLevel ==
  {[inner |-> b, outer |-> Results, init |-> f, nested |-> FALSE] :
     b \in Inner, f \in [Var -> Var]}

(* A loop in a loop that passes on only what the loop left as it was, and  *)
(* computes what it likes.                                                 *)
Outer == Passes("outer") \cup Passes("inner") \cup Calcs("outer") \cup Calcs("inner")
TakenOver ==
  {p \in {[inner |-> b, outer |-> o, init |-> [j \in Var |-> j], nested |-> TRUE] :
             b \in Inner, o \in [Var -> Outer]} : PassesNothingCarriedOn(p)}

(* A loop in a loop that passes on what it likes.                          *)
PassedOn ==
  {[inner |-> b, outer |-> o, init |-> [j \in Var |-> j], nested |-> TRUE] :
     b \in Inner, o \in [Var -> Passes("outer") \cup Passes("inner")]}

Loops == TopLevel \cup TakenOver

=============================================================================
