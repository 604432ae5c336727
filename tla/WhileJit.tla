------------------------------- MODULE WhileJit -------------------------------
(***************************************************************************)
(* `while` in the worker: Executable._run_while and _make_while_step.      *)
(*                                                                         *)
(* The body of a loop is a TinyJit that is captured by the loop's first    *)
(* steps and kept with the executable, so later iterations, later rounds   *)
(* of an enclosing loop and later executes replay it into the same         *)
(* buffers.  The loop's state is a tuple of such buffers.  A body that     *)
(* contains a loop is interpreted.  A step that raises is interpreted from *)
(* the same state, and so is every later one.                              *)
(*                                                                         *)
(* The model has one jitted loop, either alone in its graph or as the      *)
(* first operation of the body of an outer, interpreted loop; the results  *)
(* of the inner loop then become, pass through or are computed into the    *)
(* outer loop's state.  Contents are numbers modulo Modulus; beside the    *)
(* buffers the specification keeps the state that plain interpretation of  *)
(* the same bodies would have.  Conditions read the state; here they are a *)
(* choice, and both evaluations follow it.                                 *)
(***************************************************************************)
EXTENDS Naturals, FiniteSets, FiniteSetsExt

CONSTANTS
  N,            \* loop variables
  Programs,     \* bodies and initial values a run looks at
  MaxSteps,     \* bound: iterations of a loop
  MaxRounds,    \* bound: rounds of an outer loop
  MaxExecutes,  \* bound: executes of the graph
  MaxFailures,  \* bound: steps that raise
  Modulus,
  NoBuffer

Var == 1 .. N

(* An output of a body is one of its inputs or computed from some of them. *)
(* In an outer body the inputs are the outer state ("outer") and the       *)
(* results of the inner loop ("inner").                                    *)
Output == [op : {"pass", "calc"}, of : {"outer", "inner"}, from : SUBSET Var]

WellFormed(p) ==
  /\ p.inner \in [Var -> Output]
  /\ p.outer \in [Var -> Output]
  /\ p.init \in [Var -> Var]
  /\ p.nested \in BOOLEAN
  /\ \A j \in Var : \A b \in {p.inner[j], p.outer[j]} :
       b.op = "pass" => \E i \in Var : b.from = {i}

ASSUME NAssumption == N \in Nat \ {0}
ASSUME ProgramAssumption == \A p \in Programs : WellFormed(p)
ASSUME BoundAssumption ==
  /\ MaxSteps \in Nat /\ MaxRounds \in Nat /\ MaxExecutes \in Nat /\ MaxFailures \in Nat
  /\ Modulus \in Nat \ {0}
ASSUME NoBufferAssumption == NoBuffer \notin {"buf", "clone"} \X Var \X Nat

VARIABLES
  prog,       \* the graph
  phase,      \* "idle", "outer" (between rounds), "inner" (in the jitted loop)
  execute,    \* executes begun
  round, step,
  tick,       \* evaluations so far: names the buffers they make
  outer,      \* buffers of the outer state
  inner,      \* buffers of the inner state
  outerRef,   \* ghost: the contents plain interpretation would have
  innerRef,
  heap,       \* contents of buffers
  jit,        \* the TinyJit of the inner body, and how steps are made
  failures,
  torn        \* ghost: in this execute a step failed after writing what it had read

vars == <<prog, phase, execute, round, step, tick, outer, inner, outerRef, innerRef,
          heap, jit, failures, torn>>

MaxTick == MaxExecutes * (1 + MaxRounds * (MaxSteps + 2))
Buffer == {"buf", "clone"} \X Var \X (0 .. MaxTick)

NoState == [j \in Var |-> NoBuffer]

Init ==
  /\ prog \in Programs
  /\ phase = "idle"
  /\ execute = 0 /\ round = 0 /\ step = 0 /\ tick = 0
  /\ outer = NoState /\ inner = NoState
  /\ outerRef = [j \in Var |-> 0] /\ innerRef = [j \in Var |-> 0]
  /\ heap = <<>>
  /\ jit = [count |-> 0, mode |-> "jit", ret |-> NoState]
  /\ failures = 0
  /\ torn = FALSE

-----------------------------------------------------------------------------
(* Bodies.                                                                 *)

(* A computed output tells its position, its operands and their contents.  *)
Apply(j, b, v) ==
  IF b.op = "pass" THEN v[CHOOSE i \in b.from : TRUE]
  ELSE (j + 2 + MapThenSumSet(LAMBDA i : (i + 2) * v[i], b.from)) % Modulus

Source(b, s) == s[CHOOSE i \in b.from : TRUE]

Overwrite(f, g) ==
  [b \in DOMAIN f \cup DOMAIN g |-> IF b \in DOMAIN g THEN g[b] ELSE f[b]]

Look(h, s) == [j \in Var |-> h[s[j]]]

(* Buffers that are still referred to.                                     *)
Free(h, states) ==
  [b \in DOMAIN h \cap {s[j] : s \in states, j \in Var} |-> h[b]]

Calculated(body) == {j \in Var : body[j].op = "calc"}

Unchanged(body) == {j \in Var : body[j].op = "pass" /\ body[j].from = {j}}

Invariant == Unchanged(prog.inner)

-----------------------------------------------------------------------------
(* A step of the jitted loop.                                              *)

CloneCarried(s) ==                                    \* mutant of StepArgs
  [j \in Var |-> IF j \notin Invariant THEN <<"clone", j, tick + 1>> ELSE s[j]]
(* What a loop carries is cloned, and a repeated invariant.                *)
StepArgs(s) ==
  [j \in Var |->
     IF j \notin Invariant \/ \E i \in Invariant : i < j /\ s[i] = s[j]
     THEN <<"clone", j, tick + 1>> ELSE s[j]]

WithClones(args) ==
  Overwrite(heap, [b \in {args[j] : j \in Var} \cap ({"clone"} \X Var \X {tick + 1}) |->
                     heap[inner[b[2]]]])

Duplicates(args) == \E i, j \in Var : i # j /\ args[i] = args[j]

PassOn(j, args) == IF prog.inner[j].op = "pass"       \* mutant of FixedOutput
                   THEN Source(prog.inner[j], args) ELSE <<"buf", j, tick + 1>>
(* fn: an output that is realized in the trace is cloned there.            *)
FixedOutput(j, args) == <<"buf", j, tick + 1>>

(* The buffers a call of TinyJit returns: those of the capture, once there *)
(* is one.  Invariant variables are no outputs.                            *)
Outputs(args) ==
  IF jit.count = 2 THEN jit.ret
  ELSE [j \in Var |-> IF j \in Invariant THEN NoBuffer ELSE FixedOutput(j, args)]

(* Contents after the first k kernels: each reads the arguments and writes *)
(* its output; an output that was captured as it was has no kernel.        *)
Kernels(args, out) ==
  LET written(j) == j \notin Invariant /\ out[j][1] = "buf"
      h[k \in 0 .. N] ==
        IF k = 0 THEN WithClones(args)
        ELSE IF ~written(k) THEN h[k - 1]
        ELSE Overwrite(h[k - 1],
               [b \in {out[k]} |-> Apply(k, prog.inner[k], Look(h[k - 1], args))])
  IN  h

CalledAgain(out) == [jit EXCEPT !.count = @ + 1,      \* mutant of Called
                                !.ret = IF jit.count = 1 THEN out ELSE @]
Called(out) ==
  [jit EXCEPT !.count = IF @ = 2 THEN 2 ELSE @ + 1,
              !.ret = IF jit.count = 1 THEN out ELSE @]

RefStep == [j \in Var |-> Apply(j, prog.inner[j], innerRef)]

InLoop(mode) ==
  /\ phase = "inner"
  /\ jit.mode = mode
  /\ step < MaxSteps
  /\ step' = step + 1
  /\ tick' = tick + 1
  /\ innerRef' = RefStep
  /\ UNCHANGED <<prog, phase, execute, round, outer, outerRef>>

JitStep ==
  LET args == StepArgs(inner)
      out == Outputs(args)
  IN  /\ InLoop("jit")
      /\ ~Duplicates(args)
      /\ inner' = [j \in Var |-> IF j \in Invariant THEN inner[j] ELSE out[j]]
      /\ jit' = Called(out)
      /\ heap' = Free(Kernels(args, out)[N], {outer, inner', jit'.ret, args})
      /\ UNCHANGED <<failures, torn>>

(* _interpret: passed variables share their buffers.                       *)
Interpret(body, s, v) ==
  [state |-> [j \in Var |-> IF body[j].op = "pass" THEN Source(body[j], s)
                                                  ELSE <<"buf", j, tick + 1>>],
   made  |-> [b \in {<<"buf", j, tick + 1>> : j \in Calculated(body)} |->
                Apply(b[2], body[b[2]], v)]]

InterpretFrom(h) ==
  LET next == Interpret(prog.inner, inner, Look(h, inner))
  IN  /\ inner' = next.state
      /\ heap' = Free(Overwrite(h, next.made), {outer, inner'})

InterpretedStep ==
  /\ InLoop("interpret")
  /\ InterpretFrom(heap)
  /\ UNCHANGED <<jit, failures, torn>>

(* The step raises: TinyJit refuses its arguments, or k of its kernels have *)
(* run.  It is interpreted from the same buffers, not from the clones; a   *)
(* replay may have written some of them.                                   *)
FailedStep ==
  LET args == StepArgs(inner)
      out == Outputs(args)
      raised == [jit EXCEPT !.mode = "interpret", !.ret = NoState]
  IN  /\ InLoop("jit")
      /\ jit' = raised
      /\ \E k \in 0 .. N :
           /\ \/ Duplicates(args) /\ k = 0 /\ UNCHANGED failures
              \/ failures < MaxFailures /\ failures' = failures + 1
           /\ InterpretFrom(Kernels(args, out)[k])
           /\ torn' = (torn \/ \E j \in 1 .. k, i \in Var : out[j] = inner[i])

-----------------------------------------------------------------------------
(* The outer loop, or the graph around the only loop.                      *)

Execute ==
  /\ phase = "idle"
  /\ execute < MaxExecutes
  /\ execute' = execute + 1
  /\ tick' = tick + 1
  /\ outer' = [j \in Var |-> <<"buf", j, tick'>>]
  /\ outerRef' = [j \in Var |-> (10 * execute' + j) % Modulus]
  /\ heap' = Overwrite(heap, [b \in {outer'[j] : j \in Var} |-> outerRef'[b[2]]])
  /\ phase' = "outer"
  /\ round' = 0
  /\ torn' = FALSE
  /\ UNCHANGED <<prog, step, inner, innerRef, jit, failures>>

(* The inner loop is entered with variables of the outer one.              *)
Enter ==
  /\ phase = "outer"
  /\ round < IF prog.nested THEN MaxRounds ELSE 1
  /\ phase' = "inner"
  /\ round' = round + 1
  /\ step' = 0
  /\ inner' = [j \in Var |-> outer[prog.init[j]]]
  /\ innerRef' = [j \in Var |-> outerRef[prog.init[j]]]
  /\ UNCHANGED <<prog, execute, tick, outer, outerRef, heap, jit, failures, torn>>

OuterOutput(j, ofOuter, ofInner) ==
  LET b == prog.outer[j] IN IF b.of = "outer" THEN ofOuter ELSE ofInner

(* The inner loop ends, and the rest of the outer body is interpreted.     *)
Leave ==
  /\ phase = "inner"
  /\ phase' = "outer"
  /\ tick' = tick + 1
  /\ LET v == [o |-> Look(heap, outer), i |-> Look(heap, inner)]
         fromOuter == Interpret(prog.outer, outer, v.o)
         fromInner == Interpret(prog.outer, inner, v.i)
         made == [b \in DOMAIN fromOuter.made |->
                    OuterOutput(b[2], fromOuter.made, fromInner.made)[b]]
     IN  /\ outer' = [j \in Var |-> OuterOutput(j, fromOuter.state, fromInner.state)[j]]
         /\ heap' = Free(Overwrite(heap, made), {outer', jit.ret})
  /\ outerRef' = [j \in Var |->
                    Apply(j, prog.outer[j], OuterOutput(j, outerRef, innerRef))]
  /\ inner' = NoState
  /\ innerRef' = [j \in Var |-> 0]
  /\ UNCHANGED <<prog, execute, round, step, jit, failures, torn>>

(* The results are copied and the execute returns.                         *)
Finish ==
  /\ phase = "outer"
  /\ round > 0
  /\ phase' = "idle"
  /\ outer' = NoState
  /\ outerRef' = [j \in Var |-> 0]
  /\ heap' = Free(heap, {jit.ret})
  /\ UNCHANGED <<prog, execute, round, step, tick, inner, innerRef, jit, failures, torn>>

Done == phase = "idle" /\ execute = MaxExecutes /\ UNCHANGED vars

Next ==
  \/ Execute \/ Enter
  \/ JitStep \/ InterpretedStep \/ FailedStep
  \/ Leave \/ Finish
  \/ Done

Spec == Init /\ [][Next]_vars

-----------------------------------------------------------------------------
(* Properties.                                                             *)

(* A loop in another loop is left with buffers that its next run writes:   *)
(* the outer body may compute with them, but what it passes on of its own  *)
(* results is only what the inner loop left as it was.                     *)
PassesNothingCarriedOn(p) ==
  p.nested => \A j \in Var : p.outer[j].op = "pass" /\ p.outer[j].of = "inner" =>
                p.outer[j].from \subseteq Unchanged(p.inner)

(* The state the condition and the next step read, and everything the loop *)
(* was entered with, is what plain interpretation of the same bodies would *)
(* have: nothing stale from the capture, nothing overwritten by a replay,  *)
(* nothing lost by a fallback ("never wrong data").                        *)
StateIsInterpreted ==
  /\ phase = "inner" => Look(heap, inner) = innerRef
  /\ phase # "idle" => Look(heap, outer) = outerRef

(* Of a step of _run_while, captured, replayed or given up, only two things*)
(* can make it differ: an outer body that passes on what its inner loop    *)
(* will write again, and a replay that fails after it has written what it  *)
(* had read - and that only until the execute ends.                        *)
WrongInTwoWays ==
  StateIsInterpreted \/ torn \/ ~PassesNothingCarriedOn(prog)

(* Steps leave the fast path only because one of them failed: no two       *)
(* arguments ever share a buffer.                                          *)
FallsBackOnFailure == jit.mode = "interpret" => failures > 0

=============================================================================
