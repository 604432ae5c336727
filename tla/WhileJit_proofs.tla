---------------------------- MODULE WhileJit_proofs ----------------------------
(***************************************************************************)
(* For every number of loop variables, every set of bodies and every bound:*)
(* a loop leaves its captured body only because a step of it failed, and   *)
(* what it reads is what interpretation of the same bodies would have.     *)
(*                                                                         *)
(* TinyJit refuses two arguments in one buffer, and a step that is refused *)
(* would be interpreted from then on.  What a loop carries is cloned for   *)
(* each step, so the clones differ from one another; that they differ from *)
(* the variables that are passed as they are needs an invariant: no state  *)
(* of a loop, and no captured output, ever holds a clone.                  *)
(*                                                                         *)
(* A replay writes the buffers of the capture, one kernel after the other. *)
(* It is right because nothing that is still to be read lies there: the    *)
(* arguments are clones or variables the body leaves as they are, and what *)
(* the loop was entered with lies apart from the capture.  That is the     *)
(* second invariant.                                                       *)
(***************************************************************************)
EXTENDS WhileJit, WellFoundedInduction, TLAPS

(* What a variable of a loop may hold: a buffer that an evaluation made,   *)
(* never the clone of an argument.                                         *)
Held == ({"buf"} \X Var \X Nat) \cup {NoBuffer}

States == [Var -> Held]

WInv ==
  /\ prog \in Programs
  /\ tick \in Nat
  /\ failures \in Nat
  /\ outer \in States
  /\ inner \in States
  /\ jit \in [count : 0 .. 2, mode : {"jit", "interpret"}, ret : States]
  /\ FallsBackOnFailure

-----------------------------------------------------------------------------
(* Lemmas about the operators.                                             *)

(* A new output of an evaluation is a buffer, and no clone is one.         *)
LEMMA BuffersAreHeld ==
  ASSUME tick \in Nat
  PROVE  /\ NoBuffer \in Held
         /\ NoState \in States
         /\ \A j \in Var : <<"buf", j, tick + 1>> \in Held
         /\ \A j \in Var : <<"clone", j, tick + 1>> \notin Held
<1>1. \A j \in Var : <<"buf", j, tick + 1>> \in {"buf"} \X Var \X Nat
  OBVIOUS
<1>2. \A j \in Var : <<"clone", j, tick + 1>> \in {"buf", "clone"} \X Var \X Nat
  OBVIOUS
<1>3. \A j \in Var : <<"clone", j, tick + 1>> \notin {"buf"} \X Var \X Nat
  OBVIOUS
<1> QED
  BY <1>1, <1>2, <1>3, NoBufferAssumption DEF Held, States, NoState

(* The variable that is passed on is one of the loop's.                    *)
LEMMA SourceIsHeld ==
  ASSUME NEW b \in Output, NEW s \in States,
         b.op = "pass" => \E i \in Var : b.from = {i},
         b.op = "pass"
  PROVE  Source(b, s) \in Held
<1>1. PICK i \in Var : b.from = {i}
  OBVIOUS
<1>2. (CHOOSE k \in b.from : TRUE) = i
  BY <1>1
<1> QED
  BY <1>2 DEF Source, States

(* Interpretation leaves no clone in a state.                              *)
LEMMA InterpretedIsHeld ==
  ASSUME NEW body \in [Var -> Output], NEW s \in States, NEW v, tick \in Nat,
         \A j \in Var : body[j].op = "pass" => \E i \in Var : body[j].from = {i}
  PROVE  Interpret(body, s, v).state \in States
<1>1. \A j \in Var : body[j].op = "pass" => Source(body[j], s) \in Held
  BY SourceIsHeld
<1>2. Interpret(body, s, v).state =
        [j \in Var |-> IF body[j].op = "pass" THEN Source(body[j], s)
                                              ELSE <<"buf", j, tick + 1>>]
  BY DEF Interpret
<1> QED
  BY <1>1, <1>2, BuffersAreHeld DEF States

(* The bodies of a program are well formed.                                *)
LEMMA Bodies ==
  ASSUME prog \in Programs
  PROVE  /\ prog.inner \in [Var -> Output]
         /\ prog.outer \in [Var -> Output]
         /\ prog.init \in [Var -> Var]
         /\ \A j \in Var : prog.inner[j].op = "pass" =>
              \E i \in Var : prog.inner[j].from = {i}
         /\ \A j \in Var : prog.outer[j].op = "pass" =>
              \E i \in Var : prog.outer[j].from = {i}
  BY ProgramAssumption DEF WellFormed

(* No two arguments of a step share a buffer, whatever the variables share:*)
(* clones are told apart by their variable, repeated invariants are clones.*)
LEMMA ArgumentsDiffer ==
  ASSUME NEW s \in States, tick \in Nat
  PROVE  ~Duplicates(StepArgs(s))
<1> DEFINE cloned(j) == j \notin Invariant \/ \E i \in Invariant : i < j /\ s[i] = s[j]
<1> SUFFICES ASSUME NEW i \in Var, NEW j \in Var, i # j
             PROVE  StepArgs(s)[i] # StepArgs(s)[j]
  BY DEF Duplicates
<1>1. \A k \in Var : StepArgs(s)[k] = IF cloned(k) THEN <<"clone", k, tick + 1>> ELSE s[k]
  BY DEF StepArgs
<1>2. \A k \in Var : s[k] \in Held
  BY DEF States
<1>3. CASE cloned(i) /\ cloned(j)
  <2>1. /\ StepArgs(s)[i] = <<"clone", i, tick + 1>>
        /\ StepArgs(s)[j] = <<"clone", j, tick + 1>>
    BY <1>1, <1>3
  <2>2. <<"clone", i, tick + 1>> # <<"clone", j, tick + 1>>
    OBVIOUS
  <2> QED
    BY <2>1, <2>2
<1>4. CASE cloned(i) /\ ~cloned(j)
  <2>1. StepArgs(s)[i] = <<"clone", i, tick + 1>> /\ StepArgs(s)[j] = s[j]
    BY <1>1, <1>4
  <2> QED
    BY <1>2, <2>1, BuffersAreHeld
<1>5. CASE ~cloned(i) /\ cloned(j)
  <2>1. StepArgs(s)[j] = <<"clone", j, tick + 1>> /\ StepArgs(s)[i] = s[i]
    BY <1>1, <1>5
  <2> QED
    BY <1>2, <2>1, BuffersAreHeld
<1>6. CASE ~cloned(i) /\ ~cloned(j)
  <2>1. i \in Invariant /\ j \in Invariant /\ (i < j \/ j < i)
    BY <1>6, NAssumption DEF Var
  <2>2. s[i] # s[j]
    BY <1>6, <2>1
  <2> QED
    BY <1>1, <1>6, <2>2
<1> QED
  BY <1>3, <1>4, <1>5, <1>6

-----------------------------------------------------------------------------
(* The invariant.                                                          *)

(* The TinyJit of a loop holds nothing at first.                           *)
LEMMA InitWInv == Init => WInv
<1> SUFFICES ASSUME Init PROVE WInv
  OBVIOUS
<1>1. NoState \in States
  BY BuffersAreHeld DEF Init
<1>2. jit \in [count : 0 .. 2, mode : {"jit", "interpret"}, ret : States]
  BY <1>1 DEF Init
<1> QED
  BY <1>1, <1>2 DEF Init, WInv, FallsBackOnFailure

(* A step of the captured body: outputs are those of the capture or new.   *)
LEMMA JitStepWInv ==
  ASSUME WInv, JitStep
  PROVE  WInv'
<1> DEFINE args == StepArgs(inner)
           out == Outputs(args)
<1>1. out \in States
  BY BuffersAreHeld DEF Outputs, FixedOutput, States, WInv
<1> HIDE DEF args
<1>2. inner' = [j \in Var |-> IF j \in Invariant THEN inner[j] ELSE out[j]]
  BY DEF JitStep, args
<1>3. inner' \in States
  BY <1>1, <1>2 DEF States, WInv
<1>4. jit' = Called(out)
  BY DEF JitStep, args
<1> HIDE DEF out
<1> DEFINE count == IF jit.count = 2 THEN 2 ELSE jit.count + 1
           ret == IF jit.count = 1 THEN out ELSE jit.ret
<1>a. jit \in [count : 0 .. 2, mode : {"jit", "interpret"}, ret : States]
  BY DEF WInv
<1>b. jit' = [jit EXCEPT !.count = count, !.ret = ret]
  BY <1>4 DEF Called
<1>c. count \in 0 .. 2 /\ ret \in States
  BY <1>1, <1>a
<1> HIDE DEF count, ret
<1>5. /\ jit' \in [count : 0 .. 2, mode : {"jit", "interpret"}, ret : States]
      /\ jit'.mode = jit.mode
  BY <1>a, <1>b, <1>c
<1>6. UNCHANGED <<prog, outer, failures>> /\ tick' = tick + 1
  BY DEF JitStep, InLoop
<1> QED
  BY <1>3, <1>5, <1>6 DEF WInv, FallsBackOnFailure

(* Interpretation of a body, from whatever contents.                       *)
LEMMA InterpretFromHeld ==
  ASSUME WInv, NEW h, InterpretFrom(h)
  PROVE  inner' \in States
<1>1. inner' = Interpret(prog.inner, inner, Look(h, inner)).state
  BY DEF InterpretFrom
<1> QED
  BY <1>1, Bodies, InterpretedIsHeld DEF WInv

(* A step after a fallback.                                                *)
LEMMA InterpretedStepWInv ==
  ASSUME WInv, InterpretedStep
  PROVE  WInv'
<1>1. inner' \in States
  BY InterpretFromHeld DEF InterpretedStep
<1>2. UNCHANGED <<prog, outer, failures, jit>> /\ tick' = tick + 1
  BY DEF InterpretedStep, InLoop
<1> QED
  BY <1>1, <1>2 DEF WInv, FallsBackOnFailure

(* A step that is given up was not refused: it failed.                     *)
LEMMA FailedStepWInv ==
  ASSUME WInv, FailedStep
  PROVE  WInv'
<1>1. PICK k \in 0 .. N :
        /\ \/ Duplicates(StepArgs(inner)) /\ k = 0 /\ UNCHANGED failures
           \/ failures < MaxFailures /\ failures' = failures + 1
        /\ InterpretFrom(Kernels(StepArgs(inner), Outputs(StepArgs(inner)))[k])
  BY DEF FailedStep
<1>2. inner' \in States
  BY <1>1, InterpretFromHeld
<1>3. ~Duplicates(StepArgs(inner))
  BY ArgumentsDiffer DEF WInv
<1>4. failures' = failures + 1
  BY <1>1, <1>3
<1>5. jit' = [jit EXCEPT !.mode = "interpret", !.ret = NoState]
  BY DEF FailedStep
<1>6. jit' \in [count : 0 .. 2, mode : {"jit", "interpret"}, ret : States]
  BY <1>5, BuffersAreHeld DEF WInv
<1>7. UNCHANGED <<prog, outer>> /\ tick' = tick + 1
  BY DEF FailedStep, InLoop
<1> QED
  BY <1>2, <1>4, <1>6, <1>7 DEF WInv, FallsBackOnFailure

(* An execute begins with buffers for the parameters.                      *)
LEMMA ExecuteWInv ==
  ASSUME WInv, Execute
  PROVE  WInv'
<1>1. tick' = tick + 1 /\ outer' = [j \in Var |-> <<"buf", j, tick'>>]
  BY DEF Execute
<1>2. outer' \in States
  BY <1>1, BuffersAreHeld DEF WInv, States
<1>3. UNCHANGED <<prog, failures, inner, jit>>
  BY DEF Execute
<1> QED
  BY <1>1, <1>2, <1>3 DEF WInv, FallsBackOnFailure

(* A loop is entered with variables of its surroundings.                   *)
LEMMA EnterWInv ==
  ASSUME WInv, Enter
  PROVE  WInv'
<1>1. inner' = [j \in Var |-> outer[prog.init[j]]]
  BY DEF Enter
<1>2. inner' \in States
  BY <1>1, Bodies DEF WInv, States
<1>3. UNCHANGED <<prog, tick, failures, outer, jit>>
  BY DEF Enter
<1> QED
  BY <1>2, <1>3 DEF WInv, FallsBackOnFailure

(* The outer state is what interpretation makes of both states.            *)
LEMMA LeaveWInv ==
  ASSUME WInv, Leave
  PROVE  WInv'
<1> DEFINE ofOuter == Interpret(prog.outer, outer, Look(heap, outer)).state
           ofInner == Interpret(prog.outer, inner, Look(heap, inner)).state
<1>1. ofOuter \in States /\ ofInner \in States
  BY Bodies, InterpretedIsHeld DEF WInv
<1>2. outer' = [j \in Var |-> OuterOutput(j, ofOuter, ofInner)[j]]
  BY DEF Leave
<1> HIDE DEF ofOuter, ofInner
<1>3. outer' \in States
  BY <1>1, <1>2 DEF OuterOutput, States
<1>4. inner' \in States
  BY BuffersAreHeld DEF Leave, WInv
<1>5. UNCHANGED <<prog, failures, jit>> /\ tick' = tick + 1
  BY DEF Leave
<1> QED
  BY <1>3, <1>4, <1>5 DEF WInv, FallsBackOnFailure

(* The execute returns; the captured body stays.                           *)
LEMMA FinishWInv ==
  ASSUME WInv, Finish
  PROVE  WInv'
<1>1. outer' \in States
  BY BuffersAreHeld DEF Finish, WInv
<1>2. UNCHANGED <<prog, tick, failures, inner, jit>>
  BY DEF Finish
<1> QED
  BY <1>1, <1>2 DEF WInv, FallsBackOnFailure

(* Every step keeps the invariant.                                         *)
LEMMA NextWInv ==
  ASSUME WInv, [Next]_vars
  PROVE  WInv'
<1>1. CASE UNCHANGED vars
  BY <1>1 DEF vars, WInv, FallsBackOnFailure
<1>2. CASE Done
  BY <1>1, <1>2 DEF Done
<1> QED
  BY <1>1, <1>2, JitStepWInv, InterpretedStepWInv, FailedStepWInv, ExecuteWInv, EnterWInv,
     LeaveWInv, FinishWInv DEF Next

(* Executable._run_while: a loop leaves its captured body only because a   *)
(* step of it raised; TinyJit never refuses the arguments of a step.       *)
THEOREM LoopsFallBackOnFailure == Spec => []FallsBackOnFailure
<1>1. Init => WInv
  BY InitWInv
<1>2. WInv /\ [Next]_vars => WInv'
  BY NextWInv
<1>3. WInv => FallsBackOnFailure
  BY DEF WInv
<1> QED
  BY <1>1, <1>2, <1>3, PTL DEF Spec

(* No step of a captured body is ever refused for two arguments in one     *)
(* buffer, whatever the variables of the loop share.                       *)
THEOREM StepsAreNeverRefused == Spec => []~Duplicates(StepArgs(inner))
<1>1. Init => WInv
  BY InitWInv
<1>2. WInv /\ [Next]_vars => WInv'
  BY NextWInv
<1>3. WInv => ~Duplicates(StepArgs(inner))
  BY ArgumentsDiffer DEF WInv
<1> QED
  BY <1>1, <1>2, <1>3, PTL DEF Spec

-----------------------------------------------------------------------------
(* Up to a number.                                                         *)

(* Every set of numbers has a least one.                                   *)
LEMMA LeastNumber ==
  ASSUME NEW T \in SUBSET Nat, T # {}
  PROVE  \E x \in T : \A y \in T : x <= y
<1> DEFINE R == OpToRel(<, Nat)
<1>1. IsWellFoundedOn(R, Nat)
  BY NatLessThanWellFounded
<1>2. \A x, y \in Nat : x < y => <<x, y>> \in R
  BY DEF OpToRel
<1> HIDE DEF R
<1>3. PICK x \in T : \A y \in T : ~ (<<y, x>> \in R)
  BY <1>1, WFMin
<1>4. \A y \in T : ~(y < x)
  BY <1>2, <1>3
<1> QED
  BY <1>4

(* What holds first, and from each number to the next, holds up to n.      *)
LEMMA UpTo ==
  ASSUME NEW n \in Nat, NEW A, 0 \in A,
         \A i \in 0 .. n : i \in A /\ i < n => i + 1 \in A
  PROVE  0 .. n \subseteq A
<1> DEFINE T == (0 .. n) \ A
<1> SUFFICES ASSUME T # {} PROVE FALSE
  OBVIOUS
<1>1. T \in SUBSET Nat
  OBVIOUS
<1> HIDE DEF T
<1>2. PICK x \in T : \A y \in T : x <= y
  BY <1>1, LeastNumber
<1>3. x \in 0 .. n /\ x \notin A /\ x # 0
  BY <1>2 DEF T
<1>4. x - 1 \in 0 .. n /\ x - 1 \notin T /\ x - 1 < n
  BY <1>1, <1>2, <1>3
<1>5. x - 1 \in A
  BY <1>4 DEF T
<1> QED
  BY <1>3, <1>4, <1>5

-----------------------------------------------------------------------------
(* The kernels of a step.                                                  *)

Made == {"buf"} \X Var \X Nat
Aged == {"buf"} \X Var \X (0 .. tick)

(* The contents of the buffers of a state are v.                           *)
Holds(s, v) ==
  /\ s \in [Var -> Aged]
  /\ \A j \in Var : s[j] \in DOMAIN heap
  /\ Look(heap, s) = v

(* Buffers that a run of the kernels may write: each output has its own.   *)
MayWrite(out) == \A j \in Var \ Invariant : out[j] \in {"buf"} \X {j} \X Nat

(* An output is written by a kernel of its own.                            *)
Written(j, out) == j \notin Invariant /\ out[j][1] = "buf"

(* The contents after kernel k, from the contents h before it.             *)
Kernel(args, out, k, h) ==
  IF k = 0 THEN WithClones(args)
  ELSE IF ~Written(k, out) THEN h
  ELSE Overwrite(h, [b \in {out[k]} |-> Apply(k, prog.inner[k], Look(h, args))])

(* g is what the kernels leave, one after the other.                       *)
RunsKernels(g, args, out) == g = [k \in 0 .. N |-> Kernel(args, out, k, g[k - 1])]

(* The recursive definition of Kernels is of the function that satisfies it.*)
LEMMA KernelsIsChosen ==
  ASSUME NEW args, NEW out, NEW g, RunsKernels(g, args, out)
  PROVE  RunsKernels(Kernels(args, out), args, out)
  BY ZenonT(30) DEF Kernels, RunsKernels, Kernel, Written

(* Each kernel runs on what the kernels before it left.                    *)
LEMMA KernelsEquation ==
  ASSUME NEW args, NEW out
  PROVE  /\ Kernels(args, out)[0] = WithClones(args)
         /\ \A k \in 1 .. N :
              Kernels(args, out)[k] = Kernel(args, out, k, Kernels(args, out)[k - 1])
<1> DEFINE B(g, k) == Kernel(args, out, k, g[k - 1])
           A == {n \in Nat : \E g : g = [k \in 0 .. n |-> B(g, k)]}
<1>1. ASSUME NEW g, NEW h, NEW k \in Nat, \A j \in Nat : j < k => g[j] = h[j]
      PROVE  B(g, k) = B(h, k)
  <2>1. CASE k = 0
    BY <2>1 DEF Kernel
  <2>2. CASE k # 0
    <3>1. k - 1 \in Nat /\ k - 1 < k
      BY <2>2
    <3>2. g[k - 1] = h[k - 1]
      BY <1>1, <3>1
    <3> QED
      BY <3>2
  <2> QED
    BY <2>1, <2>2
<1>2. ASSUME NEW g, g = [k \in 0 .. N |-> B(g, k)]
      PROVE  Kernels(args, out) = [k \in 0 .. N |-> B(Kernels(args, out), k)]
  <2>1. RunsKernels(g, args, out)
    BY <1>2 DEF RunsKernels
  <2>2. RunsKernels(Kernels(args, out), args, out)
    BY <2>1, KernelsIsChosen
  <2> QED
    BY <2>2 DEF RunsKernels
<1>3. 0 \in A
  <2> DEFINE g == [k \in 0 .. 0 |-> WithClones(args)]
  <2>1. \A k \in 0 .. 0 : B(g, k) = WithClones(args)
    BY DEF Kernel
  <2>2. g = [k \in 0 .. 0 |-> B(g, k)]
    BY <2>1
  <2> HIDE DEF g, B
  <2>3. \E f : f = [k \in 0 .. 0 |-> B(f, k)]
    BY <2>2
  <2> QED
    BY <2>3
<1> HIDE DEF B
<1>4. ASSUME NEW n \in Nat, n \in A PROVE n + 1 \in A
  <2>1. PICK g : g = [k \in 0 .. n |-> B(g, k)]
    BY <1>4
  <2> DEFINE h == [k \in 0 .. n + 1 |-> IF k = n + 1 THEN B(g, n + 1) ELSE g[k]]
  <2>2. \A j \in 0 .. n : h[j] = g[j]
    OBVIOUS
  <2>3. ASSUME NEW k \in 0 .. n + 1 PROVE h[k] = B(h, k)
    <3>1. k \in Nat /\ \A j \in Nat : j < k => j \in 0 .. n
      OBVIOUS
    <3>2. \A j \in Nat : j < k => g[j] = h[j]
      BY <2>2, <3>1
    <3> HIDE DEF h
    <3>3. B(g, k) = B(h, k)
      BY <1>1, <3>1, <3>2
    <3> USE DEF h
    <3>4. h[k] = B(g, k)
      BY <2>1
    <3> QED
      BY <3>3, <3>4
  <2>4. h = [k \in 0 .. n + 1 |-> B(h, k)]
    BY <2>3
  <2> HIDE DEF h
  <2>5. \E f : f = [k \in 0 .. n + 1 |-> B(f, k)]
    BY <2>4
  <2> QED
    BY <2>5
<1>5. 0 .. N \subseteq A
  <2> HIDE DEF A
  <2> QED
    BY <1>3, <1>4, UpTo, NAssumption
<1>6. PICK g : g = [k \in 0 .. N |-> B(g, k)]
  BY <1>5, NAssumption
<1>7. Kernels(args, out) = [k \in 0 .. N |-> B(Kernels(args, out), k)]
  BY <1>2, <1>6
<1>8. \A k \in 0 .. N : Kernels(args, out)[k] = B(Kernels(args, out), k)
  BY <1>7
<1>9. B(Kernels(args, out), 0) = WithClones(args)
  BY DEF B, Kernel
<1>10. 0 \in 0 .. N /\ 1 .. N \subseteq 0 .. N
  BY NAssumption
<1> QED
  BY <1>8, <1>9, <1>10 DEF B

(* What is not written over stays.                                         *)
LEMMA OverwriteKeeps ==
  ASSUME NEW f, NEW g, NEW b \in DOMAIN f, b \notin DOMAIN g
  PROVE  b \in DOMAIN Overwrite(f, g) /\ Overwrite(f, g)[b] = f[b]
  BY DEF Overwrite

(* What is written is there.                                               *)
LEMMA OverwriteGives ==
  ASSUME NEW f, NEW g, NEW b \in DOMAIN g
  PROVE  b \in DOMAIN Overwrite(f, g) /\ Overwrite(f, g)[b] = g[b]
  BY DEF Overwrite

(* A kernel leaves everything but its output.                              *)
LEMMA KernelLeaves ==
  ASSUME NEW args, NEW out, NEW k \in 1 .. N, NEW h, NEW b \in DOMAIN h,
         Written(k, out) => out[k] # b
  PROVE  /\ b \in DOMAIN Kernel(args, out, k, h)
         /\ Kernel(args, out, k, h)[b] = h[b]
<1>1. k # 0
  OBVIOUS
<1>2. CASE ~Written(k, out)
  BY <1>1, <1>2 DEF Kernel
<1>3. CASE Written(k, out)
  <2> DEFINE g == [c \in {out[k]} |-> Apply(k, prog.inner[k], Look(h, args))]
  <2>1. Kernel(args, out, k, h) = Overwrite(h, g)
    BY <1>1, <1>3 DEF Kernel
  <2>2. b \notin DOMAIN g
    BY <1>3
  <2> HIDE DEF g
  <2>3. b \in DOMAIN Overwrite(h, g) /\ Overwrite(h, g)[b] = h[b]
    BY <2>2, OverwriteKeeps
  <2> QED
    BY <2>1, <2>3
<1> QED
  BY <1>2, <1>3

(* What no kernel from m on writes is what it was.                         *)
LEMMA KernelsLeave ==
  ASSUME NEW args, NEW out, NEW m \in 0 .. N, NEW b \in DOMAIN Kernels(args, out)[m],
         \A k \in Var : k > m /\ Written(k, out) => out[k] # b
  PROVE  \A n \in m .. N : /\ b \in DOMAIN Kernels(args, out)[n]
                           /\ Kernels(args, out)[n][b] = Kernels(args, out)[m][b]
<1> DEFINE h == Kernels(args, out)
           Same(n) == b \in DOMAIN h[n] /\ h[n][b] = h[m][b]
           A == {i \in 0 .. N : i >= m => Same(i)}
<1> N \in Nat /\ m \in Nat /\ m <= N
  BY NAssumption
<1>1. \A k \in 1 .. N : h[k] = Kernel(args, out, k, h[k - 1])
  BY KernelsEquation
<1> HIDE DEF h
<1>2. 0 \in A
  <2>1. Same(m)
    BY DEF h
  <2> HIDE DEF Same
  <2> QED
    BY <2>1
<1>3. ASSUME NEW i \in 0 .. N, i \in A, i < N PROVE i + 1 \in A
  <2>1. CASE i + 1 <= m
    <3>1. Same(m)
      BY DEF h
    <3> HIDE DEF Same
    <3> QED
      BY <2>1, <3>1
  <2>2. CASE i >= m
    <3>1. Same(i)
      BY <1>3, <2>2
    <3>2. /\ i + 1 \in 1 .. N
          /\ i + 1 \in Var
          /\ i + 1 > m
          /\ i + 1 - 1 = i
      BY <1>3, <2>2 DEF Var
    <3>3. h[i + 1] = Kernel(args, out, i + 1, h[i])
      BY <1>1, <3>2
    <3>4. Written(i + 1, out) => out[i + 1] # b
      BY <3>2
    <3>5. b \in DOMAIN h[i + 1] /\ h[i + 1][b] = h[i][b]
      BY <3>1, <3>2, <3>3, <3>4, KernelLeaves
    <3>6. Same(i + 1)
      BY <3>1, <3>5
    <3> HIDE DEF Same
    <3> QED
      BY <3>2, <3>6
  <2> QED
    BY <2>1, <2>2
<1>4. 0 .. N \subseteq A
  <2> HIDE DEF A
  <2> QED
    BY <1>2, <1>3, UpTo
<1>5. ASSUME NEW n \in m .. N PROVE Same(n)
  <2> HIDE DEF Same
  <2>1. n \in 0 .. N /\ n >= m
    OBVIOUS
  <2> QED
    BY <1>4, <2>1
<1> QED
  BY <1>5 DEF h

(* What the first n kernels do not write is what it was.                   *)
LEMMA FirstKernelsLeave ==
  ASSUME NEW args, NEW out, NEW n \in 0 .. N, NEW b \in DOMAIN WithClones(args),
         \A k \in 1 .. n : Written(k, out) => out[k] # b
  PROVE  /\ b \in DOMAIN Kernels(args, out)[n]
         /\ Kernels(args, out)[n][b] = WithClones(args)[b]
<1> DEFINE h == Kernels(args, out)
           Same(i) == b \in DOMAIN h[i] /\ h[i][b] = WithClones(args)[b]
           A == {i \in 0 .. n : Same(i)}
<1> N \in Nat /\ n \in Nat /\ n <= N
  BY NAssumption
<1>1. h[0] = WithClones(args) /\ \A k \in 1 .. N : h[k] = Kernel(args, out, k, h[k - 1])
  BY KernelsEquation
<1> HIDE DEF h
<1>2. Same(0)
  BY <1>1
<1>3. ASSUME NEW i \in 0 .. n, Same(i), i < n PROVE Same(i + 1)
  <2>1. i + 1 \in 1 .. n /\ i + 1 \in 1 .. N /\ i + 1 - 1 = i
    BY <1>3
  <2>2. h[i + 1] = Kernel(args, out, i + 1, h[i])
    BY <1>1, <2>1
  <2>3. Written(i + 1, out) => out[i + 1] # b
    BY <2>1
  <2>4. b \in DOMAIN h[i + 1] /\ h[i + 1][b] = h[i][b]
    BY <1>3, <2>1, <2>2, <2>3, KernelLeaves
  <2> QED
    BY <1>3, <2>4
<1> HIDE DEF Same
<1>4. 0 .. n \subseteq A
  <2>1. 0 \in A
    BY <1>2
  <2>2. \A i \in 0 .. n : i \in A /\ i < n => i + 1 \in A
    BY <1>3
  <2> HIDE DEF A
  <2> QED
    BY <2>1, <2>2, UpTo
<1>5. Same(n)
  BY <1>4
<1> QED
  BY <1>5 DEF Same, h

(* Cloning the arguments of a step writes no buffer, and each argument has *)
(* the contents of its variable.                                           *)
LEMMA ClonesAreCopies ==
  ASSUME NEW s \in [Var -> Made], \A j \in Var : s[j] \in DOMAIN heap, s = inner,
         tick \in Nat
  PROVE  LET h == WithClones(StepArgs(s))
         IN  /\ \A b \in Made : b \in DOMAIN heap => b \in DOMAIN h /\ h[b] = heap[b]
             /\ \A j \in Var : /\ StepArgs(s)[j] \in DOMAIN h
                               /\ h[StepArgs(s)[j]] = heap[s[j]]
<1> DEFINE args == StepArgs(s)
           C == {args[j] : j \in Var} \cap ({"clone"} \X Var \X {tick + 1})
           g == [b \in C |-> heap[inner[b[2]]]]
<1>1. WithClones(args) = Overwrite(heap, g)
  BY DEF WithClones
<1>2. \A b \in Made : b \notin DOMAIN g
  BY DEF Made
<1>3. ASSUME NEW b \in Made, b \in DOMAIN heap
      PROVE  b \in DOMAIN WithClones(args) /\ WithClones(args)[b] = heap[b]
  <2> HIDE DEF g
  <2>1. b \in DOMAIN Overwrite(heap, g) /\ Overwrite(heap, g)[b] = heap[b]
    BY <1>2, <1>3, OverwriteKeeps
  <2> QED
    BY <1>1, <2>1
<1>4. ASSUME NEW j \in Var
      PROVE  args[j] \in DOMAIN WithClones(args) /\ WithClones(args)[args[j]] = heap[s[j]]
  <2>1. args[j] = s[j] \/ args[j] = <<"clone", j, tick + 1>>
    BY DEF StepArgs
  <2>2. CASE args[j] = s[j]
    BY <1>3, <2>2
  <2>3. CASE args[j] = <<"clone", j, tick + 1>>
    <3>1. args[j] \in C
      BY <2>3
    <3>2. args[j] \in DOMAIN g /\ g[args[j]] = heap[s[j]]
      BY <2>3, <3>1
    <3> HIDE DEF g, args
    <3>3. /\ args[j] \in DOMAIN Overwrite(heap, g)
          /\ Overwrite(heap, g)[args[j]] = g[args[j]]
      BY <3>2, OverwriteGives
    <3> QED
      BY <1>1, <3>2, <3>3
  <2> QED
    BY <2>1, <2>2, <2>3
<1> QED
  BY <1>3, <1>4

(* A kernel writes an output of its own.                                   *)
LEMMA WritesItsOwn ==
  ASSUME NEW out, MayWrite(out), NEW k \in Var, Written(k, out)
  PROVE  /\ out[k] \in Made
         /\ \A j \in Var \ Invariant : j # k => out[j] # out[k]
  BY DEF MayWrite, Written, Made

(* What no kernel writes is what it was.                                   *)
LEMMA KernelsKeep ==
  ASSUME NEW args, NEW out, NEW b \in DOMAIN WithClones(args),
         \A k \in Var \ Invariant : out[k] # b
  PROVE  \A n \in 0 .. N : /\ b \in DOMAIN Kernels(args, out)[n]
                           /\ Kernels(args, out)[n][b] = WithClones(args)[b]
<1>1. Kernels(args, out)[0] = WithClones(args)
  BY KernelsEquation
<1>2. 0 \in 0 .. N
  BY NAssumption
<1>3. \A k \in Var : k > 0 /\ Written(k, out) => out[k] # b
  BY DEF Written
<1> DEFINE m == 0
<1>4. b \in DOMAIN Kernels(args, out)[m]
  BY <1>1
<1>5. m \in 0 .. N /\ \A k \in Var : k > m /\ Written(k, out) => out[k] # b
  BY <1>2, <1>3
<1> HIDE DEF m
<1>6. \A n \in m .. N : /\ b \in DOMAIN Kernels(args, out)[n]
                        /\ Kernels(args, out)[n][b] = Kernels(args, out)[m][b]
  BY <1>4, <1>5, KernelsLeave
<1> QED
  BY <1>1, <1>6 DEF m

(* What a replay computes: each output is computed from the contents the   *)
(* arguments had before it.                                                *)
LEMMA KernelsCompute ==
  ASSUME NEW args, NEW out, MayWrite(out),
         \A i \in Var : args[i] \in DOMAIN WithClones(args),
         \A i \in Var : \A k \in Var \ Invariant : out[k] # args[i],
         NEW j \in Var \ Invariant
  PROVE  /\ out[j] \in DOMAIN Kernels(args, out)[N]
         /\ Kernels(args, out)[N][out[j]] =
              Apply(j, prog.inner[j], Look(WithClones(args), args))
<1> DEFINE h == Kernels(args, out)
           v == Look(WithClones(args), args)
           g == [b \in {out[j]} |-> Apply(j, prog.inner[j], v)]
<1>1. N \in Nat /\ j \in 1 .. N /\ j - 1 \in 0 .. N /\ j \in 0 .. N /\ j # 0
  BY NAssumption DEF Var
<1>2. ASSUME NEW i \in Var
      PROVE  h[j - 1][args[i]] = WithClones(args)[args[i]]
  <2> HIDE DEF h
  <2> DEFINE b == args[i]
  <2>1. b \in DOMAIN WithClones(args) /\ \A k \in Var \ Invariant : out[k] # b
    OBVIOUS
  <2> HIDE DEF b
  <2>2. \A n \in 0 .. N : h[n][b] = WithClones(args)[b]
    BY <2>1, KernelsKeep DEF h
  <2> QED
    BY <1>1, <2>2 DEF b
<1>3. Look(h[j - 1], args) = v
  <2> HIDE DEF h
  <2> QED
    BY <1>2 DEF Look
<1>4. Written(j, out)
  BY DEF Written, MayWrite
<1>5. h[j] = Kernel(args, out, j, h[j - 1])
  BY <1>1, KernelsEquation
<1>6. h[j] = Overwrite(h[j - 1], g)
  <2> HIDE DEF h, v
  <2> QED
    BY <1>1, <1>3, <1>4, <1>5 DEF Kernel
<1>7. out[j] \in DOMAIN h[j] /\ h[j][out[j]] = Apply(j, prog.inner[j], v)
  <2>1. out[j] \in DOMAIN g /\ g[out[j]] = Apply(j, prog.inner[j], v)
    OBVIOUS
  <2> HIDE DEF g, h, v
  <2>2. out[j] \in DOMAIN Overwrite(h[j - 1], g) /\ Overwrite(h[j - 1], g)[out[j]] = g[out[j]]
    BY <2>1, OverwriteGives
  <2> QED
    BY <1>6, <2>1, <2>2
<1>8. \A k \in Var : k > j /\ Written(k, out) => out[k] # out[j]
  <2>1. \A k \in Var : k > j => k # j
    BY <1>1 DEF Var
  <2> QED
    BY <2>1, WritesItsOwn
<1> HIDE DEF v
<1>9. \A n \in j .. N : out[j] \in DOMAIN h[n] /\ h[n][out[j]] = h[j][out[j]]
  <2> DEFINE b == out[j]
  <2>1. b \in DOMAIN h[j] /\ \A k \in Var : k > j /\ Written(k, out) => out[k] # b
    BY <1>7, <1>8
  <2> HIDE DEF b
  <2>2. \A n \in j .. N : b \in DOMAIN h[n] /\ h[n][b] = h[j][b]
    BY <1>1, <2>1, KernelsLeave
  <2> QED
    BY <2>2 DEF b
<1>10. N \in j .. N
  BY <1>1
<1> QED
  BY <1>7, <1>9, <1>10 DEF v

-----------------------------------------------------------------------------
(* Nothing stale, nothing overwritten.                                     *)

(* The outputs of a capture are the buffers of its positions; a variable   *)
(* that the body leaves as it was has none.                                *)
Captured ==
  /\ \A j \in Var : \/ jit.ret[j] = NoBuffer
                    \/ j \notin Invariant /\ jit.ret[j] \in {"buf"} \X {j} \X (0 .. tick)
  /\ jit.count = 2 /\ jit.mode = "jit" => \A j \in Var \ Invariant : jit.ret[j] # NoBuffer

(* No kernel of a replay writes a buffer of s.                             *)
Apart(s) == \A i, k \in Var : s[i] # jit.ret[k]

(* What plain interpretation has is there, and what is still needed of it  *)
(* lies apart from the capture: what the loop leaves as it was, and the    *)
(* surroundings as long as the loop can run again.                         *)
SInv ==
  /\ WInv
  /\ round \in Nat
  /\ phase \in {"idle", "outer", "inner"}
  /\ phase = "inner" => Holds(inner, innerRef) /\ round > 0
  /\ phase # "idle" => Holds(outer, outerRef)
  /\ Captured
  /\ phase = "inner" => \A i \in Invariant : \A k \in Var : inner[i] # jit.ret[k]
  /\ phase = "inner" \/ (phase = "outer" /\ (prog.nested \/ round = 0)) => Apart(outer)

(* What is held is made, and no later evaluation makes it again.           *)
LEMMA AgedIsOld ==
  ASSUME tick \in Nat
  PROVE  /\ Aged \subseteq Made
         /\ \A j \in Var : <<"buf", j, tick + 1>> \in Made \ Aged
         /\ \A j \in Var : \A b \in {"buf"} \X {j} \X (0 .. tick) : b \in Aged
         /\ NoBuffer \notin Made
<1>1. 0 .. tick \subseteq Nat /\ tick + 1 \in Nat /\ tick + 1 \notin 0 .. tick
  OBVIOUS
<1>2. Made \subseteq {"buf", "clone"} \X Var \X Nat
  BY DEF Made
<1>3. NoBuffer \notin Made
  BY <1>2, NoBufferAssumption
<1> QED
  BY <1>1, <1>3 DEF Aged, Made

(* A buffer that is still named keeps its contents.                        *)
LEMMA FreeKeeps ==
  ASSUME NEW h, NEW states, NEW s \in states, NEW j \in Var, s[j] \in DOMAIN h
  PROVE  s[j] \in DOMAIN Free(h, states) /\ Free(h, states)[s[j]] = h[s[j]]
<1>1. s[j] \in DOMAIN h \cap {t[i] : t \in states, i \in Var}
  OBVIOUS
<1> QED
  BY <1>1 DEF Free

(* Output j of a body that is interpreted: passed on, or made from what was*)
(* read.                                                                   *)
PassedOrMade(body, s, h, j) ==
  LET I == Interpret(body, s, Look(h, s))
  IN  \/ /\ body[j].op = "pass"
         /\ \E i \in Var : body[j].from = {i} /\ I.state[j] = s[i]
         /\ I.state[j] \in Aged
         /\ I.state[j] \in DOMAIN h
         /\ h[I.state[j]] = Apply(j, body[j], Look(h, s))
      \/ /\ body[j].op = "calc"
         /\ I.state[j] = <<"buf", j, tick + 1>>
         /\ I.state[j] \in DOMAIN I.made
         /\ I.made[I.state[j]] = Apply(j, body[j], Look(h, s))

(* Each output of a body that is interpreted is there.                     *)
LEMMA InterpretedIsThere ==
  ASSUME tick \in Nat, NEW body \in [Var -> Output], NEW s \in [Var -> Aged], NEW h,
         \A j \in Var : body[j].op = "pass" => \E i \in Var : body[j].from = {i},
         \A j \in Var : s[j] \in DOMAIN h,
         NEW j \in Var
  PROVE  PassedOrMade(body, s, h, j)
<1> DEFINE v == Look(h, s)
           state == Interpret(body, s, v).state
           made == Interpret(body, s, v).made
<1> SUFFICES \/ /\ body[j].op = "pass"
                /\ \E i \in Var : body[j].from = {i} /\ state[j] = s[i]
                /\ state[j] \in Aged
                /\ state[j] \in DOMAIN h
                /\ h[state[j]] = Apply(j, body[j], v)
             \/ /\ body[j].op = "calc"
                /\ state[j] = <<"buf", j, tick + 1>>
                /\ state[j] \in DOMAIN made
                /\ made[state[j]] = Apply(j, body[j], v)
  BY DEF PassedOrMade
<1>1. body[j].op = "pass" \/ body[j].op = "calc"
  BY DEF Output
<1>2. /\ state = [k \in Var |-> IF body[k].op = "pass" THEN Source(body[k], s)
                                                       ELSE <<"buf", k, tick + 1>>]
      /\ made = [b \in {<<"buf", k, tick + 1>> : k \in Calculated(body)} |->
                   Apply(b[2], body[b[2]], v)]
  BY DEF Interpret
<1>3. CASE body[j].op = "pass"
  <2>1. PICK i \in Var : body[j].from = {i}
    BY <1>3
  <2>2. (CHOOSE k \in body[j].from : TRUE) = i
    BY <2>1
  <2>3. state[j] = s[i]
    BY <1>2, <1>3, <2>2 DEF Source
  <2>4. Apply(j, body[j], v) = v[i]
    BY <1>3, <2>2 DEF Apply
  <2>5. v[i] = h[s[i]]
    BY DEF Look
  <2> QED
    BY <1>3, <2>1, <2>3, <2>4, <2>5
<1>4. CASE body[j].op = "calc"
  <2>1. state[j] = <<"buf", j, tick + 1>>
    BY <1>2, <1>4
  <2>2. j \in Calculated(body)
    BY <1>4 DEF Calculated
  <2>3. <<"buf", j, tick + 1>>[2] = j
    OBVIOUS
  <2>4. state[j] \in DOMAIN made /\ made[state[j]] = Apply(j, body[j], v)
    BY <1>2, <2>1, <2>2, <2>3
  <2> QED
    BY <1>4, <2>1, <2>4
<1> QED
  BY <1>1, <1>3, <1>4

-----------------------------------------------------------------------------
(* A step of the captured body.                                            *)

(* The outputs of a step: those of the capture or, until there is one, new *)
(* buffers.  What lies apart from the capture is not written.              *)
LEMMA OutputsAreApart ==
  ASSUME SInv, jit.mode = "jit", NEW args
  PROVE  LET out == Outputs(args)
         IN  /\ MayWrite(out)
             /\ \A j \in Var \ Invariant : out[j] \in {"buf"} \X {j} \X (0 .. tick + 1)
             /\ jit.count # 2 => /\ \A j \in Invariant : out[j] = NoBuffer
                                 /\ \A k \in Var : \A b \in Aged : b # out[k]
             /\ \A b \in Aged : (\A k \in Var : b # jit.ret[k]) =>
                                  \A k \in Var \ Invariant : out[k] # b
<1> tick \in Nat
  BY DEF SInv, WInv
<1>1. CASE jit.count = 2
  <2>1. Outputs(args) = jit.ret
    BY <1>1 DEF Outputs
  <2>2. \A j \in Var \ Invariant : jit.ret[j] \in {"buf"} \X {j} \X (0 .. tick)
    BY <1>1 DEF SInv, Captured
  <2>3. 0 .. tick \subseteq Nat /\ 0 .. tick \subseteq 0 .. tick + 1
    OBVIOUS
  <2>4. \A j \in Var \ Invariant : /\ jit.ret[j] \in {"buf"} \X {j} \X Nat
                                   /\ jit.ret[j] \in {"buf"} \X {j} \X (0 .. tick + 1)
    BY <2>2, <2>3
  <2> QED
    BY <1>1, <2>1, <2>4 DEF MayWrite
<1>2. CASE jit.count # 2
  <2> DEFINE out == Outputs(args)
  <2>1. out = [j \in Var |-> IF j \in Invariant THEN NoBuffer ELSE <<"buf", j, tick + 1>>]
    BY <1>2 DEF Outputs, FixedOutput
  <2>2. tick + 1 \in Nat /\ tick + 1 \in 0 .. tick + 1
    OBVIOUS
  <2> HIDE DEF out
  <2>3. \A j \in Var \ Invariant : /\ out[j] \in {"buf"} \X {j} \X Nat
                                   /\ out[j] \in {"buf"} \X {j} \X (0 .. tick + 1)
    BY <2>1, <2>2
  <2>4. \A j \in Var : j \in Invariant => out[j] = NoBuffer
    BY <2>1
  <2>5. Invariant \subseteq Var
    BY DEF Invariant, Unchanged
  <2>6. \A k \in Var : \A b \in Aged : b # out[k]
    <3> SUFFICES ASSUME NEW k \in Var, NEW b \in Aged PROVE b # out[k]
      OBVIOUS
    <3>1. b # NoBuffer /\ b # <<"buf", k, tick + 1>>
      BY AgedIsOld
    <3> QED
      BY <2>1, <3>1
  <2> QED
    BY <2>3, <2>4, <2>5, <2>6 DEF MayWrite, out
<1> QED
  BY <1>1, <1>2

(* An argument is a clone or a variable that the body leaves as it is.     *)
LEMMA ArgumentIs ==
  ASSUME NEW s, NEW i \in Var
  PROVE  \/ StepArgs(s)[i] = <<"clone", i, tick + 1>>
         \/ i \in Invariant /\ StepArgs(s)[i] = s[i]
  BY DEF StepArgs

(* What the kernels of a step do: outputs are computed from what the       *)
(* variables held, and what lies apart from the capture stays.             *)
LEMMA ReplayIsRight ==
  ASSUME SInv, phase = "inner", jit.mode = "jit"
  PROVE  LET out == Outputs(StepArgs(inner))
             h == Kernels(StepArgs(inner), out)[N]
         IN  /\ \A j \in Var \ Invariant :
                  out[j] \in DOMAIN h /\ h[out[j]] = Apply(j, prog.inner[j], innerRef)
             /\ \A b \in Aged : b \in DOMAIN heap /\ (\A k \in Var : b # jit.ret[k]) =>
                                  b \in DOMAIN h /\ h[b] = heap[b]
<1> DEFINE args == StepArgs(inner)
           out == Outputs(args)
           h == Kernels(args, out)[N]
<1> tick \in Nat
  BY DEF SInv, WInv
<1>1. /\ inner \in [Var -> Aged]
      /\ \A j \in Var : inner[j] \in DOMAIN heap
      /\ Look(heap, inner) = innerRef
  BY DEF SInv, Holds
<1>2. \A b \in Aged : (\A k \in Var : b # jit.ret[k]) => \A k \in Var \ Invariant : out[k] # b
  BY OutputsAreApart
<1>3. MayWrite(out)
  BY OutputsAreApart
<1>4. inner \in [Var -> Made]
  BY <1>1, AgedIsOld
<1>5. /\ \A b \in Made : b \in DOMAIN heap =>
           b \in DOMAIN WithClones(args) /\ WithClones(args)[b] = heap[b]
      /\ \A j \in Var : /\ args[j] \in DOMAIN WithClones(args)
                        /\ WithClones(args)[args[j]] = heap[inner[j]]
  BY <1>1, <1>4, ClonesAreCopies
<1> HIDE DEF out
<1>6. ASSUME NEW i \in Var, NEW k \in Var \ Invariant PROVE out[k] # args[i]
  <2>1. CASE args[i] = <<"clone", i, tick + 1>>
    <3>1. out[k] \in {"buf"} \X {k} \X Nat
      BY <1>3 DEF MayWrite
    <3>2. out[k][1] = "buf" /\ <<"clone", i, tick + 1>>[1] = "clone"
      BY <3>1
    <3> HIDE DEF args
    <3> QED
      BY <2>1, <3>2
  <2>2. CASE i \in Invariant /\ args[i] = inner[i]
    <3>1. \A m \in Var : inner[i] # jit.ret[m]
      BY <2>2 DEF SInv
    <3> QED
      BY <1>1, <1>2, <2>2, <3>1
  <2> QED
    BY <2>1, <2>2, ArgumentIs
<1> HIDE DEF args
<1>7. Look(WithClones(args), args) = innerRef
  <2>1. Look(WithClones(args), args) = Look(heap, inner)
    BY <1>5 DEF Look
  <2> QED
    BY <1>1, <2>1
<1>8. ASSUME NEW j \in Var \ Invariant
      PROVE  out[j] \in DOMAIN h /\ h[out[j]] = Apply(j, prog.inner[j], innerRef)
  <2>1. /\ out[j] \in DOMAIN h
        /\ h[out[j]] = Apply(j, prog.inner[j], Look(WithClones(args), args))
    BY <1>3, <1>5, <1>6, KernelsCompute
  <2> QED
    BY <1>7, <2>1
<1>9. ASSUME NEW b \in Aged, b \in DOMAIN heap, \A k \in Var : b # jit.ret[k]
      PROVE  b \in DOMAIN h /\ h[b] = heap[b]
  <2>1. b \in Made
    BY AgedIsOld
  <2>2. b \in DOMAIN WithClones(args) /\ WithClones(args)[b] = heap[b]
    BY <1>5, <1>9, <2>1
  <2>3. \A k \in Var \ Invariant : out[k] # b
    BY <1>2, <1>9
  <2>4. N \in 0 .. N
    BY NAssumption
  <2>5. b \in DOMAIN h /\ h[b] = WithClones(args)[b]
    BY <2>2, <2>3, <2>4, KernelsKeep
  <2> QED
    BY <2>2, <2>5
<1> QED
  BY <1>8, <1>9 DEF out, args, h

(* A step of the captured body keeps the invariant, whether it captures or *)
(* replays.                                                                *)
LEMMA JitStepSInv ==
  ASSUME SInv, JitStep
  PROVE  SInv'
<1> DEFINE args == StepArgs(inner)
           out == Outputs(args)
           h == Kernels(args, out)[N]
<1>1. /\ phase = "inner" /\ jit.mode = "jit" /\ step < MaxSteps
      /\ tick' = tick + 1
      /\ innerRef' = [j \in Var |-> Apply(j, prog.inner[j], innerRef)]
      /\ UNCHANGED <<prog, phase, round, outer, outerRef, failures>>
  BY DEF JitStep, InLoop, RefStep
<1>2. /\ inner' = [j \in Var |-> IF j \in Invariant THEN inner[j] ELSE out[j]]
      /\ jit' = Called(out)
      /\ heap' = Free(h, {outer, inner', jit'.ret, args})
  BY DEF JitStep
<1>3. /\ \A j \in Var \ Invariant :
           out[j] \in DOMAIN h /\ h[out[j]] = Apply(j, prog.inner[j], innerRef)
      /\ \A b \in Aged : b \in DOMAIN heap /\ (\A k \in Var : b # jit.ret[k]) =>
                           b \in DOMAIN h /\ h[b] = heap[b]
  BY <1>1, ReplayIsRight
<1>4. /\ \A j \in Var \ Invariant : out[j] \in {"buf"} \X {j} \X (0 .. tick + 1)
      /\ jit.count # 2 => /\ \A j \in Invariant : out[j] = NoBuffer
                          /\ \A k \in Var : \A b \in Aged : b # out[k]
  BY <1>1, OutputsAreApart
<1> HIDE DEF h, out, args
<1>5. WInv' /\ tick \in Nat /\ jit \in [count : 0 .. 2, mode : {"jit", "interpret"}, ret : States]
  BY JitStepWInv DEF SInv, WInv
<1>6. Invariant' = Invariant /\ Invariant \subseteq Var
  BY <1>1 DEF Invariant, Unchanged
<1>7. Aged \subseteq Aged'
  BY <1>1, <1>5 DEF Aged
<1>8. /\ inner \in [Var -> Aged]
      /\ \A j \in Var : inner[j] \in DOMAIN heap /\ heap[inner[j]] = innerRef[j]
  BY <1>1 DEF SInv, Holds, Look
<1>9. /\ outer \in [Var -> Aged]
      /\ \A j \in Var : outer[j] \in DOMAIN heap
      /\ outerRef = [j \in Var |-> heap[outer[j]]]
  BY <1>1 DEF SInv, Holds, Look
<1>10. ASSUME NEW j \in Var
       PROVE  /\ inner'[j] \in Aged'
              /\ inner'[j] \in DOMAIN h
              /\ h[inner'[j]] = Apply(j, prog.inner[j], innerRef)
  <2>1. CASE j \in Invariant
    <3>1. inner'[j] = inner[j] /\ \A k \in Var : inner[j] # jit.ret[k]
      BY <1>1, <1>2, <2>1 DEF SInv
    <3>2. Apply(j, prog.inner[j], innerRef) = innerRef[j]
      <4>1. prog.inner[j].op = "pass" /\ prog.inner[j].from = {j}
        BY <2>1 DEF Invariant, Unchanged
      <4>2. (CHOOSE i \in {j} : TRUE) = j
        OBVIOUS
      <4> QED
        BY <4>1, <4>2 DEF Apply
    <3> QED
      BY <1>3, <1>7, <1>8, <3>1, <3>2
  <2>2. CASE j \notin Invariant
    <3>1. inner'[j] = out[j]
      BY <1>2, <2>2
    <3>2. out[j] \in Aged'
      BY <1>1, <1>4, <2>2 DEF Aged
    <3> QED
      BY <1>3, <2>2, <3>1, <3>2
  <2> QED
    BY <2>1, <2>2
<1>11. ASSUME NEW j \in Var
       PROVE  /\ inner'[j] \in DOMAIN heap'
              /\ heap'[inner'[j]] = Apply(j, prog.inner[j], innerRef)
  <2> DEFINE s == inner'
  <2>1. s \in {outer, inner', jit'.ret, args}
    OBVIOUS
  <2>2. s[j] \in DOMAIN h
    BY <1>10
  <2> HIDE DEF s
  <2>3. s[j] \in DOMAIN heap' /\ heap'[s[j]] = h[s[j]]
    BY <1>2, <2>1, <2>2, FreeKeeps
  <2> QED
    BY <1>10, <2>3 DEF s
<1>12. Holds(inner, innerRef)'
  <2>1. inner' \in [Var -> Aged']
    <3>1. inner' = [j \in Var |-> inner'[j]]
      BY <1>2
    <3> QED
      BY <1>10, <3>1
  <2>2. [j \in Var |-> heap'[inner'[j]]] = innerRef'
    BY <1>1, <1>11
  <2> QED
    BY <1>11, <2>1, <2>2 DEF Holds, Look
<1>13. Apart(outer)
  BY <1>1 DEF SInv
<1>14. ASSUME NEW j \in Var
       PROVE  outer[j] \in DOMAIN heap' /\ heap'[outer[j]] = heap[outer[j]]
  <2>1. outer[j] \in DOMAIN h /\ h[outer[j]] = heap[outer[j]]
    BY <1>3, <1>9, <1>13 DEF Apart
  <2>2. outer \in {outer, inner', jit'.ret, args}
    OBVIOUS
  <2>3. outer[j] \in DOMAIN heap' /\ heap'[outer[j]] = h[outer[j]]
    BY <1>2, <2>1, <2>2, FreeKeeps
  <2> QED
    BY <2>1, <2>3
<1>15. Holds(outer, outerRef)'
  <2>1. outer' \in [Var -> Aged']
    BY <1>1, <1>7, <1>9
  <2>2. [j \in Var |-> heap'[outer'[j]]] = outerRef'
    BY <1>1, <1>9, <1>14
  <2> QED
    BY <1>1, <1>14, <2>1, <2>2 DEF Holds, Look
<1>16. /\ jit'.mode = jit.mode
       /\ jit'.count = IF jit.count = 2 THEN 2 ELSE jit.count + 1
       /\ jit'.ret = IF jit.count = 1 THEN out ELSE jit.ret
  BY <1>2, <1>5 DEF Called
<1>17. CASE jit.count = 1
  <2>1. jit'.ret = out
    BY <1>16, <1>17
  <2>2. \A j \in Var \ Invariant : out[j] \in {"buf"} \X {j} \X (0 .. tick')
    BY <1>1, <1>4
  <2>3. \A j \in Invariant : out[j] = NoBuffer
    BY <1>4, <1>17
  <2>4. \A j \in Var \ Invariant : out[j] # NoBuffer
    <3>1. \A j \in Var \ Invariant : out[j] \in Made
      BY <1>5, <2>2, <1>1 DEF Made
    <3> QED
      BY <1>5, <3>1, AgedIsOld
  <2>5. Captured'
    <3>1. \A j \in Var : \/ jit'.ret[j] = NoBuffer
                         \/ /\ j \notin Invariant
                            /\ jit'.ret[j] \in {"buf"} \X {j} \X (0 .. tick')
      BY <2>1, <2>2, <2>3
    <3>2. \A j \in Var \ Invariant : jit'.ret[j] # NoBuffer
      BY <2>1, <2>4
    <3> QED
      BY <1>6, <3>1, <3>2 DEF Captured
  <2>6. \A k \in Var : \A b \in Aged : b # jit'.ret[k]
    BY <1>4, <1>17, <2>1
  <2>7. \A i \in Invariant : inner'[i] = inner[i]
    BY <1>2, <1>6
  <2>8. \A i \in Invariant' : \A k \in Var : inner'[i] # jit'.ret[k]
    BY <1>6, <1>8, <2>6, <2>7
  <2>9. Apart(outer)'
    BY <1>1, <1>9, <2>6 DEF Apart
  <2> QED
    BY <1>1, <1>5, <1>12, <1>15, <2>5, <2>8, <2>9 DEF SInv
<1>18. CASE jit.count # 1
  <2>1. jit'.ret = jit.ret /\ (jit'.count = 2 => jit.count = 2)
    BY <1>5, <1>16, <1>18
  <2>2. 0 .. tick \subseteq 0 .. tick'
    BY <1>1, <1>5
  <2>3. Captured'
    BY <1>6, <1>16, <2>1, <2>2 DEF SInv, Captured
  <2>4. \A i \in Invariant : inner'[i] = inner[i]
    BY <1>2, <1>6
  <2>5. \A i \in Invariant' : \A k \in Var : inner'[i] # jit'.ret[k]
    BY <1>1, <1>6, <2>1, <2>4 DEF SInv
  <2>6. Apart(outer)'
    BY <1>1, <1>13, <2>1 DEF Apart
  <2> QED
    BY <1>1, <1>5, <1>12, <1>15, <2>3, <2>5, <2>6 DEF SInv
<1> QED
  BY <1>17, <1>18

(* A step that is interpreted, from contents that keep what was held.      *)
LEMMA InterpretFromHolds ==
  ASSUME SInv, phase = "inner",
         tick' = tick + 1, innerRef' = RefStep, UNCHANGED <<prog, outer, outerRef>>,
         NEW h, InterpretFrom(h),
         \A b \in Aged : /\ b \in DOMAIN heap
                         /\ \E i \in Var : b = inner[i] \/ b = outer[i]
                         => b \in DOMAIN h /\ h[b] = heap[b]
  PROVE  /\ Holds(inner, innerRef)'
         /\ Holds(outer, outerRef)'
         /\ \A i \in Invariant : inner'[i] = inner[i]
<1> DEFINE v == Look(h, inner)
           state == Interpret(prog.inner, inner, v).state
           made == Interpret(prog.inner, inner, v).made
           g == Overwrite(h, made)
<1>1. /\ inner' = state
      /\ heap' = Free(g, {outer, inner'})
  BY DEF InterpretFrom
<1>2. /\ tick \in Nat
      /\ prog.inner \in [Var -> Output]
      /\ \A j \in Var : prog.inner[j].op = "pass" => \E i \in Var : prog.inner[j].from = {i}
  BY Bodies DEF SInv, WInv
<1>3. /\ inner \in [Var -> Aged]
      /\ \A j \in Var : inner[j] \in DOMAIN heap
      /\ [j \in Var |-> heap[inner[j]]] = innerRef
  BY DEF SInv, Holds, Look
<1>4. /\ outer \in [Var -> Aged]
      /\ \A j \in Var : outer[j] \in DOMAIN heap
      /\ [j \in Var |-> heap[outer[j]]] = outerRef
  BY DEF SInv, Holds, Look
<1>5. \A j \in Var : /\ inner[j] \in DOMAIN h /\ h[inner[j]] = heap[inner[j]]
                     /\ outer[j] \in DOMAIN h /\ h[outer[j]] = heap[outer[j]]
  BY <1>3, <1>4
<1>6. v = innerRef
  BY <1>3, <1>5 DEF Look
<1>7. \A j \in Var : inner[j] \in DOMAIN h
  BY <1>3, <1>5
<1>8. \A j \in Var :
        \/ /\ prog.inner[j].op = "pass"
           /\ \E i \in Var : prog.inner[j].from = {i} /\ state[j] = inner[i]
           /\ state[j] \in Aged
           /\ state[j] \in DOMAIN h
           /\ h[state[j]] = Apply(j, prog.inner[j], v)
        \/ /\ prog.inner[j].op = "calc"
           /\ state[j] = <<"buf", j, tick + 1>>
           /\ state[j] \in DOMAIN made
           /\ made[state[j]] = Apply(j, prog.inner[j], v)
  <2>1. \A j \in Var : PassedOrMade(prog.inner, inner, h, j)
    BY <1>2, <1>3, <1>7, InterpretedIsThere
  <2> QED
    BY <2>1 DEF PassedOrMade
<1>9. DOMAIN made = {<<"buf", j, tick + 1>> : j \in Calculated(prog.inner)}
  BY DEF Interpret
<1>10. \A b \in Aged : b \notin DOMAIN made
  <2>1. Calculated(prog.inner) \subseteq Var
    BY DEF Calculated
  <2> QED
    BY <1>2, <1>9, <2>1, AgedIsOld
<1>11. DOMAIN state = Var /\ state = [j \in Var |-> state[j]]
  BY DEF Interpret
<1>12. Aged \subseteq Aged' /\ \A j \in Var : <<"buf", j, tick + 1>> \in Aged'
  <2>1. 0 .. tick \subseteq 0 .. tick + 1 /\ tick + 1 \in 0 .. tick + 1
    BY <1>2
  <2> QED
    BY <2>1 DEF Aged
<1> HIDE DEF v, state, made
<1>13. ASSUME NEW j \in Var
       PROVE  outer[j] \in DOMAIN g /\ g[outer[j]] = heap[outer[j]]
  <2> DEFINE b == outer[j]
  <2>1. b \in DOMAIN h /\ h[b] = heap[b] /\ b \notin DOMAIN made
    BY <1>4, <1>5, <1>10
  <2> HIDE DEF b
  <2>2. b \in DOMAIN g /\ g[b] = h[b]
    BY <2>1, OverwriteKeeps
  <2> QED
    BY <2>1, <2>2 DEF b
<1>14. ASSUME NEW j \in Var
       PROVE  /\ state[j] \in Aged'
              /\ state[j] \in DOMAIN g
              /\ g[state[j]] = Apply(j, prog.inner[j], innerRef)
  <2>1. CASE prog.inner[j].op = "pass"
    <3>1. /\ state[j] \in Aged
          /\ state[j] \in DOMAIN h
          /\ h[state[j]] = Apply(j, prog.inner[j], v)
      BY <1>8, <2>1
    <3>2. state[j] \in DOMAIN g /\ g[state[j]] = h[state[j]]
      BY <1>10, <3>1, OverwriteKeeps
    <3> QED
      BY <1>6, <1>12, <3>1, <3>2
  <2>2. CASE prog.inner[j].op = "calc"
    <3>1. /\ state[j] = <<"buf", j, tick + 1>>
          /\ state[j] \in DOMAIN made
          /\ made[state[j]] = Apply(j, prog.inner[j], v)
      BY <1>8, <2>2
    <3>2. state[j] \in DOMAIN g /\ g[state[j]] = made[state[j]]
      BY <3>1, OverwriteGives
    <3> QED
      BY <1>6, <1>12, <3>1, <3>2
  <2> QED
    BY <1>8, <2>1, <2>2
<1> HIDE DEF g
<1>15. ASSUME NEW j \in Var
       PROVE  state[j] \in DOMAIN heap' /\ heap'[state[j]] = g[state[j]]
  <2>1. state \in {outer, inner'}
    BY <1>1
  <2> QED
    BY <1>1, <1>14, <2>1, FreeKeeps
<1>16. ASSUME NEW j \in Var
       PROVE  outer[j] \in DOMAIN heap' /\ heap'[outer[j]] = heap[outer[j]]
  <2>1. outer[j] \in DOMAIN g /\ g[outer[j]] = heap[outer[j]]
    BY <1>4, <1>13
  <2>2. outer \in {outer, inner'}
    OBVIOUS
  <2>3. outer[j] \in DOMAIN heap' /\ heap'[outer[j]] = g[outer[j]]
    BY <1>1, <2>1, <2>2, FreeKeeps
  <2> QED
    BY <2>1, <2>3
<1>17. Holds(inner, innerRef)'
  <2>1. inner' \in [Var -> Aged']
    BY <1>1, <1>11, <1>14
  <2>2. innerRef' = [j \in Var |-> Apply(j, prog.inner[j], innerRef)]
    BY DEF RefStep
  <2>3. [j \in Var |-> heap'[inner'[j]]] = innerRef'
    BY <1>1, <1>14, <1>15, <2>2
  <2>4. \A j \in Var : inner'[j] \in DOMAIN heap'
    BY <1>1, <1>15
  <2> QED
    BY <2>1, <2>3, <2>4 DEF Holds, Look
<1>18. Holds(outer, outerRef)'
  <2>1. outer' = outer /\ outerRef' = outerRef
    OBVIOUS
  <2>2. outer' \in [Var -> Aged']
    BY <1>4, <1>12, <2>1
  <2>3. [j \in Var |-> heap'[outer'[j]]] = outerRef'
    BY <1>4, <1>16, <2>1
  <2> QED
    BY <1>16, <2>1, <2>2, <2>3 DEF Holds, Look
<1>19. ASSUME NEW i \in Invariant
       PROVE  inner'[i] = inner[i]
  <2>1. i \in Var /\ prog.inner[i].op = "pass" /\ prog.inner[i].from = {i}
    BY <1>19 DEF Invariant, Unchanged
  <2>2. PICK k \in Var : prog.inner[i].from = {k} /\ state[i] = inner[k]
    BY <1>8, <2>1
  <2>3. k = i
    BY <2>1, <2>2
  <2> QED
    BY <1>1, <2>2, <2>3
<1> QED
  BY <1>17, <1>18, <1>19

(* A step after a fallback.                                                *)
LEMMA InterpretedStepSInv ==
  ASSUME SInv, InterpretedStep
  PROVE  SInv'
<1>1. /\ phase = "inner" /\ tick' = tick + 1 /\ innerRef' = RefStep
      /\ UNCHANGED <<prog, phase, round, outer, outerRef, jit>>
      /\ jit.mode = "interpret"
  BY DEF InterpretedStep, InLoop
<1>2. WInv' /\ tick \in Nat
  BY InterpretedStepWInv DEF SInv, WInv
<1>3. Holds(inner, innerRef)' /\ Holds(outer, outerRef)'
      /\ \A i \in Invariant : inner'[i] = inner[i]
  BY <1>1, InterpretFromHolds DEF InterpretedStep
<1>4. Invariant' = Invariant
  BY <1>1 DEF Invariant, Unchanged
<1>5. 0 .. tick \subseteq 0 .. tick'
  BY <1>1, <1>2
<1>6. Captured'
  BY <1>1, <1>4, <1>5 DEF SInv, Captured
<1>7. \A i \in Invariant' : \A k \in Var : inner'[i] # jit'.ret[k]
  BY <1>1, <1>3, <1>4 DEF SInv
<1>8. Apart(outer)'
  BY <1>1 DEF SInv, Apart
<1> QED
  BY <1>1, <1>2, <1>3, <1>6, <1>7, <1>8 DEF SInv

(* A step that raises before it has written what it had read is interpreted*)
(* from the same contents, and the capture is given up.                    *)
LEMMA FailedStepSInv ==
  ASSUME SInv, FailedStep, ~torn'
  PROVE  SInv'
<1> DEFINE args == StepArgs(inner)
<1>1. /\ phase = "inner" /\ tick' = tick + 1 /\ innerRef' = RefStep
      /\ UNCHANGED <<prog, phase, round, outer, outerRef>>
      /\ jit.mode = "jit"
      /\ jit' = [jit EXCEPT !.mode = "interpret", !.ret = NoState]
  BY DEF FailedStep, InLoop
<1>2. WInv' /\ tick \in Nat
      /\ jit \in [count : 0 .. 2, mode : {"jit", "interpret"}, ret : States]
  BY FailedStepWInv DEF SInv, WInv
<1> DEFINE out == Outputs(args)
<1>3. PICK n \in 0 .. N :
        /\ InterpretFrom(Kernels(args, out)[n])
        /\ torn' = (torn \/ \E j \in 1 .. n, i \in Var : out[j] = inner[i])
  BY DEF FailedStep
<1>4. \A j \in 1 .. n : \A i \in Var : out[j] # inner[i]
  BY <1>3
<1>5. \A b \in Made : b \in DOMAIN heap =>
        b \in DOMAIN WithClones(args) /\ WithClones(args)[b] = heap[b]
  <2>1. inner \in [Var -> Made] /\ \A j \in Var : inner[j] \in DOMAIN heap
    BY <1>1, <1>2, AgedIsOld DEF SInv, Holds
  <2> QED
    BY <1>2, <2>1, ClonesAreCopies
<1>6. Apart(outer)
  BY <1>1 DEF SInv
<1>6a. \A b \in Aged : (\A k \in Var : b # jit.ret[k]) =>
                         \A k \in Var \ Invariant : out[k] # b
  BY <1>1, OutputsAreApart
<1> HIDE DEF args, out
<1>7. ASSUME NEW b \in Aged, b \in DOMAIN heap,
             \/ \E i \in Var : b = inner[i]
             \/ \E i \in Var : b = outer[i]
      PROVE  b \in DOMAIN Kernels(args, out)[n] /\ Kernels(args, out)[n][b] = heap[b]
  <2>1. b \in DOMAIN WithClones(args) /\ WithClones(args)[b] = heap[b]
    BY <1>2, <1>5, <1>7, AgedIsOld
  <2>2. \A k \in 1 .. n : Written(k, out) => out[k] # b
    <3> SUFFICES ASSUME NEW k \in 1 .. n, Written(k, out) PROVE out[k] # b
      OBVIOUS
    <3>1. CASE \E i \in Var : b = inner[i]
      BY <1>4, <3>1
    <3>2. CASE \E i \in Var : b = outer[i]
      <4>1. k \in Var \ Invariant
        BY NAssumption DEF Written, Var
      <4>2. \A m \in Var : b # jit.ret[m]
        BY <1>6, <3>2 DEF Apart
      <4> QED
        BY <1>6a, <4>1, <4>2
    <3> QED
      BY <1>7, <3>1, <3>2
  <2> QED
    BY <2>1, <2>2, FirstKernelsLeave
<1> HIDE DEF args
<1>8. Holds(inner, innerRef)' /\ Holds(outer, outerRef)'
  <2> DEFINE h == Kernels(args, out)[n]
  <2>1. /\ InterpretFrom(h)
        /\ \A b \in Aged : /\ b \in DOMAIN heap
                           /\ \E i \in Var : b = inner[i] \/ b = outer[i]
                           => b \in DOMAIN h /\ h[b] = heap[b]
    BY <1>3, <1>7
  <2> HIDE DEF h
  <2> QED
    BY <1>1, <2>1, InterpretFromHolds
<1>9. jit'.mode = "interpret" /\ jit'.ret = NoState
  BY <1>1, <1>2
<1>10. \A j \in Var : jit'.ret[j] = NoBuffer
  BY <1>9 DEF NoState
<1>11. Captured'
  BY <1>9, <1>10 DEF Captured
<1>12. \A b \in Aged' : b # NoBuffer
  BY <1>1, <1>2, NoBufferAssumption DEF Aged
<1>13. Apart(outer)' /\ Apart(inner)'
  BY <1>8, <1>10, <1>12 DEF Apart, Holds
<1>14. \A i \in Invariant' : \A k \in Var : inner'[i] # jit'.ret[k]
  <2>1. Invariant' \subseteq Var
    BY DEF Invariant, Unchanged
  <2> QED
    BY <1>13, <2>1 DEF Apart
<1> QED
  BY <1>1, <1>2, <1>8, <1>11, <1>13, <1>14 DEF SInv

(* What a capture returns is older than the next evaluation.               *)
LEMMA CapturedIsOld ==
  ASSUME WInv, Captured
  PROVE  \A j, k \in Var : <<"buf", j, tick + 1>> # jit.ret[k]
<1> SUFFICES ASSUME NEW j \in Var, NEW k \in Var
             PROVE  <<"buf", j, tick + 1>> # jit.ret[k]
  OBVIOUS
<1> tick \in Nat
  BY DEF WInv
<1>1. jit.ret[k] = NoBuffer \/ jit.ret[k] \in {"buf"} \X {k} \X (0 .. tick)
  BY DEF Captured
<1>2. jit.ret[k] = NoBuffer \/ jit.ret[k] \in Aged
  BY <1>1, AgedIsOld
<1> QED
  BY <1>2, AgedIsOld

(* The capture stays what it was while evaluations go on.                  *)
LEMMA CapturedStays ==
  ASSUME WInv, Captured, UNCHANGED <<prog, jit>>, tick' \in Nat, tick <= tick'
  PROVE  Captured'
<1> tick \in Nat
  BY DEF WInv
<1>1. 0 .. tick \subseteq 0 .. tick'
  OBVIOUS
<1>2. Invariant' = Invariant
  BY DEF Invariant, Unchanged
<1> QED
  BY <1>1, <1>2 DEF Captured

(* An execute begins with new buffers, whatever became of the last one.    *)
LEMMA ExecuteSInv ==
  ASSUME WInv, Captured, Execute
  PROVE  SInv'
<1> DEFINE g == [b \in {outer'[j] : j \in Var} |-> outerRef'[b[2]]]
<1>1. /\ tick' = tick + 1
      /\ outer' = [j \in Var |-> <<"buf", j, tick + 1>>]
      /\ outerRef' = [j \in Var |-> (10 * execute' + j) % Modulus]
      /\ heap' = Overwrite(heap, g)
      /\ phase' = "outer" /\ round' = 0
      /\ UNCHANGED <<prog, jit>>
  BY DEF Execute
<1>2. WInv' /\ tick \in Nat
  BY ExecuteWInv DEF WInv
<1>3. \A j \in Var : outer'[j] = <<"buf", j, tick + 1>>
  BY <1>1
<1>4. \A j \in Var : outer'[j] \in DOMAIN g /\ g[outer'[j]] = outerRef'[j]
  BY <1>3
<1> HIDE DEF g
<1>5. \A j \in Var : outer'[j] \in DOMAIN heap' /\ heap'[outer'[j]] = outerRef'[j]
  <2> SUFFICES ASSUME NEW j \in Var
               PROVE  outer'[j] \in DOMAIN heap' /\ heap'[outer'[j]] = outerRef'[j]
    OBVIOUS
  <2>1. /\ outer'[j] \in DOMAIN Overwrite(heap, g)
        /\ Overwrite(heap, g)[outer'[j]] = g[outer'[j]]
    BY <1>4, OverwriteGives
  <2> QED
    BY <1>1, <1>4, <2>1
<1>6. Holds(outer, outerRef)'
  <2>1. outer' \in [Var -> Aged']
    <3>1. \A j \in Var : <<"buf", j, tick + 1>> \in Aged'
      BY <1>1, <1>2 DEF Aged
    <3> QED
      BY <1>1, <3>1
  <2>2. [j \in Var |-> heap'[outer'[j]]] = outerRef'
    BY <1>1, <1>5
  <2> QED
    BY <1>5, <2>1, <2>2 DEF Holds, Look
<1>7. Apart(outer)'
  BY <1>1, <1>3, CapturedIsOld DEF Apart
<1>8. Captured'
  BY <1>1, <1>2, CapturedStays
<1> QED
  BY <1>1, <1>2, <1>6, <1>7, <1>8 DEF SInv

(* A loop is entered with variables of its surroundings, which are apart   *)
(* from its capture.                                                       *)
LEMMA EnterSInv ==
  ASSUME SInv, Enter
  PROVE  SInv'
<1>1. /\ phase = "outer" /\ phase' = "inner"
      /\ round < IF prog.nested THEN MaxRounds ELSE 1
      /\ round' = round + 1
      /\ inner' = [j \in Var |-> outer[prog.init[j]]]
      /\ innerRef' = [j \in Var |-> outerRef[prog.init[j]]]
      /\ UNCHANGED <<prog, tick, outer, outerRef, heap, jit>>
  BY DEF Enter
<1>2. WInv' /\ tick \in Nat /\ round \in Nat /\ prog.init \in [Var -> Var]
  BY EnterWInv, Bodies DEF SInv, WInv
<1>3. prog.nested \/ round = 0
  BY <1>1, <1>2
<1>4. Apart(outer)
  BY <1>1, <1>3 DEF SInv
<1>5. Holds(outer, outerRef)
  BY <1>1 DEF SInv
<1>6. Holds(outer, outerRef)'
  BY <1>1, <1>5 DEF Holds, Look, Aged
<1>7. Holds(inner, innerRef)'
  <2>1. Aged' = Aged
    BY <1>1 DEF Aged
  <2>2. inner' \in [Var -> Aged']
    BY <1>1, <1>2, <1>5, <2>1 DEF Holds
  <2>3. \A j \in Var : inner'[j] \in DOMAIN heap'
    BY <1>1, <1>2, <1>5 DEF Holds
  <2>4. \A j \in Var : heap[outer[j]] = outerRef[j]
    BY <1>5 DEF Holds, Look
  <2>5. [j \in Var |-> heap'[inner'[j]]] = innerRef'
    BY <1>1, <1>2, <2>4
  <2> QED
    BY <2>2, <2>3, <2>5 DEF Holds, Look
<1>8. Captured'
  BY <1>1, <1>2, CapturedStays DEF SInv
<1>9. Apart(outer)'
  BY <1>1, <1>4 DEF Apart
<1>10. \A i \in Invariant' : \A k \in Var : inner'[i] # jit'.ret[k]
  <2>1. Invariant' \subseteq Var
    BY DEF Invariant, Unchanged
  <2> QED
    BY <1>1, <1>2, <1>4, <2>1 DEF Apart
<1> QED
  BY <1>1, <1>2, <1>6, <1>7, <1>8, <1>9, <1>10 DEF SInv

(* The rest of the outer body is computed from both states; of the results *)
(* of the inner loop it passes on nothing that the loop will write.        *)
LEMMA LeaveSInv ==
  ASSUME SInv, Leave, PassesNothingCarriedOn(prog)
  PROVE  SInv'
<1> DEFINE O == Interpret(prog.outer, outer, Look(heap, outer))
           I == Interpret(prog.outer, inner, Look(heap, inner))
           made == [b \in DOMAIN O.made |-> OuterOutput(b[2], O.made, I.made)[b]]
           h == Overwrite(heap, made)
           ref(j) == Apply(j, prog.outer[j], OuterOutput(j, outerRef, innerRef))
<1>1. /\ phase = "inner" /\ phase' = "outer" /\ tick' = tick + 1
      /\ outer' = [j \in Var |-> OuterOutput(j, O.state, I.state)[j]]
      /\ heap' = Free(h, {outer', jit.ret})
      /\ outerRef' = [j \in Var |-> ref(j)]
      /\ UNCHANGED <<prog, round, jit>>
  BY DEF Leave
<1>2. /\ WInv' /\ tick \in Nat /\ round \in Nat /\ round > 0
      /\ prog.outer \in [Var -> Output]
      /\ \A j \in Var : prog.outer[j].op = "pass" => \E i \in Var : prog.outer[j].from = {i}
  BY <1>1, LeaveWInv, Bodies DEF SInv, WInv
<1>3. Holds(outer, outerRef) /\ Holds(inner, innerRef)
  BY <1>1 DEF SInv
<1>4. Look(heap, outer) = outerRef /\ Look(heap, inner) = innerRef
  BY <1>3 DEF Holds
<1>5. \A j \in Var : /\ PassedOrMade(prog.outer, outer, heap, j)
                     /\ PassedOrMade(prog.outer, inner, heap, j)
  BY <1>2, <1>3, InterpretedIsThere DEF Holds
<1>6. /\ DOMAIN O.made = {<<"buf", j, tick + 1>> : j \in Calculated(prog.outer)}
      /\ Calculated(prog.outer) \subseteq Var
  BY DEF Interpret, Calculated
<1>7. \A b \in Aged : b \notin DOMAIN made
  BY <1>2, <1>6, AgedIsOld
(* What output j is: passed on of one of the states, or made.              *)
<1>8. ASSUME NEW j \in Var
      PROVE  \/ /\ prog.outer[j].op = "pass"
                /\ \E i \in Var : /\ prog.outer[j].from = {i}
                                  /\ outer'[j] = OuterOutput(j, outer, inner)[i]
                /\ outer'[j] \in Aged
                /\ outer'[j] \in DOMAIN heap
                /\ heap[outer'[j]] = ref(j)
             \/ /\ outer'[j] = <<"buf", j, tick + 1>>
                /\ outer'[j] \in DOMAIN made
                /\ made[outer'[j]] = ref(j)
  <2>1. prog.outer[j].op = "pass" \/ j \in Calculated(prog.outer)
    BY <1>2 DEF Calculated, Output
  <2>2. CASE prog.outer[j].of = "outer"
    <3>1. /\ outer'[j] = O.state[j]
          /\ OuterOutput(j, outer, inner) = outer
          /\ OuterOutput(j, outerRef, innerRef) = outerRef
          /\ OuterOutput(j, O.made, I.made) = O.made
      BY <1>1, <2>2 DEF OuterOutput
    <3>2. \/ /\ prog.outer[j].op = "pass"
             /\ \E i \in Var : prog.outer[j].from = {i} /\ O.state[j] = outer[i]
             /\ O.state[j] \in Aged
             /\ O.state[j] \in DOMAIN heap
             /\ heap[O.state[j]] = ref(j)
          \/ /\ prog.outer[j].op = "calc"
             /\ O.state[j] = <<"buf", j, tick + 1>>
             /\ O.state[j] \in DOMAIN O.made
             /\ O.made[O.state[j]] = ref(j)
      BY <1>4, <1>5, <3>1 DEF PassedOrMade
    <3> HIDE DEF O, I, ref
    <3>3. <<"buf", j, tick + 1>>[2] = j
      OBVIOUS
    <3> QED
      BY <3>1, <3>2, <3>3
  <2>3. CASE prog.outer[j].of # "outer"
    <3>1. /\ outer'[j] = I.state[j]
          /\ OuterOutput(j, outer, inner) = inner
          /\ OuterOutput(j, outerRef, innerRef) = innerRef
          /\ OuterOutput(j, O.made, I.made) = I.made
      BY <1>1, <2>3 DEF OuterOutput
    <3>2. \/ /\ prog.outer[j].op = "pass"
             /\ \E i \in Var : prog.outer[j].from = {i} /\ I.state[j] = inner[i]
             /\ I.state[j] \in Aged
             /\ I.state[j] \in DOMAIN heap
             /\ heap[I.state[j]] = ref(j)
          \/ /\ prog.outer[j].op = "calc"
             /\ I.state[j] = <<"buf", j, tick + 1>>
             /\ I.state[j] \in DOMAIN I.made
             /\ I.made[I.state[j]] = ref(j)
      BY <1>4, <1>5, <3>1 DEF PassedOrMade
    <3>3. DOMAIN I.made = DOMAIN O.made
      BY DEF Interpret
    <3> HIDE DEF O, I, ref
    <3>4. <<"buf", j, tick + 1>>[2] = j
      OBVIOUS
    <3> QED
      BY <3>1, <3>2, <3>3, <3>4
  <2> QED
    BY <2>2, <2>3
<1> HIDE DEF made, ref, O, I
<1>9. ASSUME NEW j \in Var
      PROVE  outer'[j] \in DOMAIN h /\ h[outer'[j]] = ref(j)
  <2>1. CASE outer'[j] \in Aged /\ outer'[j] \in DOMAIN heap /\ heap[outer'[j]] = ref(j)
    <3>1. outer'[j] \notin DOMAIN made
      BY <1>7, <2>1
    <3>2. outer'[j] \in DOMAIN h /\ h[outer'[j]] = heap[outer'[j]]
      BY <2>1, <3>1, OverwriteKeeps
    <3> QED
      BY <2>1, <3>2
  <2>2. CASE outer'[j] \in DOMAIN made /\ made[outer'[j]] = ref(j)
    <3>1. outer'[j] \in DOMAIN h /\ h[outer'[j]] = made[outer'[j]]
      BY <2>2, OverwriteGives
    <3> QED
      BY <2>2, <3>1
  <2> QED
    BY <1>8, <2>1, <2>2
<1> HIDE DEF h
<1>10. ASSUME NEW j \in Var
       PROVE  outer'[j] \in DOMAIN heap' /\ heap'[outer'[j]] = ref(j)
  <2> DEFINE s == outer'
             named == {outer', jit.ret}
  <2>1. s \in named /\ s[j] \in DOMAIN h /\ heap' = Free(h, named)
    BY <1>1, <1>9
  <2> HIDE DEF s, named
  <2>2. s[j] \in DOMAIN heap' /\ heap'[s[j]] = h[s[j]]
    BY <2>1, FreeKeeps
  <2> QED
    BY <1>9, <2>2 DEF s
<1>11. Holds(outer, outerRef)'
  <2>1. Aged \subseteq Aged' /\ \A j \in Var : <<"buf", j, tick + 1>> \in Aged'
    <3>1. 0 .. tick \subseteq 0 .. tick + 1 /\ tick + 1 \in 0 .. tick + 1
      BY <1>2
    <3> QED
      BY <1>1, <3>1 DEF Aged
  <2>2. \A j \in Var : outer'[j] \in Aged'
    BY <1>8, <2>1
  <2>3. outer' \in [Var -> Aged']
    BY <1>1, <2>2
  <2>4. [j \in Var |-> heap'[outer'[j]]] = outerRef'
    BY <1>1, <1>10
  <2> QED
    BY <1>10, <2>3, <2>4 DEF Holds, Look
<1>12. Captured'
  BY <1>1, <1>2, CapturedStays DEF SInv
<1>13. prog.nested => Apart(outer)'
  <2> SUFFICES ASSUME prog.nested, NEW j \in Var, NEW k \in Var
               PROVE  outer'[j] # jit.ret[k]
    BY <1>1 DEF Apart
  <2>1. CASE outer'[j] = <<"buf", j, tick + 1>>
    BY <2>1, CapturedIsOld DEF SInv
  <2>2. ASSUME prog.outer[j].op = "pass", NEW i \in Var, prog.outer[j].from = {i},
               outer'[j] = OuterOutput(j, outer, inner)[i]
        PROVE  outer'[j] # jit.ret[k]
    <3>1. CASE prog.outer[j].of = "outer"
      BY <1>1, <2>2, <3>1 DEF OuterOutput, SInv, Apart
    <3>2. CASE prog.outer[j].of # "outer"
      <4>1. prog.outer[j].of = "inner"
        BY <1>2, <3>2 DEF Output
      <4>2. i \in Invariant
        BY <2>2, <4>1 DEF PassesNothingCarriedOn, Invariant
      <4>3. outer'[j] = inner[i]
        BY <2>2, <3>2 DEF OuterOutput
      <4> QED
        BY <1>1, <4>2, <4>3 DEF SInv
    <3> QED
      BY <3>1, <3>2
  <2> QED
    BY <1>8, <2>1, <2>2
<1> QED
  BY <1>1, <1>2, <1>11, <1>12, <1>13 DEF SInv

(* The execute returns copies; the captured body stays.                    *)
LEMMA FinishSInv ==
  ASSUME SInv, Finish
  PROVE  SInv'
<1>1. phase' = "idle" /\ UNCHANGED <<prog, round, tick, jit>>
  BY DEF Finish
<1>2. WInv' /\ tick \in Nat
  BY FinishWInv DEF SInv, WInv
<1>3. Captured'
  BY <1>1, <1>2, CapturedStays DEF SInv
<1> QED
  BY <1>1, <1>2, <1>3 DEF SInv

(* Nothing is held and nothing captured at first.                          *)
LEMMA InitSInv == Init => SInv
<1> SUFFICES ASSUME Init PROVE SInv
  OBVIOUS
<1>1. WInv
  BY InitWInv
<1>2. round = 0 /\ phase = "idle" /\ jit.count = 0 /\ jit.ret = NoState
  BY DEF Init
<1>3. Captured
  BY <1>2 DEF Captured, NoState
<1> QED
  BY <1>1, <1>2, <1>3 DEF SInv

(* No step, and the program did not end: what was right stays right.       *)
LEMMA StutterSInv ==
  ASSUME SInv, UNCHANGED vars
  PROVE  SInv'
<1>1. UNCHANGED <<prog, phase, round, tick, outer, inner, outerRef, innerRef, heap, jit>>
  BY DEF vars
<1>2. WInv'
  BY NextWInv DEF SInv
<1>3. WInv /\ Captured /\ tick \in Nat
  BY DEF SInv, WInv
<1>4. Invariant' = Invariant /\ Captured' /\ (Apart(outer)' = Apart(outer))
  BY <1>1, <1>3, CapturedStays DEF Invariant, Unchanged, Apart
<1>5. Holds(inner, innerRef)' = Holds(inner, innerRef)
      /\ Holds(outer, outerRef)' = Holds(outer, outerRef)
  BY <1>1 DEF Holds, Look, Aged
<1> QED
  BY <1>1, <1>2, <1>4, <1>5 DEF SInv

(* What is right until a loop is torn, and a torn loop holds no capture.   *)
GivenUp == jit.mode = "interpret" /\ jit.ret = NoState

LInv ==
  /\ WInv
  /\ torn => GivenUp
  /\ PassesNothingCarriedOn(prog) /\ ~torn => SInv

(* A loop that was given up without a capture stays so.                    *)
LEMMA NextGivenUp ==
  ASSUME LInv, Next
  PROVE  torn' => GivenUp'
<1>1. CASE JitStep
  BY <1>1 DEF JitStep, InLoop, LInv, GivenUp
<1>2. CASE FailedStep
  <2>1. jit' = [jit EXCEPT !.mode = "interpret", !.ret = NoState]
    BY <1>2 DEF FailedStep
  <2>2. NoState' = NoState
    BY DEF NoState
  <2> QED
    BY <2>1, <2>2 DEF LInv, WInv, GivenUp
<1>3. CASE Execute
  BY <1>3 DEF Execute
<1>4. CASE Enter \/ InterpretedStep \/ Leave \/ Finish \/ Done
  <2>1. UNCHANGED <<jit, torn>>
    BY <1>4 DEF Enter, InterpretedStep, Leave, Finish, Done, vars
  <2>2. NoState' = NoState
    BY DEF NoState
  <2> QED
    BY <2>1, <2>2 DEF LInv, GivenUp
<1> QED
  BY <1>1, <1>2, <1>3, <1>4 DEF Next

(* Every step keeps the invariant: an execute makes good what a failure had*)
(* torn, and no other step does or has to.                                 *)
LEMMA NextLInv ==
  ASSUME LInv, [Next]_vars
  PROVE  LInv'
<1>1. CASE UNCHANGED vars
  <2>1. UNCHANGED <<prog, torn, jit>>
    BY <1>1 DEF vars
  <2>2. WInv' /\ NoState' = NoState
    BY <1>1, NextWInv DEF LInv, NoState
  <2>3. PassesNothingCarriedOn(prog)' = PassesNothingCarriedOn(prog)
    BY <2>1 DEF PassesNothingCarriedOn, Unchanged
  <2> QED
    BY <1>1, <2>1, <2>2, <2>3, StutterSInv DEF LInv, GivenUp
<1>2. CASE Next
  <2>1. WInv' /\ (torn' => GivenUp')
    BY <1>2, NextWInv, NextGivenUp DEF LInv
  <2>2. prog' = prog
    BY <1>2 DEF Next, vars, Execute, Enter, JitStep, InterpretedStep, FailedStep, InLoop,
                Leave, Finish, Done
  <2>3. PassesNothingCarriedOn(prog)' = PassesNothingCarriedOn(prog)
    BY <2>2 DEF PassesNothingCarriedOn, Unchanged
  <2>4. ASSUME PassesNothingCarriedOn(prog), ~torn' PROVE SInv'
    <3>1. CASE Execute
      <4>1. WInv /\ Captured
        <5>1. CASE torn
          BY <5>1 DEF LInv, GivenUp, Captured, NoState
        <5>2. CASE ~torn
          BY <2>4, <5>2 DEF LInv, SInv
        <5> QED
          BY <5>1, <5>2
      <4> QED
        BY <3>1, <4>1, ExecuteSInv
    <3>2. CASE ~Execute
      <4>1. ~torn
        BY <1>2, <2>4, <3>2 DEF Next, Enter, JitStep, InterpretedStep, FailedStep, Leave,
                                Finish, Done, vars
      <4>2. SInv
        BY <2>4, <4>1 DEF LInv
      <4>3. CASE Done
        BY <4>2, <4>3, StutterSInv DEF Done
      <4> QED
        BY <1>2, <2>4, <3>2, <4>2, <4>3, JitStepSInv, InterpretedStepSInv, FailedStepSInv,
           EnterSInv, LeaveSInv, FinishSInv DEF Next
    <3> QED
      BY <3>1, <3>2
  <2> QED
    BY <2>1, <2>3, <2>4 DEF LInv
<1> QED
  BY <1>1, <1>2

(* Executable._run_while: for all bodies, numbers of variables, iterations,*)
(* rounds, executes and failures, wherever among its kernels a step fails, *)
(* what a loop that is captured, replayed and perhaps given up reads is    *)
(* what interpretation of the same bodies would have - but for a replay    *)
(* that failed after it had written its own state, until the execute ends, *)
(* and outer bodies that pass on what their inner loop carries.            *)
THEOREM LoopsAreInterpreted == Spec => []WrongInTwoWays
<1>1. Init => LInv
  <2> SUFFICES ASSUME Init PROVE LInv
    OBVIOUS
  <2>1. SInv /\ torn = FALSE
    BY InitSInv DEF Init
  <2> QED
    BY <2>1 DEF LInv, SInv
<1>2. LInv /\ [Next]_vars => LInv'
  BY NextLInv
<1>3. LInv => WrongInTwoWays
  BY DEF LInv, SInv, WrongInTwoWays, StateIsInterpreted, Holds
<1> QED
  BY <1>1, <1>2, <1>3, PTL DEF Spec
================================================================================
