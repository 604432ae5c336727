----------------------------- MODULE Executable ------------------------------
(***************************************************************************)
(* A compiled graph in the worker: capture, replay, segments, and the      *)
(* buffers all of them share.                                              *)
(*                                                                         *)
(* A graph without runtime scalars is one TinyJit: two dummy calls capture *)
(* it at compile time, and every execute replays it.  A graph with a       *)
(* `while` or a dynamic slice is cut into segments: the maximal runs of    *)
(* jit-safe nodes are a TinyJit each, captured by the first executes, and  *)
(* the nodes between them are interpreted.  A segment whose capture or     *)
(* replay raises is interpreted from then on.  A reduce whose function has *)
(* a dynamic start is kept out of segments, but does not make its graph    *)
(* an eager one; alone in a graph it breaks the capture.                   *)
(*                                                                         *)
(* What can go wrong is in the buffers.  A replay writes the buffers of    *)
(* its capture again and returns them again, a movement operation shares   *)
(* its source's buffer, results are handles a program keeps and passes to  *)
(* later executes.  A buffer is named by the id that was computed into it, *)
(* its role and the run that made it; its content is the set of operations *)
(* and inputs (with the run that supplied them) it was computed from.      *)
(*                                                                         *)
(* Ids are numbers in topological order, inputs and constants first.  The  *)
(* code interprets lazily; here it is done at once, which is the same      *)
(* because no buffer that a run can still read is written twice in it.     *)
(***************************************************************************)
EXTENDS Naturals, FiniteSets

CONSTANTS
  Input, Const, Node,   \* ids of the graph
  Graphs,               \* graphs a run looks at: kind, ins, outs
  MaxExecutes,          \* bound: executes
  MaxFailures,          \* bound: captures or replays that raise
  MaxKept,              \* bound: handles the program holds
  Views,                \* inputs may be different views of one buffer
  NoBuffer

Id == Input \cup Const \cup Node
Role == {"buf", "arg", "copy", "out", "kept"}

(* An id is a position: inputs and constants have theirs, the nodes follow  *)
(* one another in the order of the node list.                              *)
ASSUME IdAssumption ==
  /\ \E m \in Id : Id \subseteq 1 .. m
  /\ \E first, last \in Node : Node = first .. last
  /\ Input # {} /\ Input \cap Const = {} /\ (Input \cup Const) \cap Node = {}

WellFormed(g) ==
  /\ g.kind \in [Node -> {"op", "view", "eager", "hidden"}]
  /\ g.ins \in [Node -> SUBSET Id]
  /\ \A n \in Node : \A i \in g.ins[n] : i < n
  /\ \A n \in Node : g.kind[n] = "view" => \E i \in Id : g.ins[n] = {i}
  /\ g.outs \subseteq Id

ASSUME NoBufferAssumption == NoBuffer \notin Id \X Role \X Nat
ASSUME GraphAssumption == \A g \in Graphs : WellFormed(g)
ASSUME BoundAssumption == MaxExecutes \in Nat /\ MaxFailures \in Nat /\ MaxKept \in Nat
                          /\ Views \in BOOLEAN

Whole == 0                    \* the TinyJit of a whole graph

VARIABLES
  graph,      \* the graph that was compiled
  validate,   \* validate_capture
  run,        \* calls of the graph so far: dummy calls, then executes
  phase,      \* what the worker is doing
  pos,        \* the plan item _eval_segments has come to
  given,      \* ghost: contents of the inputs of this run
  object,     \* which inputs are one Tensor object
  env,        \* buffers of the ids that are defined
  heap,       \* contents of buffers
  jit,        \* the TinyJit objects
  outs,       \* buffers of the results of this run
  kept,       \* buffers behind the handles the program holds
  failures

vars == <<graph, validate, run, phase, pos, given, object, env, heap, jit, outs,
          kept, failures>>

End == 1 + CHOOSE m \in Node : \A n \in Node : n <= m

-----------------------------------------------------------------------------
(* The graph.                                                              *)

RequiresEager(n) == graph.kind[n] = "eager"           \* while, dynamic slices
Eager(n) == RequiresEager(n) \/ graph.kind[n] = "hidden"    \* not _node_jit_safe
Static == \A n \in Node : ~RequiresEager(n)

(* Both evaluations below follow the topological order of the ids.         *)
Origin(n) == CHOOSE i \in graph.ins[n] : TRUE         \* the source of a view

(* Buffers after the nodes S were evaluated over e in run r.               *)
Where(S, e, r) ==
  LET w[i \in Id] == IF i \notin S THEN e[i]
                     ELSE IF graph.kind[i] = "view" THEN w[Origin(i)]
                     ELSE <<i, "buf", r>>
  IN  w

Content(h, b) == IF b \in DOMAIN h THEN h[b] ELSE {}

(* What node i makes of the values v.                                      *)
Apply(i, v) == {<<i, 0>>} \cup UNION {v[j] : j \in graph.ins[i]}

(* Values of the ids after the nodes S were evaluated over base.           *)
Evaluate(S, base) ==
  LET v[i \in Id] == IF i \notin S THEN base[i]
                     ELSE IF graph.kind[i] = "view" THEN v[Origin(i)]
                     ELSE Apply(i, v)
  IN  v

(* The same over the contents h of the buffers e.                          *)
Values(S, e, h) == Evaluate(S, [i \in Id |-> Content(h, e[i])])

(* What the outputs should hold: the graph interpreted from its inputs.    *)
Expected == Evaluate(Node, [i \in Id |-> IF i \in Input THEN given[i] ELSE {<<i, 0>>}])

Overwrite(f, g) ==
  [b \in DOMAIN f \cup DOMAIN g |-> IF b \in DOMAIN g THEN g[b] ELSE f[b]]

Constant(i) == <<i, "buf", 0>>

Fresh == [count |-> 0, mode |-> "jit", at |-> 0, ret |-> [i \in Id |-> NoBuffer]]

Init ==
  /\ graph \in Graphs
  /\ validate \in BOOLEAN
  /\ run = 0
  /\ phase = IF Static THEN "compile" ELSE "idle"
  /\ pos = End
  /\ given = [i \in Input |-> {}]
  /\ object = [i \in Input |-> i]
  /\ env = [i \in Id |-> NoBuffer]
  /\ heap = [b \in {Constant(i) : i \in Const} |-> {<<b[1], 0>>}]
  /\ jit = [k \in Node \cup {Whole} |-> Fresh]
  /\ outs = [i \in Id |-> NoBuffer]
  /\ kept = {}
  /\ failures = 0

-----------------------------------------------------------------------------
(* The plan of an eager graph.  An item is named by its first node.        *)

Heads == {n \in Node : Eager(n) \/ n - 1 \notin Node \/ Eager(n - 1)}
Item(h) == IF Eager(h) THEN {h}
           ELSE {n \in Node : n >= h /\ \A m \in h .. n : ~Eager(m)}
NextItem(h) == IF \E n \in Heads : n > h
               THEN CHOOSE n \in Heads : n > h /\ \A m \in Heads : m > h => n <= m
               ELSE End

AfterOutputs(h) == graph.outs                         \* mutant of After
(* Ids needed strictly after an item.                                      *)
After(h) ==
  graph.outs \cup UNION {graph.ins[n] : n \in {m \in Node : \A i \in Item(h) : m > i}}

InputIds(h) == (UNION {graph.ins[n] : n \in Item(h)}) \ (Item(h) \cup Const)
OutputIds(h) == Item(h) \cap After(h)

-----------------------------------------------------------------------------
(* TinyJit.  The first call runs the function, the second captures it, the *)
(* later ones run the captured kernels again: on the arguments of the      *)
(* call, into the buffers of the capture.  What the function returned      *)
(* without computing it is returned as it was at the capture.  Two         *)
(* arguments in one buffer are rejected.                                   *)

Duplicates(args) == \E i, j \in DOMAIN args : i # j /\ args[i] = args[j]

InTrace(args) ==
  [i \in Id |-> IF i \in DOMAIN args THEN args[i]
                ELSE IF i \in Const THEN Constant(i) ELSE NoBuffer]

Computed(S, b) == b[1] \in S /\ b[2] = "buf"

ReturnAsIs(S, b, i) == b                              \* mutant of SegmentReturn
(* fn of _segment_step: an output realized in the trace is cloned.         *)
SegmentReturn(S, b, i) == IF Computed(S, b) THEN b ELSE <<i, "copy", run>>

ReturnContiguous(b, i) ==                             \* mutant of GraphReturn
  IF Computed(Node, b) THEN <<i, "out", run>> ELSE b
(* _graph_fn: contiguous(), or a clone where that does nothing.            *)
GraphReturn(b, i) == <<i, "out", run>>

Return(k, S, w, ids) ==
  [i \in Id |-> IF i \notin ids THEN NoBuffer
                ELSE IF k = Whole THEN GraphReturn(w[i], i)
                ELSE SegmentReturn(S, w[i], i)]

Operations(S, r) == {<<n, "buf", r>> : n \in {m \in S : graph.kind[m] # "view"}}

(* A call of jit k over the nodes S with contents h: what it returns, and  *)
(* what it writes.                                                         *)
Call(k, S, args, ids, h) ==
  LET e == InTrace(args)
      replay == jit[k].count = 2
      r == IF replay THEN jit[k].at ELSE run
      ret == IF replay THEN jit[k].ret ELSE Return(k, S, Where(S, e, run), ids)
      copies == {ret[i] : i \in ids} \cap (Id \X {"copy", "out"} \X {r})
      v == Values(S, e, h)
  IN  [ret |-> ret, writes |-> [b \in Operations(S, r) \cup copies |-> v[b[1]]]]

CalledAgain(k, ret) ==                                \* mutant of Called
  [jit EXCEPT ![k].count = @ + 1, ![k].at = run, ![k].ret = ret]
Called(k, ret) ==
  [jit EXCEPT ![k].count = IF @ = 2 THEN 2 ELSE @ + 1,
              ![k].at = IF jit[k].count = 1 THEN run ELSE @,
              ![k].ret = IF jit[k].count = 1 THEN ret ELSE @]

(* Arguments that were cloned, and what the clones hold.                   *)
Clones(args) ==
  [b \in {args[i] : i \in DOMAIN args} \cap (Id \X {"arg"} \X {run}) |->
     Content(heap, env[b[1]])]

-----------------------------------------------------------------------------
(* Compiling a static graph: Executable._capture.                          *)

Supply(i, r) == <<i, "buf", r>>
Supplied(r) == [b \in {Supply(i, r) : i \in Input} |-> {<<b[1], r>>}]

CompileRuns == IF ~Static THEN 0 ELSE IF validate THEN 3 ELSE 2

Dummies ==
  /\ phase = "compile"
  /\ run' = run + 1
  /\ heap' = Overwrite(heap, Supplied(run'))
  /\ given' = [i \in Input |-> {<<i, run'>>}]
  /\ object' = [i \in Input |-> i]
  /\ env' = [i \in Id |-> IF i \in Input THEN Supply(i, run')
                          ELSE IF i \in Const THEN Constant(i) ELSE NoBuffer]
  /\ phase' = "whole"
  /\ UNCHANGED <<graph, validate, pos, jit, outs, kept, failures>>

RightOutputs == \A i \in graph.outs : Content(heap, outs[i]) = Expected[i]

(* A third dummy call is compared with the graph function itself.          *)
Captured ==
  /\ phase = "reply"
  /\ run <= CompileRuns
  /\ phase' = IF run = 3 /\ ~RightOutputs THEN "compile_error"
              ELSE IF run = CompileRuns THEN "idle" ELSE "compile"
  /\ UNCHANGED <<graph, validate, run, pos, given, object, env, heap, jit, outs,
                 kept, failures>>

-----------------------------------------------------------------------------
(* An execute: cmd_execute, Executable.run, _graph_fn.                     *)

(* Buffers of the inputs: uploads, but for one handle the program holds or *)
(* one upload that is passed for every input of a set.                     *)
Sources(r) ==
  {[i \in Input |-> IF i \in shared THEN b ELSE Supply(i, r)] :
     shared \in SUBSET Input, b \in kept \cup {Supply(i, r) : i \in Input}}

(* Without Views two inputs in one buffer are one handle passed twice.     *)
Execute ==
  /\ phase = "idle"
  /\ run < CompileRuns + MaxExecutes
  /\ run' = run + 1
  /\ heap' = Overwrite(heap, Supplied(run'))
  /\ \E source \in Sources(run') :
       /\ env' = [i \in Id |-> IF i \in Input THEN source[i]
                               ELSE IF i \in Const THEN Constant(i) ELSE NoBuffer]
       /\ given' = [i \in Input |-> heap'[source[i]]]
       /\ object' \in {o \in [Input -> Input] :
            \A i, j \in Input :
              /\ o[o[i]] = o[i]
              /\ o[i] = o[j] => source[i] = source[j]
              /\ source[i] = source[j] /\ ~Views => o[i] = o[j]}
  /\ phase' = IF Static THEN "whole" ELSE "segments"
  /\ pos' = IF Static THEN End ELSE CHOOSE h \in Heads : \A n \in Heads : h <= n
  /\ UNCHANGED <<graph, validate, jit, outs, kept, failures>>

NeverRepeated(i) == FALSE                             \* mutant of Repeated
(* _dedup remembers Tensor objects.                                        *)
Repeated(i) == \E j \in Input : j < i /\ object[j] = object[i]

Dedup == [i \in Input |-> IF Repeated(i) THEN <<i, "arg", run>> ELSE env[i]]

(* A runtime scalar cannot be read while TinyJit captures: cmd_compile     *)
(* answers with an error.                                                  *)
Breaks == jit[Whole].count = 1 /\ \E n \in Node : Eager(n)

CaptureBreaks ==
  /\ phase = "whole"
  /\ Breaks
  /\ phase' = "compile_error"
  /\ UNCHANGED <<graph, validate, run, pos, given, object, env, heap, jit, outs,
                 kept, failures>>

RunWhole ==
  /\ phase = "whole"
  /\ ~Breaks
  /\ ~Duplicates(Dedup)
  /\ LET h == Overwrite(heap, Clones(Dedup))
         call == Call(Whole, Node, Dedup, graph.outs, h)
     IN  /\ heap' = Overwrite(h, call.writes)
         /\ outs' = call.ret
         /\ jit' = Called(Whole, call.ret)
  /\ phase' = "reply"
  /\ UNCHANGED <<graph, validate, run, pos, given, object, env, kept, failures>>

(* TinyJit raises; the execute is answered with an error.                  *)
Reject ==
  /\ phase = "whole"
  /\ Duplicates(Dedup)
  /\ phase' = "rejected"
  /\ UNCHANGED <<graph, validate, run, pos, given, object, env, heap, jit, outs,
                 kept, failures>>

Rejected ==
  /\ phase = "rejected"
  /\ phase' = "idle"
  /\ UNCHANGED <<graph, validate, run, pos, given, object, env, heap, jit, outs,
                 kept, failures>>

-----------------------------------------------------------------------------
(* _eval_segments, one item of the plan at a time.                         *)

AtItem == phase = "segments" /\ pos # End

Interpret(S, h) ==
  LET v == Values(S, env, h)
  IN  /\ env' = Where(S, env, run)
      /\ heap' = Overwrite(h, [b \in Operations(S, run) |-> v[b[1]]])

EagerItem ==
  /\ AtItem
  /\ Eager(pos)
  /\ Interpret(Item(pos), heap)
  /\ pos' = NextItem(pos)
  /\ UNCHANGED <<graph, validate, run, phase, given, object, jit, outs, kept, failures>>

(* Nothing downstream reads it.                                            *)
DeadSegment ==
  /\ AtItem
  /\ ~Eager(pos)
  /\ OutputIds(pos) = {}
  /\ pos' = NextItem(pos)
  /\ UNCHANGED <<graph, validate, run, phase, given, object, env, heap, jit, outs,
                 kept, failures>>

AtSegment(mode) ==
  /\ AtItem
  /\ ~Eager(pos)
  /\ OutputIds(pos) # {}
  /\ jit[pos].mode = mode
  /\ pos' = NextItem(pos)
  /\ UNCHANGED <<graph, validate, run, phase, given, object, outs, kept>>

InterpretedSegment ==
  /\ AtSegment("interpret")
  /\ Interpret(Item(pos), heap)
  /\ UNCHANGED <<jit, failures>>

AsPassed == [i \in InputIds(pos) |-> env[i]]          \* mutant of SegmentArgs
(* step of _segment_step: a repeated buffer is cloned.                     *)
SegmentArgs ==
  [i \in InputIds(pos) |->
     IF \E j \in InputIds(pos) : j < i /\ env[j] = env[i] THEN <<i, "arg", run>>
                                                         ELSE env[i]]

Contents == Overwrite(heap, Clones(SegmentArgs))
SegmentCall == Call(pos, Item(pos), SegmentArgs, OutputIds(pos), Contents)

JitSegment ==
  /\ AtSegment("jit")
  /\ ~Duplicates(SegmentArgs)
  /\ env' = [i \in Id |-> IF i \in OutputIds(pos) THEN SegmentCall.ret[i] ELSE env[i]]
  /\ heap' = Overwrite(Contents, SegmentCall.writes)
  /\ jit' = Called(pos, SegmentCall.ret)
  /\ UNCHANGED failures

(* The call raises, perhaps after some of its kernels have run: the        *)
(* segment is interpreted, now and from now on.                            *)
FailedSegment ==
  /\ AtSegment("jit")
  /\ \/ Duplicates(SegmentArgs) /\ UNCHANGED failures
     \/ failures < MaxFailures /\ failures' = failures + 1
  /\ jit' = [jit EXCEPT ![pos] = [Fresh EXCEPT !.mode = "interpret"]]
  /\ \E W \in SUBSET DOMAIN SegmentCall.writes :
       Interpret(Item(pos), Overwrite(heap, [b \in W |-> SegmentCall.writes[b]]))

(* _graph_fn copies what it returns.                                       *)
Collect ==
  /\ phase = "segments"
  /\ pos = End
  /\ outs' = [i \in Id |-> IF i \in graph.outs THEN <<i, "out", run>> ELSE NoBuffer]
  /\ heap' = Overwrite(heap, [b \in {outs'[i] : i \in graph.outs} |->
                                Content(heap, env[b[1]])])
  /\ phase' = "reply"
  /\ UNCHANGED <<graph, validate, run, pos, given, object, env, jit, kept, failures>>

-----------------------------------------------------------------------------
(* The reply.  Host mode reads the bytes.  Device mode copies each output  *)
(* into a buffer of its own and registers that.                            *)

NoCopy(i) == outs[i]                                  \* mutant of ImmutableCopy
ImmutableCopy(i) == <<i, "kept", run>>

(* Buffers nobody refers to any more are freed.                            *)
Reachable(k) ==
  k \cup {Constant(i) : i \in Const}
    \cup {jit[s].ret[i] : s \in Node \cup {Whole}, i \in Id}

Free(h, k) == [b \in DOMAIN h \cap Reachable(k) |-> h[b]]

Reply(copies) ==
  /\ phase = "reply"
  /\ Cardinality(kept) + Cardinality(DOMAIN copies) <= MaxKept
  /\ run > CompileRuns
  /\ kept' = kept \cup {copies[i] : i \in DOMAIN copies}
  /\ heap' = Free(Overwrite(heap, [b \in {copies[i] : i \in DOMAIN copies} |->
                                     Content(heap, outs[b[1]])]), kept')
  /\ env' = [i \in Id |-> NoBuffer]
  /\ outs' = [i \in Id |-> NoBuffer]
  /\ phase' = "idle"
  /\ UNCHANGED <<graph, validate, run, pos, given, object, jit, failures>>

ReplyHost == Reply(<<>>)
ReplyDevice == Reply([i \in graph.outs |-> ImmutableCopy(i)])

Done ==
  /\ \/ phase = "idle" /\ run = CompileRuns + MaxExecutes
     \/ phase = "compile_error"
  /\ UNCHANGED vars

Next ==
  \/ Dummies \/ Captured
  \/ Execute \/ RunWhole \/ CaptureBreaks \/ Reject \/ Rejected
  \/ EagerItem \/ DeadSegment \/ InterpretedSegment \/ JitSegment \/ FailedSegment
  \/ Collect
  \/ ReplyHost \/ ReplyDevice
  \/ Done

Spec == Init /\ [][Next]_vars

-----------------------------------------------------------------------------
(* Properties.                                                             *)

(* What an execute is about to return is what the graph, interpreted node  *)
(* by node, makes of the inputs of this very execute: no value missing at  *)
(* a border of segments, none left over from the capture or from an        *)
(* earlier replay, whatever fell back on the way.                          *)
ResultsAreRight == phase = "reply" => RightOutputs

(* "Returned Nx tensors are immutable": no later replay writes a buffer    *)
(* behind a handle the program holds (SPEC.md, invariant 5).               *)
KeptUnchanged == [][\A b \in kept : b \in kept' /\ heap'[b] = heap[b]]_vars

(* A replay is only refused for inputs that are different views of one     *)
(* buffer, and a compile fails only for a scalar that is read while the    *)
(* graph is captured, never for its own validation.                        *)
RejectedForViews ==
  /\ phase = "rejected" =>
       \E i, j \in Input : env[i] = env[j] /\ object[i] # object[j]
  /\ phase = "compile_error" => Breaks

(* A segment is given up only because its capture or replay failed, never  *)
(* for two inputs that share a buffer.                                     *)
FallsBackOnFailure == (\E k \in Node : jit[k].mode = "interpret") => failures > 0

=============================================================================
