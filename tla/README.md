# A TLA+ model of nx_tinygrad

nx_tinygrad runs Nx tensor programs on tinygrad. An Elixir application lowers
`Nx.Defn` expressions to a graph, compiles the graph in a Python worker process
and calls it; tensors stay in the worker, and the BEAM holds handles to them.
This directory models the parts where that split is delicate: who owns a
buffer, which worker incarnation a handle belongs to, how a call gets the answer
to itself and to nothing else, and whether a tensor program means the same on
both sides. Paths below are relative to `src/`.

## 1. The system

| Component | State it keeps | Operations | Talks to |
|---|---|---|---|
| References (`lib/nx_tinygrad/tensor_ref.ex`, `native/nx_tinygrad_ref/src/lib.rs`) | per reference: worker id, generation, handle, `released` flag; two global release queues | `new`, `take`, drop by the collector, `drain_releases`, `drain_executable_releases` | backend, compiler, reaper |
| Eager backend (`backend.ex`) | none of its own: `remote_ref`, generation and handle inside each tensor | `from_binary`, `to_binary`, `backend_deallocate`, `backend_copy`, `backend_transfer`, eager operations | `Worker.request`, `Worker.generation` |
| Compiler (`compiler.ex`) | closures that keep a cache entry and its executable id | `ensure_compiled`, `compile_entry`, `run_one`, output decoding | executable cache, worker |
| Executable cache (`executable_cache.ex`) | ETS table, at most `:executable_cache_size` keys | `get`, `put` (evicts first), `delete`, `clear` | compiler |
| Release reaper (`release_reaper.ex`) | none between ticks | every 50 ms: `drain`, then one release per worker and kind | native queues, worker |
| Worker server (`worker.ex`) | port, generation, `next_req_id`, `pending`, one timer per request | `request`, `info`, `generation`, handshake, `deliver`, timeout, `fail_all` | callers, the port |
| Generations (`generation.ex`) | one atomic counter | `next` | worker server |
| Supervision (`supervisor.ex`, `worker_supervisor.ex`, `worker_ids.ex`) | children, name-to-id map | restart, lazy start, giving up, id assignment | worker server, reaper |
| Python worker (`priv/worker/main.py`, `registry.py`) | tensor and executable registries, `_next_id` | one command at a time: upload, download, compile, execute, run_node, release, ... | the pipe |
| Operations table (`priv/worker/operations.py`, `dtype.py`) | none | one Nx node as a composition of tinygrad calls; numpy carriers | main loop, executables |
| Executables (`priv/worker/executable.py`) | TinyJit captures, cached loop steps and segments | capture, replay, interpret, `_dedup`, while loops | tinygrad |
| Frame codec (`protocol.ex`, `priv/worker/protocol.py`) | none | encode, decode | both ends of the pipe |
| Lowering and IR (`lowering.ex`, `graph.ex`, `priv/worker/graph.py`) | memo of lowered nodes | lower, validate | compiler |
| Tables and wrappers (`device`, `error`, `config`, `stats`, `output_container`, `graph_cache_key`, `nx_tinygrad.ex`) | none, or counters | parsing, formatting | everything |

### How they interact

A client process calls the backend or a compiled closure. The call reads the
worker's generation (one GenServer call), compares it with the reference's, and
then sends its request *by worker name* (a second GenServer call). The server
gives the request an id, writes a frame, starts a timer and keeps the caller in
`pending`. Python answers frames in order. The client wraps the handle it got
in a new reference, labelled with a generation it reads with a third call (an
executable: with the generation read before the compile). When the last term
that holds a reference is collected, the NIF destructor pushes it on a global
queue; every 50 ms the reaper empties the queues, keeps the entries whose
generation is the worker's present one and sends a release. When Python dies,
the server answers its pending callers, stops, and the supervisor starts a new
incarnation: a new generation, empty registries, handles from 1 again.

### What is hard here

* **Check, then act.** Every generation check is one message exchange and every
  use of what was checked another; a restart fits between them, and because
  handles restart at 1 an old handle may be *valid* in the new incarnation.
* **Labels read late.** `Backend.build/4` labels a handle with a generation it
  reads after the reply; `compile_entry/4` with one read before the request.
* **Three parties release.** Explicit deallocation, the collector and the
  reaper race for one reference; the reaper must not release what is in use.
* **Late answers.** A caller that times out is gone, its request is not.
* **Crashes** find calls in the mailbox, in `pending`, in the pipe and in Python.
* **A blocking write.** `Port.command` suspends the server on a full pipe.
* **Replays write where the capture wrote.** A TinyJit returns the same buffers
  at every call; whatever still refers to them sees them change. Movement
  operations share buffers on top of that.
* **A byte stream.** The pipe cuts frames anywhere, field widths wrap, a command
  may fail after it has registered something, and some failures end the process.
* **Several workers, one reaper.** What one worker's exit does to the entries of
  the others; ids two processes ask for at once; a supervisor that gives up.
* **Two meanings of an operation.** Nx and tinygrad differ in clamping, ties,
  rounding, padding identities and layout; complex tensors are pairs of floats.
* **Eventually.** Dropped buffers must be released; calls must end.

`PROJECT.json` lists these hazards at the lines where they bite, with the
properties that cover them and, where none does yet, why.

### What makes each component correct

* References, reaper: released at most once, only when given up, and in the end
  always (`ReleasedOnce`, `ResidentWhileLive`, `DroppedIsReleased`).
* Backend, compiler, cache: a read returns the bytes of the tensor that was
  asked for, a closure runs its own graph (`ReadsOwnData`,
  `ResidentWhileLive`). The documents promise more, that labels are always
  right and nothing of a dead generation is ever sent (for executables
  `NoStaleExecutableSent`); that does not hold, see section 5.
* Registries: no handle is reused within a generation (`HandlesUnique`);
  whatever is registered has an owner, but for two accidents (`NothingLeaks`).
* Worker server: an answer is the answer to the caller's own call, no call is
  carried out twice (`ImplementsRpc`, `FramesMatch`); nobody waits in vain
  (`EveryOpenCallIsHeld`, `CallsReturn`).
* Frames and the main loop: the worker carries out what was written
  (`NeverMisread`), answers it once and in the right bytes (`OneReplyEach`,
  `BytesSurvive`, `EveryRequestAnswered`), keeps its buffers over errors
  (`ErrorsKeepBuffers`), and ends only for a reason (`EndsForAReason`).
* Supervisor, ids, reaper: one id per name (`OneIdPerName`), no buffer left
  behind but in the four ways `LeaksOnlyByExit` names.
* Operations: every entry of a result is the one Nx defines (`LayoutIsNx`,
  `SelectionIsNx`, `ContractionIsNx`, `ElementsAreNx`, `ComplexIsPairs`).
* Executables: an execute returns what interpretation of its own inputs gives,
  whatever was captured, replayed or given up in between (`ResultsAreRight`,
  `WrongInTwoWays`); results stay as they were (`KeptUnchanged`); nothing
  is refused or given up without need (`RejectedForViews`, `FallsBackOnFailure`).
* Lowering: the graph denotes the expression (`SameValue`), is one the worker
  accepts and can run (`NeverRejected`, `SubGraphsAreClosed`), and repeats no
  work (`LoweredOnce`).

## 2. The modules

```
Handles            the life of handles, one worker name
  MCHandles          values for TLC
  Handles_proofs     for all constants: types, uniqueness of handles; what is read and
                     what stays resident; released once, nothing leaks but by accident
Rpc                what a call promises
WorkerPort         the server, its port and Python: implements Rpc
  MCWorkerPort       values for TLC
  WorkerPort_proofs  open calls are held, frames match, Rpc is implemented
MainLoop           frames, the pipe, the Python process and its commands
  MCMainLoop         the requests TLC sends
  MainLoop_proofs    frames are read as written and answered, bytes come back, for every request
Workers            several workers, their ids, the reaper that serves them all
  MCWorkers          values for TLC
  Workers_proofs     one id per name and what can be left behind, for all constants
Tensors            the tinygrad calls the operations are made of
  Operations         the operation table and run_node
  NxOperations       what Nx promises of each operation, and that it holds
  MCOperations       the nodes TLC asks for
  Tensors_proofs     what the tinygrad calls answer, for every shape
  NxOperations_proofs   layout operations are Nx's, for every node
Executable         capture, replay and segments of a compiled graph
  MCExecutable       the graphs TLC looks at
  Executable_proofs  executes are right and results stay, for every graph
WhileJit           a while loop with a captured body
  MCWhileJit         the loops TLC looks at
  WhileJit_proofs    loops read what interpretation would have, for every loop
Lowering           from an expression to a graph, its validation and evaluation
  MCLowering         the expressions TLC looks at
```

Executable and WhileJit stand beside Handles: what they show is what Handles
assumes, that an execute registers a buffer of its own with the value the graph
makes of its inputs (`Meaning`), and that no later execute changes it.

### Handles

One worker name, any number of clients, references, graphs and incarnations.

| In the model | In the code |
|---|---|
| `gen`, `up` | the Generation counter; the GenServer is registered and past its handshake |
| `table`, `nextId` | `TensorRegistry._buffers`, `ExecutableRegistry._executables`, `_next_id` |
| `inbox` | requests sent to the incarnation and not yet served by Python |
| `refs` | NIF resources: generation, handle, `released` flag (`live` / `taken` / `dropped`), and the ghost fields `origin` (who really made it) and `val` (what the program expects there) |
| `queue` | `RELEASE_QUEUE` and `EXECUTABLE_RELEASE_QUEUE` (the entry's kind tells them apart) |
| `cache` | the ETS table of ExecutableCache |
| `call` | what each client is in the middle of: between check and request, waiting, or holding a reply |
| `reaper` | where `drain/0` stands |

An action is what one process does between two exchanges with another. So
`to_binary/2` is three actions: `ToBinary` (the generation is read and
compared), `Send` (the request goes to whoever is registered under the name by
now), `Return`; and between them anything may happen. `Upload` ... `Release`
are the worker's command handlers, `Crash` is `exit_status` with `fail_all/2`,
`Start` the supervisor's restart. `Put` and `ReplyData` are the reply as the
caller gets it. A caller that timed out is no longer the addressee of its
request (`from` becomes `Nobody`). Contents are abstract values, and
`Meaning[g][d]` is what graph `g` makes of `d`.

A restart may fall anywhere, inside a check-then-act window too: no guard of the
model keeps `Crash` out of one, and a closure may be called at any age. What the
checks of the code are worth is stated with ghosts that no action reads. `seen` in
a call, a request and the reaper is the generation its sender looked at; `origin`
is the incarnation that made a reference or a reply. `Undisturbed(c)` says that
nothing came between: the incarnation that was looked at served the call, and
the label of its tensor, which is what was compared, is that of its maker.
`Overtaken(r)` is a release whose sender looked at another incarnation or at a
wrong label; `strayed` collects the handles such releases hit. `lost` collects
the handles in replies whose caller had given up.

### WorkerPort and Rpc

WorkerPort opens up the request that Handles takes as one message: mailbox,
request ids, `pending`, timers, port, pipe, the frame Python is working on.
`Request` is `Worker.request/5`, `HandleRequest` is `handle_call`, `Deliver` is
`deliver/4`, `HandleTimeout` is `handle_info {:request_timeout, id}`,
`HandleExit` is `exit_status` or an undecodable frame with `fail_all/2`,
`CommandRaises` is `Port.command` on a port that closed while its exit message
is still behind the request in the mailbox. The k-th call of client `c` is the
pair `<<c, k>>`: a frame carries it as its payload, so an answer that reaches
the wrong call is visible.

Rpc is the promise without any of that: calls open, are executed at most once,
and end with their own answer or with a failure. `ImplementsRpc` says WorkerPort
implements it, with the identity as refinement mapping (`calls`, `state`,
`answer`, `executed`).

### Executable

One compiled graph in the worker. The graph is a variable that never changes,
so a run looks at every graph of a set. A graph has nodes that compute, movement
operations that share their source's buffer (`view`), and nodes that cannot be
captured (`eager`: `while`, dynamic slices). A buffer is named by the id that
was computed into it, a role and the run that made it; its content is the set of
everything it was computed from, with the run an input came from, so a value
left over from a capture or an earlier execute never looks like the right one.

| In the model | In the code |
|---|---|
| `run`, `given` | the calls of the graph, dummies of `_capture` included; the inputs of this one (ghost) |
| `env`, `pos` | the `env` of `_eval_segments`, and the plan item it has come to |
| `object` | which inputs are one Python `Tensor` (`_dedup` asks that; TinyJit asks for the buffer) |
| `jit[Whole]`, `jit[n]` | `self._jit`; the cached step of the segment that begins with node `n` |
| `heap`, `outs`, `kept` | contents of device buffers; what `run` returned; what `cmd_execute` registered and the program still holds |

TinyJit itself is not in the repository. `Call` models it from its use: the
first call runs, the second captures, later ones write the captured buffers and
return them, outputs the trace did not compute come back as they were at the
capture, and two arguments in one buffer are refused. The comments at
`executable.py:367-372`, `:619-623` and `:697` state exactly these rules. A call
that raises may have run any part of its kernels (`FailedSegment`).

`RequiresEager` is `_requires_eager`, which decides whether a graph is eager;
`Eager` is the negation of `_node_jit_safe`, which decides what may lie in a
segment. They differ on a `reduce` whose function has a dynamic start (kind
`hidden`): among others it is interpreted, and in a graph without a `while` or a
dynamic slice the capture has to read its scalar. TinyJit cannot (the comments at
`:88` and `:109-111`); `CaptureBreaks` lets the compile fail there.

### WhileJit

One loop with a captured body, on its own or as the first operation of the body
of an outer loop, which is interpreted. A body's outputs are inputs (the same
one: an *invariant*) or computed. Contents are numbers; beside the buffers the
specification keeps `innerRef` and `outerRef`, the state of the plainly
interpreted loop, which is what a loop promises. Conditions are a free choice
that both follow. `PassesNothingCarriedOn` is the class of nested loops the code
is right for: the outer body computes with the results of the inner loop, or passes
on those the inner body leaves as they were. `StepArgs` are the clones of a step, `FixedOutput` the clone
of outputs that the trace does not compute, `FailedStep` the fallback: the step
may raise before any of its kernels, after all of them, or between two, and the
body is then interpreted from the same buffers. `torn` remembers until the next
execute that one of the kernels that did run had written such a buffer.

### Lowering

`to_graph/1` as it is written: a traversal with a threaded state (`ids`,
`next` for the counter, `bind` for `param_bind`, `tuples`, `blobs`), one operator
for each group of its clauses. The operations that lower their operands and add
a node are one operator, `LowerOperation`, which also has the static and dynamic
starts of `slice` and `put_slice`. `Acceptable` is `graph.py`'s `validate`,
`Interpret` the worker's evaluation of a graph with its sub-graphs. `Denote` is
the meaning of the expression itself, with parameters looked up in the scope they
belong to; loops and folds are cut at `Rounds` on both sides alike. The
module uses recursive operators, so nothing in it is proved.

### MainLoop

The wire, in symbols: a fixed-width integer is one symbol, a blob has one for
each byte. `Encode` wraps the blob count as Elixir's bit syntax does
(`protocol.ex:33`); `EncodeRaises` is where `struct.pack` would, over the count of
an answer's blobs or over its length (`protocol.py:114`, `:60`). `ReadChunk`
takes any part of what the pipe holds, `Close` cuts the stream, `ReadPrefix`,
`Undecodable`, `InputEnds` are the ways a packet is read or not, and `Serve` is
one turn of `main`: decode, `Handle`, encode, write. The commands are operators
with the registry effect and the answer. `registry` holds what tinygrad holds,
so that `WireTensor` and `WireNumpy` (the numpy carriers of `dtype.py`) matter:
one dtype is stored as it is, one bitcast, one in pairs. Pairs are joined by
`re + 1j * im` (`dtype.py:114`), which is not the identity on every component:
`RealPart` and `AddZero` are what numpy's product and sum do to zeros, infinities
and NaNs, and leave every other component alone. What comes back from
the worker is a sequence, `replies`: the VM reassembles packets itself.
`CmdRunNode` takes its input where an upload would: an unsupported dtype, a
missing blob or one of a wrong length is an error (`main.py:217-229`). `With` is
the dict assignment of `put`, which would overwrite a buffer of the same id.
`origin` is a ghost: it keeps, for every id ever given out, the dtype and the blob
the buffer was made from (an execute's outputs equal its input, so they have its
blob), and no action reads it. `BytesSurvive` compares every element of every blob
of every answer with it, save the complex ones that are not `Steady`: those that
`re + 1j * im` changes.
`CmdExecute` fails at either output after the first was registered (`main.py:190-195`).

### Workers

Here a call of a running worker is one step, and what matters is which worker,
under which id, and what an exit takes along. `children` and `worker` are the
supervisor's: a start occupies it until the handshake ends, `Restart` counts
against the intensity, `GiveUp` is the supervisor's own end, after which
`init/1` starts nobody (`start_default_worker` is taken as false). `idOf` and
`nameOf` are the two rows `assign` inserts one after the other, so that the
reaper may look between them. `reaper` holds the groups of one `drain/0`: the
call of `Worker.generation` or of the release may exit (`ReaperExits`), and what
the reaper had drained is gone with it. A tensor is made in the order of
`build/4`: the upload, the generation (`Build`), the id, the reference; both
callers of `Worker.generation`, `Build` and `DeallocateEnds`, may exit there
(`GenerationExits`). `lost` collects the resident buffers nobody will release any
more.

### Operations

Tensors defines, in element-wise terms, the tinygrad calls that `operations.py`
uses; it is outside the repository and marked external. Operations has the
functions of `operations.py` as compositions of them, in the code's order:
`_dilate` reshapes, pads, merges and shrinks; `_window_scatter` pools, finds the
last extreme, computes linear indexes and scatters; `_einsum_dot` hands out
letters. NxOperations says what Nx promises, entry by entry, without any of
that. A node is chosen in `Init`, so one run goes over a whole set of nodes.
Starts of slices are static, dynamic, or, with `captured`, what
`_symbolic_while_plan` makes of them. Floats are integers; a division is done
modulo a prime where algebra is the point (solves, complex quotients), and
rounded to `Mantissa` bits where rounding is the point (`_quotient`). Angles
are eighths of a turn; rounding takes every float of `Mantissa` bits. A complex tensor has a last
axis of two; what the worker raises for one (a start read at run time, layouts it
does not know) is refused, and counts as no answer.

## 3. The runs

| Run | Shows | Bounds |
|---|---|---|
| `handles_safe` | `TypeOK`, `ReadsOwnData`, `ResidentWhileLive`, `ReleasedOnce`, restarts anywhere, closures of any age | 2 clients, 3 references, 3 handles, 2 generations, 2 graphs, a cache of 1 |
| `handles_live` | `HandlesUnique`, `NothingLeaks`, `DroppedIsReleased`, `CallsReturn` under FairSpec, restarts anywhere, old closures, an abandoned request | 1 client, 2 references, 2 graphs, a cache of 1 (an eviction, so executables are released too), 2 handles, no symmetry |
| `handles_old_closure` | finding, see section 5 | 1 client, 3 references, 2 handles |
| `port_calls` | `EveryOpenCallIsHeld`, `FramesMatch`, `ImplementsRpc`, `CallsReturn` under every fault | 2 clients, 2 calls each, 2 incarnations, a pipe of 2 frames |
| `port_raise` | finding | 2 clients, 1 call each |
| `main_loop` | `NeverMisread`, `OneReplyEach`, `BytesSurvive`, `EndsForAReason`, `ErrorsKeepBuffers`, `EveryRequestAnswered` under FairSpec | 3 requests of 15 kinds, two of them queued at once, a blob count field of 3 values, request frames of 16 symbols, answers of 23 |
| `workers` | `OneIdPerName`, `LeaksOnlyByExit` | 2 names, 2 processes, 1 restart per period, 3 incarnations, 3 buffers |
| `operations` | `LayoutIsNx`, `SelectionIsNx`, `ContractionIsNx`, `ElementsAreNx`, `ComplexIsPairs` | 925 nodes: the layouts, selections, contractions, complex operations and composed elementwise ones, rank up to 3 (4 with the pair axis), sizes up to 5, a mantissa of 4 bits |
| `exec_replay` | `ResultsAreRight`, `RejectedForViews`, `FallsBackOnFailure`, `KeptUnchanged` | all graphs of 3 nodes over 2 inputs that `MCExecutable` describes, 3 executes, 1 failing replay, 2 kept results |
| `while_replay` | `WrongInTwoWays`, `FallsBackOnFailure` | all loops of 2 variables on their own, and all in an outer loop that passes on only what the inner one leaves as it was; 3 iterations, 2 rounds, 2 executes, 1 step that fails at any of its kernels |
| `lowering` | `SameValue`, `NeverRejected`, `SubGraphsAreClosed`, `LoweredOnce` | about 2000 expressions: up to three nested scopes of blocks and loops with two parameters each, and one scope with conditionals, reduces, slices and literals; 3 inputs, 2 rounds |
| `while_nested` | finding | the outer loop passes results on; 3 rounds, 1 execute |

**Why the bounds are enough.** Every hazard involves at most two users of one
handle number and one restart: a reference of the old generation and one of the
new (two references, two handles, two generations), and one more reference so
that an input, an executable and a result coexist. Two contents and two graphs
that differ on every input make every mix-up visible. `MaxOrphans` of
`handles_live` is one abandoned request, which the others may overtake. `Room` keeps a client from
starting what the bounds could not finish; it disables nothing else. In
WorkerPort two calls per client let a late answer of the first meet the second,
and two incarnations let an answer of the first meet the other; a pipe of two
frames can be full with the hello or with two requests. Symmetry (clients,
references) is used in safety runs only. A TinyJit is run, captured and replayed
by three calls, so three executes and three iterations reach the first replay of
a segment and of a loop, and the second execute and the second round begin with
a replay. Three nodes are the fewest with a segment on each side of an
uncapturable node; two inputs can share a buffer. A modulus of 251 keeps
contents small; equal residues could hide a difference but never invent one.
Three nested scopes are the fewest in which a scope is left and its surroundings
are not the outermost; every mistake of a binding shows there, and deeper nesting
repeats it. Three requests are an upload, what uses it, and one that comes after
an error; the port takes a second frame while the first, of up to nine symbols
with its prefix (a download, a release, the scalar upload), still lies in the pipe,
and a read may end anywhere. A count field of three values wraps at three blobs,
which three host outputs have; a frame of sixteen symbols is exactly as large as
the complex uploads and smaller than another, and an answer with two complex
outputs is beyond its prefix while one with two small ones is not. The complex
elements show each of the ways in which `re + 1j * im` changes bytes, and one of
them it leaves alone though its real part is a negative zero. Two worker names
give the reaper a group before and a group after the one it exits over, two
processes race for one id, and one restart per period lets the second crash end
the supervisor. The shapes of `operations` have no two equal axes, entries are
all different where a misplaced one must show and few where ties must, and every
permutation of three axes, every set of reduced axes and every start beyond both
ends of an axis is there; more axes or longer ones repeat these cases.

**Deadlock** is checked in every run but those of MainLoop, Operations and Workers:
`Quiescent` and `Done` name the states in which the system may stop. MainLoop ends
with its process, Operations with its answer, and only the bounds stop Workers.

## 4. Fairness

`Handles!FairSpec`: a client in the middle of an operation goes on (the VM
schedules every process), the reaper goes on (its tick is every 50 ms, and it is
supervised), the supervisor restarts the worker, and the worker answers.
Nothing obliges a client to start an operation, the collector to run or the
worker to crash, and a timeout is never forced.

`WorkerPort!FairSpec`: the server handles its mailbox, the supervisor restarts
it, timers expire. Nothing at all is assumed of Python, which may hang on any
frame for ever. `HandshakeFails` is part of the server's fairness because of its
30 s timeout.

`MainLoop!FairSpec`: the Python process runs while it can. No command is assumed
to be written and the pipe may be closed at any moment, or never.

## 5. Findings

Each of these three is a run that violates a sentence of the repository.

| Run | What happens | Against |
|---|---|---|
| `handles_old_closure` | `run_one/2` sends `ctx.executable_id` without comparing a generation (`compiler.ex:203`): a closure called after a restart reaches the new worker with its old id | `docs/architecture.md:49-52` |
| `port_raise` | a request handled after the port closed and before its exit message kills the server without `fail_all/2`: pending callers exit | `worker.ex:11-12` |
| `while_nested` | an outer loop that passes on an earlier result of its inner loop holds a buffer of the inner loop's capture (`executable.py:557` returns it, `:578` keeps the capture); the inner loop's next replay writes it | `executable.py:496-497`, `:588` |

The code leaves more gaps. The passing runs reach each of the following states;
the property named holds because it excepts them, and says that nothing else goes
wrong.

| Gap | Excepted by | Bears on |
|---|---|---|
| between `ensure_fresh!/1` (`backend.ex:132`) and the request the worker restarts: the new incarnation gets the old handle, which may name another tensor there | `Undisturbed` in `ReadsOwnData` | `SPEC.md:20-21` |
| between the reaper's look at the generation (`release_reaper.ex:56`) and its release the worker restarts: the new incarnation releases what the ids name there. `backend_deallocate` has the same window (`backend.ex:64`) | `strayed` in `ResidentWhileLive` | `release_reaper.ex:6-7` |
| between the reply and the generation `build/4` reads for the label (`backend.ex:115`) the worker restarts: a dead handle is labelled as the new worker's, and its release may stray | `Undisturbed`, `strayed` | `docs/architecture.md:49-50` |
| an executable labelled before the compile (`compiler.ex:124`), or made for a caller that had given up (`worker.ex:246`), is never released | `NothingLeaks` | `SPEC.md:28` |
| `drain/0` empties the queue before it asks a group's worker for its generation (`release_reaper.ex:56`); when that call exits, because the worker is starting or held up for 5 s, what was drained for it and for every later group is never released. Three other exits do the same to one buffer, see below | `lost` in `LeaksOnlyByExit` | `SPEC.md:28` |
| with the pipe full and Python hung the server sits in `Port.command` (`worker.ex:123`) and answers no timer | `Suspended` in `CallsReturn` of `port_calls` | `SPEC.md:59-60` |
| the answer is encoded and written outside `Handler.handle` (`main.py:368`): one of 65536 blobs (`protocol.py:114`) or of 4 GiB (`protocol.py:60`) makes `struct.pack` raise, and the worker ends (exit 1) with the request carried out and unanswered | `exit = 1` in `OneReplyEach`, `EndsForAReason` | `docs/protocol.md:24`, `SPEC.md:59-60` |
| a complex element with an infinite or NaN imaginary part comes back with a NaN for its real part, and a negative zero may lose its sign (`dtype.py:114`) | `Steady` in `BytesSurvive` | |
| a later device output that fails leaves the earlier ones registered and unnamed (`main.py:191-195`) | `ErrorsKeepBuffers` | |
| the half is added in the tensor's float type (`operations.py:283`), where the sum rounds: in f32 `8388609.0` becomes `8388610.0` and `0.49999997` becomes `1.0` | `SumSlips` in `ElementsAreNx` | `operations.py:282` |
| two different views of one buffer are different Tensor objects to `_dedup` (`executable.py:704`), and TinyJit refuses the execute | `RejectedForViews` | |
| `_eager` asks `_requires_eager` (`executable.py:260`), which does not look into the function of a `reduce`: the graph goes to TinyJit as a whole, whose trace has to read the scalar | `Breaks` in `RejectedForViews` | `executable.py:257-259` |
| a loop step raises after some of its kernels have run: the body is interpreted from `state` (`executable.py:595`), which is what the capture returned and the replay has partly overwritten; the step's own clones hold what was meant | `torn` in `WrongInTwoWays` | `executable.py:588-589` |

What else the models show:

* A buffer stays behind not only when the reaper exits, but also when an entry is
  drained between the two inserts of its worker's id (`worker_ids.ex:42-45`), when
  the generation call of `backend_deallocate` exits after `take/1` (`backend.ex:64`), and when that of `build/4` exits after an upload
  that succeeded (`backend.ex:115`), where there is no reference yet. In this model
  `LeaksOnlyByExit` says these are the only ways; the process that makes a tensor
  is not killed in it. `SPEC.md:28` ("no unbounded GPU-buffer growth") bears on all
  of them.
* A request of more than `MAX_FRAME_BYTES`, or of 65536 blobs, ends the worker
  (exit 2).
* `pad` with a negative width is cropped by the eager backend
  (`backend.ex:225`) and refused in a compiled graph (`operations.py:416`).
* `all` and `any` with no axes return the entry itself, not 0 or 1
  (`operations.py:353-355`); the nodes checked leave that case out, as an `fft`
  whose length is not the axis's, which raises. A complex `reduce_max` would sum
  (`operations.py:145`), but Nx never asks for one.
* Integer division goes through floats (`operations.py:296`, `:302`) and is
  exact while operands fit the mantissa, which is what `ElementsAreNx` covers.
* An executable cache limit of zero acts as a limit of one.
* `device.ex` and `device.py`, which are to be kept in sync (`device.ex`'s
  moduledoc), take an empty interface or renderer differently; Elixir's `DEV` wins.

## 6. The proofs

TLAPS checks each theorem for every value of the constants: every number of
clients, references, generations and handles, every set of data and graphs and
every `Meaning` (Handles); every set of clients, calls, incarnations and frames
(WorkerPort); every set of names and processes (Workers); every graph, with any
number of executes and of failures (Executable); every loop, on its own or
nested (WhileJit); every set of requests, width of the count and length fields, size of
frame and of pipe, and way of cutting the stream (MainLoop); every node of the
layout, of any rank, sizes, axes and values, real or complex (NxOperations).

| Theorem | Statement | Under |
|---|---|---|
| `TypeCorrect` | `Spec => []TypeOK` (Handles) | every fault |
| `NoHandleReuse` | `Spec => []HandlesUnique` | every fault |
| `OneReleaseEach` | `Spec => []ReleasedOnce` | every fault |
| `OnlyTwoLeaks` | `Spec => []NothingLeaks` | every fault |
| `EveryReadIsRight` | `Spec => []ReadsOwnData` | every fault |
| `LiveIsResident` | `Spec => []ResidentWhileLive` | every fault |
| `OpenCallsAreHeld` | `Spec => []EveryOpenCallIsHeld` (WorkerPort) | every fault |
| `FramesAreTheirCalls` | `Spec => []FramesMatch` | every fault |
| `PortImplementsRpc` | `Spec => ImplementsRpc` | every fault |
| `NamesHaveOneId` | `Spec => []OneIdPerName` (Workers) | every fault |
| `NothingElseLeaks` | `Spec => []LeaksOnlyByExit` | every fault |
| `ExecutesAreRight` | `Spec => []ResultsAreRight` (Executable) | every failure |
| `ReturnedTensorsAreImmutable` | `Spec => KeptUnchanged` | every failure |
| `RefusedForViewsOnly` | `Spec => []RejectedForViews` | every failure |
| `GivenUpOnFailureOnly` | `Spec => []FallsBackOnFailure` | every failure |
| `LoopsFallBackOnFailure` | `Spec => []FallsBackOnFailure` (WhileJit) | every failure |
| `StepsAreNeverRefused` | `Spec => []~Duplicates(StepArgs(inner))` | every failure |
| `LoopsAreInterpreted` | `Spec => []WrongInTwoWays` | every failure, at any kernel |
| `NothingIsMisread` | `Spec => []NeverMisread` (MainLoop) | every cut and close |
| `EachIsAnsweredOnce` | `Spec => []OneReplyEach` | every cut and close |
| `WorkerEndsForAReason` | `Spec => []EndsForAReason` | every cut and close |
| `ErrorsCostNoBuffer` | `Spec => ErrorsKeepBuffers` | every cut and close |
| `BytesComeBack` | `Spec => []BytesSurvive` | every cut and close |
| `LayoutIsRight` | `Spec => []LayoutIsNx` (NxOperations) | every well-formed node |

**Assumptions.** Those of the modules, which TLC evaluates in the runs:
`MeaningAssumption`, `BoundAssumption` and `DistinctAssumption` of Handles,
`NamesAndProcs` of Workers, `PortAssumption` of WorkerPort. Executable assumes graphs
that are well-formed (`GraphAssumption`), and ids that are positions, finitely
many, the nodes one after the other and apart from inputs and constants
(`IdAssumption`), which is how the model numbers what the graph lists; and, like
WhileJit, that `NoBuffer` is not the name of a buffer. MainLoop assumes that the
blobs of a request are sequences of bytes (`RequestAssumption`), and bounds that
are numbers, the count field's at least one (`BoundAssumption`), and of the components
of complex numbers that they have one width and that negative and not finite ones
are told apart (`ComponentAssumption`). NxOperations
assumes of its nodes what `Nx.Shape` checks and computes (`NodesAssumption`): the
declared shape follows from the operands and the attributes, axes exist, permutations
permute, windows fit, and known starts of a slice are clamped; not what the worker
supports, which is the part of `Unsupported`.

### Handles

The inductive invariant comes in layers, each checked by TLC before it was
proved:

* **TInv**. `TypeOK` alone is not inductive: that a reply
  names a handle in range, or that a graph is applied to data, depends on which
  command a request carries and on what its arguments refer to. `Sorted` says
  that of every call and request, `Matching` that a request whose caller waits
  is the only one of that caller and the one it waits for, `CanRestart` that a
  worker that is down has a generation left.
* **UInv**. Uniqueness of the handles of references is not inductive either,
  because a reply still holds the handle a reference is about to take. So:
  handles of the running incarnation, in references and in replies, are below
  the registry's next id, and all of them are pairwise different.
* **SInv**. *FInv*: whoever names a tensor, or a release, has seen the
  generation it carries, whether or not it still is the present one, and an
  executable is used only while the program holds it. *GInv*: whatever is
  queued, grouped or under way to be released was given up and is of the kind
  its command says. *CInv*: requests carry their caller's arguments, and what
  the worker holds under a handle of its own making is what it put there, or
  nothing; nothing only if the handle was given up or is in `strayed`. So a
  release that is not overtaken cannot hit a live buffer: what it names is of
  this incarnation (FInv), given up (GInv), and shares its handle with no live
  reference (UInv). A new content cannot either: its handle is above all that
  are in use (UInv). And the input of a call that nothing came between is under
  its handle, because the worker would otherwise have refused it.
* **OInv**. An outstanding release of a reference is
  in exactly one place, a request on its way, a client between `take/1` and its
  request, a queue, or the reaper's groups, and a reference with one was given
  up. `ReleasedOnce` counts over four places; that the places are disjoint and
  none can be entered twice is the part that says why.
* **LInv**. What a worker holds belongs to somebody or is lost: the kind of a
  reference is the kind of what is under its handle, labels are never ahead of
  the generation, a queue entry the reaper leaves out is of an earlier
  incarnation, a request of the reaper's is the one it waits for, and every entry
  of the table has an owner, was made for nobody, or has a label that is behind
  its maker. A restart empties the table.

### WorkerPort

`IInv` of `WorkerPort_proofs`. *IdsInv*: request ids in `pending`, on both pipes
and in Python's hand are below `next_req_id`, no two pending entries share one,
and a frame whose id is pending carries that entry's call. *PlaceInv*,
*QueuedOnce*, *WrittenOnce*: a call is in the mailbox, in the pipe or carried
out, in one place and once, and what Python works on or has answered is carried
out. *DownInv*: a server that is not in its loop has nothing pending, and one
that is gone has left nothing behind. `EveryOpenCallIsHeld` is the last conjunct.
From these a frame that is delivered answers the caller's own call or nobody, so
each step of WorkerPort is a step of Rpc or a stutter; the refinement mapping is
the identity, and `PortImplementsRpc` takes the actions one by one.

### Workers

`IInv` of `Workers_proofs` has two halves. *IdInv*: the rows of the names are
one-to-one and below the counter, the rows of the ids are their converse, every
reference carries its name's id, and a server half through an assignment has
inserted the name's row and no other process can follow it; `OneIdPerName` alone
says nothing of the id the second insert uses. *GensInv*, *ReaperInv* and
*KeptInv*: nothing is newer than its worker, what a worker holds is of its
incarnation, the reaper's group is one worker's, and the generation it was told
lies between the group's and the worker's present one. So the release of a group
leaves no resident buffer of the group behind: either the generations agree and
it is freed, or the worker has restarted and holds none.

### Executable

The argument of `XInv` is about places. *EnvBehind*: the buffers of the ids the
plan has come past are none that an item at or after `pos` writes, since those
are named by the item's own nodes (`buf`, `copy`) or are clones of arguments
(`arg`). *ComputedRight*: an id that is still read, by an output or by an item to
come, holds its expected value. *CapturesReturn*: a capture returns, for each
output, the buffer of its root (the node a chain of views shares) if the segment
computes that, and a clone of its own otherwise; so a replay writes and returns
the segment's own buffers, with the values of this execute's arguments. A call
that raised midway has then written nothing that is read: the interpretation
that follows starts from contents that agree on every id. *KeptApart*: handles
are in buffers of the role `kept`, of an earlier run, which nothing writes.

`Where` and `Evaluate` are recursive over the graph. What they compute is proved
by an induction over sets: `Numbers` derives from the well-foundedness of `<`
that a set with 0 and closed under successor is all of the numbers, and a
function that satisfies the recursive equation is built up to each id in turn.
From that, `EvaluateAgrees` is the lemma everything rests on: a part of the
graph, evaluated over contents that are right where the part reads, gives what
the whole graph gives.

### WhileJit

*WInv*: no state of a loop and no captured output is a clone. `StepArgs` clones a
repeated argument into a buffer of the clone's own variable, so two arguments
could only coincide if the state already held a clone; since a replay returns
buffers of the capture, that has to be shown of the captures too.

*SInv*, for `WrongInTwoWays`, adds what a replay may overwrite. *Captured*: a
captured output that is a buffer is one that the trace computed, of a variable
that is not an invariant, and once the capture is complete there is one for each
such variable. *Holds*: the state of a loop consists of buffers that are there
and have the contents of the reference. *Apart*: no state of an outer loop is a
captured output while the inner loop may still be replayed, and no invariant of
the inner state ever is. So a replay writes nothing that is read afterwards,
except the inner state, and of that each clone is read before the first write
(`ClonesAreCopies`) and the rest is replaced by what was written. The kernels of a
body are a recursive function over its variables, since a later kernel reads what
an earlier one may have written; `KernelsEquation` and `KernelsCompute` show by
the same induction over sets that, arguments and outputs being apart, they
compute what the body says. `LeaveSInv` is the step that needs
`PassesNothingCarriedOn`: an outer body that passed a captured output on would
break *Apart* there. *LInv* is what holds throughout: *SInv* unless `torn`, and a
torn loop has given up its capture, so that the next execute, whose buffers are
new, establishes *SInv* again (`ExecuteSInv`). `FailedStepSInv` needs that no kernel
which ran before the failure wrote what the step had read (`FirstKernelsLeave`).

### MainLoop

Two arguments meet in `IInv`. The codec: `Starts`, by which `Decode` cuts a frame
into blobs, is recursive over the length table and `FlattenSeq` over the blobs,
so both are first shown to satisfy their equations (`JoinedEquation`,
`StartsAre`) by the same induction over sets. From `LayoutIs`, which says what
each position of a frame holds, `FrameIsRead` follows: with a count equal to the
number of blobs `Decode` returns what was encoded, and with a smaller one it
refuses, because the last blob it knows of ends before the frame does. A count
that wrapped is always smaller.

The stream: `Within(w, at, s)` says that `s` is found at place `at` of `w`. *Stream*
says of a running worker that what it holds and what is in the pipe are found,
one after the other, behind the packets of the requests handled so far (and
behind the prefix, if that was taken), up to the end of all that was written, or
up to anywhere once the port is closed; and that it waits for two symbols or
for exactly the length of the next frame. So a complete prefix is the next
frame's length, a complete body the next frame (`WithinSame`), and
`NeverMisread`, which says nothing of what is not handled yet, is inductive
together with it. *HistoryInv* relates `handled` to `sent` and counts the
answers; *RegistryInv* says that every buffer *Carries* the blob `origin` has for
it, so that every answer's blobs can be framed, and that the ids are below the
next one, so that `put` overwrites none.

The carriers: `Carries(b, made)` says that a buffer is what `wire_tensor` makes of
the elements of a blob of whole elements. `CarrierGivesBack` shows that
`wire_numpy` gives back as many elements of the same size, and the same ones but
for those that are complex and not `Steady`; for a complex array this means that
flattened pairs have the components of element *i* at 2*i* - 1 and 2*i*
(`PairsJoin`), that two halves joined are the element (`HalvesJoin`), and what
`re + 1j * im` does to them (`ComponentsAre`). `ElementsJoin` shows that elements of
one size, joined, are found where they were put, for which the length of the first
*i* joined elements is shown to be *i* times that size. `Fits` is what makes the blob whole: without
`frombuffer`'s own check the last bytes of an odd blob would be lost.

### Operations

A node is answered in one step, so the invariant (`AnsweredInv`: nothing yet, a
refusal, or what `Apply` computed, its shape compared) is no work; the theorem is in
what `Apply` computes, for shapes of every rank.

`Tensors_proofs` brings the folds that define coordinates, sizes and offsets to
recurrences over the axes, by the induction over sets described above.
`PlaceOfOffset` and `OffsetOfPlace` make coordinates and row-major positions
inverse to each other, which is all that `reshape` needs (`ReshapeIs`) and what says
that sizes of one put in anywhere move no entry (`WidenIs`). Each tinygrad call then
has one lemma that says where it finds the entry it puts at a coordinate
(`PermuteIs`, `FlipIs`, `PadWithIs`, `SliceByIs`, `CatIs`); two operands that broadcast
are read where Nx reads them (`MeetIs`), and so are three although tinygrad meets
them two at a time (`StagedIs`).

`NxOperations_proofs` has a lemma per operation. The ones with something to argue:
`_slice`, where a start that is static, read at run time or bound to a Variable is the
place Nx moved the window to (`StartsAre`); `_put_slice`, where a mask padded like
the update tells its zeros from the padding's; `_pad`, which crops or refuses;
`_concatenate` and `_stack`, where the operand an entry comes from is the one whose
span of the axis it falls into (`CatAllIs`). For complex tensors `Named`, `PartIs` and
`PartOf` say that a coordinate of the stored tensor is an entry's and a part's, and
`PartOffset` that parts lie next to each other; each layout operation then moves whole
pairs, because the hidden axis is last, kept by every permutation, of no broadcast,
and whole in every window.

The entries of tensors are integers here, and `Nodes` holds nodes that satisfy
`WellFormed`: what Nx has checked before it hands an operation to a backend.

### Model-checked only

* Liveness (`DroppedIsReleased`, both `CallsReturn`, `EveryRequestAnswered`):
  TLAPS has no ENABLED, and so no reasoning under fairness.
* Of NxOperations: `SelectionIsNx`, `ContractionIsNx`, `ElementsAreNx` and
  `ComplexIsPairs`, for the shapes TLC enumerates. They compare folds over sets of
  entries with folds over sequences of them; each needs inductions of its own like
  those of `Tensors_proofs`, which are not done.
* Lowering: `SameValue`, `NeverRejected`, `SubGraphsAreClosed`, `LoweredOnce`, whose
  expressions and graphs are evaluated by RECURSIVE operators.

## 7. Not modelled, and the abstractions made

* Floating point: the float functions of `operations.py` (`_expm1`, `_log1p`,
  `_erf_inv`, trigonometry, complex `exp` and `abs`), casts and `bitcast`; `sort`
  and `argsort`, which are one tinygrad call. `Meaning` stands for a whole graph
  in Handles, sets of origins in Executable.
* Inspection, formatting, statistics, configuration, device strings: no state
  the properties tell apart. `hello`, `device_info`, `stats` and `synchronize`
  only read.
* Operations with several resident inputs: Handles has one; executions with
  several outputs are in MainLoop only. `backend_copy` and `backend_transfer`
  are compositions of a download and an upload.
* `start_default_worker` and the restart intensity of the top supervisor; a
  suspended server in Workers, which shows as the exits of its callers.
* `info` and `generation` change no modelled state. The caller-side timeout of `GenServer.call` is not modelled; it
  is longer than the server's and concerns the blocked server only.
* The ancestor nodes that compute a symbolic start (`_symbolic_while_plan`; the
  starts themselves are in Operations), `reduce` and `window_reduce` functions, and the fast path of `immutable_copy` (one raw
  copy or one clone: a fresh buffer either way) are not told apart in
  Executable and WhileJit.
* In Lowering, shapes, types and attributes (other than starts), and the errors
  for what is not supported. All clauses of a conditional are evaluated; that a
  loop in one not taken might not end is outside the model, which bounds loops.
* In Handles the server is never suspended and generation calls return at once;
  the pipe and the mailbox are WorkerPort's subject, what a generation call
  that exits leaves behind is Workers'.

## 8. Plan

1. Handles with several outputs.
2. `WhileJit` with symbolic starts, so that a bound Variable and a replay meet.
3. `graph_cache_key.ex` and `output_container.ex` as pure functions: two graphs
   with one key are one graph; a container is rebuilt in the order it was taken apart.
4. `ComplexIsPairs` and `SelectionIsNx` for every node, from the lemmas of `Tensors_proofs`.
