------------------------------- MODULE Handles -------------------------------
(***************************************************************************)
(* The life of remote handles in nx_tinygrad, for one worker name.         *)
(*                                                                         *)
(* A BEAM program holds tensors and compiled closures as NIF references    *)
(* (TensorRef, ExecutableRef): a worker generation and an integer handle.  *)
(* The Python worker keeps the buffers and the executables in two          *)
(* registries whose handles restart at 1 with every incarnation.  Clients  *)
(* (processes calling NxTinygrad.Backend and NxTinygrad.Compiler), the     *)
(* garbage collector, the ReleaseReaper and worker restarts interleave.    *)
(*                                                                         *)
(* One action is one exchange between BEAM processes: a synchronous read   *)
(* of Worker.generation, the sending of one request, the service of one    *)
(* request by the single-threaded worker.  What a process does between two *)
(* exchanges is local to it.  The correlation of replies with requests,    *)
(* the Port and the frames are the subject of module WorkerPort; here a    *)
(* request is a message in one FIFO `inbox`, and a caller that timed out   *)
(* is no longer its addressee.                                             *)
(*                                                                         *)
(* Contents are values of Data (a tensor's bytes) and of Graph (a compiled *)
(* executable); Meaning[g] is what graph g, or an eager operation, does to *)
(* one input.  A release entry or a request names the reference it was     *)
(* made from: the wire form is refs[r].gen and refs[r].handle.             *)
(***************************************************************************)
EXTENDS Naturals, FiniteSets, Sequences

CONSTANTS
  Client,       \* BEAM processes that use tensors and closures
  RefId,        \* names of NIF references
  Data,         \* contents of tensors
  Graph,        \* graphs and eager operations
  Meaning,      \* what a graph computes
  MaxGen,       \* bound: worker incarnations
  MaxId,        \* bound: handles allocated per registry and incarnation
  MaxOrphans,   \* bound: requests in flight whose caller gave up
  CacheLimit,   \* :executable_cache_size
  Reaper, Nobody, NoRef, None

Kind == {"tensor", "executable"}
Value == Data \cup Graph

ASSUME MeaningAssumption == Meaning \in [Graph -> [Data -> Data]]
ASSUME BoundAssumption ==
  /\ MaxGen \in Nat \ {0}
  /\ MaxId \in Nat \ {0}
  /\ MaxOrphans \in Nat
  /\ CacheLimit \in Nat
ASSUME DistinctAssumption ==
  /\ None \notin Value
  /\ Data \cap Graph = {}
  /\ NoRef \notin RefId
  /\ {Reaper, Nobody} \cap Client = {}
  /\ Reaper # Nobody

VARIABLES
  gen,      \* Generation counter = generation of the last incarnation
  up,       \* the worker GenServer is registered and past its handshake
  table,    \* TensorRegistry and ExecutableRegistry of the Python worker
  nextId,   \* their _next_id
  inbox,    \* requests sent to this incarnation and not yet served
  refs,     \* NIF references (with the ghost fields origin and val)
  strayed,  \* ghost: handles freed by a release that was not for them
  lost,     \* ghost: handles in replies whose caller had given up
  queue,    \* RELEASE_QUEUE and EXECUTABLE_RELEASE_QUEUE
  cache,    \* ExecutableCache: graph -> reference of its entry
  call,     \* what each client is in the middle of
  reaper    \* what ReleaseReaper.drain is in the middle of

vars == <<gen, up, table, nextId, strayed, lost, inbox, refs, queue, cache,
          call, reaper>>
workerVars == <<gen, up, table, nextId, strayed, lost>>

TensorMaking == {"upload", "run_node", "execute"}
Reading == {"download", "execute_host"}
Releases == {"release", "release_executable"}
Command == TensorMaking \cup Reading \cup Releases \cup {"compile", "none"}

Ref == [state  : {"free", "live", "taken", "dropped"},
        kind   : Kind,
        gen    : 0 .. MaxGen,
        handle : 0 .. MaxId,
        origin : 0 .. MaxGen,            \* ghost: the incarnation that made it
        val    : Value \cup {None}]      \* ghost: what the worker put there

FreeRef == [state |-> "free", kind |-> "tensor", gen |-> 0, handle |-> 0,
            origin |-> 0, val |-> None]

Call == [at     : {"idle", "checked", "wait", "replied"},
         cmd    : Command,
         arg    : RefId \cup {NoRef},    \* the tensor used
         exe    : RefId \cup {NoRef},    \* the executable used
         val    : Value \cup {None},     \* data uploaded, graph compiled or run
         seen   : 0 .. MaxGen,           \* generation read before the request
         id     : 0 .. MaxId,            \* handle in the reply
         origin : 0 .. MaxGen,           \* ghost: incarnation that replied
         data   : Value \cup {None}]     \* contents in, or behind, the reply

Idle == [at |-> "idle", cmd |-> "none", arg |-> NoRef, exe |-> NoRef,
         val |-> None, seen |-> 0, id |-> 0, origin |-> 0, data |-> None]

Message == [from : Client \cup {Reaper, Nobody},
            cmd  : Command \ {"none"},
            arg  : RefId \cup {NoRef},
            exe  : RefId \cup {NoRef},
            val  : Value \cup {None},
            ids  : SUBSET RefId,            \* what a release releases
            seen : 0 .. MaxGen]             \* ghost: what its sender had read

ReaperIdle == [at |-> "idle", phase |-> "tensor", entries |-> {}, ids |-> {},
               seen |-> 0]

TypeOK ==
  /\ gen \in 1 .. MaxGen
  /\ up \in BOOLEAN
  /\ table \in [Kind -> [1 .. MaxId -> Value \cup {None}]]
  /\ nextId \in [Kind -> 1 .. MaxId + 1]
  /\ strayed \in [Kind -> SUBSET (1 .. MaxId)]
  /\ lost \in [Kind -> SUBSET (1 .. MaxId)]
  /\ inbox \in Seq(Message)
  /\ refs \in [RefId -> Ref]
  /\ queue \in SUBSET RefId
  /\ cache \in [Graph -> RefId \cup {NoRef}]
  /\ call \in [Client -> Call]
  /\ reaper \in [at      : {"idle", "group", "send", "wait"},
                 phase   : Kind,
                 entries : SUBSET RefId,
                 ids     : SUBSET RefId,
                 seen    : 0 .. MaxGen]

Empty == [k \in Kind |-> [h \in 1 .. MaxId |-> None]]
NoHandles == [k \in Kind |-> {}]

Init ==
  /\ gen = 1
  /\ up = TRUE
  /\ table = Empty
  /\ nextId = [k \in Kind |-> 1]
  /\ strayed = NoHandles
  /\ lost = NoHandles
  /\ inbox = <<>>
  /\ refs = [r \in RefId |-> FreeRef]
  /\ queue = {}
  /\ cache = [g \in Graph |-> NoRef]
  /\ call = [c \in Client |-> Idle]
  /\ reaper = ReaperIdle

-----------------------------------------------------------------------------
(* Helpers.                                                                *)

Free == {r \in RefId : refs[r].state = "free"}

(* A reference the program can still use: not yet garbage collected.  One  *)
(* it deallocated explicitly is still in its hands.                        *)
InHand(k) == {r \in RefId : /\ refs[r].kind = k
                            /\ refs[r].state \in {"live", "taken"}}

Cached == {cache[g] : g \in Graph} \ {NoRef}

Making(c) == call[c].at # "idle" /\ call[c].cmd \in TensorMaking \cup {"compile"}
MakingMessages == {i \in DOMAIN inbox :
                     inbox[i].cmd \in TensorMaking \cup {"compile"}}
CheckedCalls == {c \in Client : Making(c) /\ call[c].at = "checked"}

(* Bound: a client starts an operation that makes a reference only when    *)
(* there will be a name and a handle left for it.                          *)
Room ==
  /\ Cardinality({c \in Client : Making(c)}) < Cardinality(Free)
  /\ \A k \in Kind :
       nextId[k] + Cardinality(MakingMessages) + Cardinality(CheckedCalls) <= MaxId

(* The value a client expects of the operation it is in.                   *)
Intended(c) ==
  CASE call[c].cmd = "upload"   -> call[c].val
    [] call[c].cmd = "download" -> refs[call[c].arg].val
    [] call[c].cmd = "run_node" -> Meaning[call[c].val][refs[call[c].arg].val]
    [] call[c].cmd \in {"execute", "execute_host"} ->
         Meaning[refs[call[c].exe].val][refs[call[c].arg].val]
    [] OTHER -> call[c].val

CheckUpOnly(r) == up                                  \* mutant of CheckFresh

(* ensure_fresh!/1, and the clauses of build_inputs/3 that match handles.  *)
CheckFresh(r) == up /\ refs[r].gen = gen

(* An entry of another generation is a miss.                               *)
CacheHit(g) == cache[g] # NoRef /\ refs[cache[g]].gen = gen

AnyState(r) == refs[r].state \in {"live", "taken"}   \* mutant of Unclaimed

(* The `released` flag of a reference is still down.                       *)
Unclaimed(r) == refs[r].state = "live"

Begin(c, rec) ==
  /\ call[c].at = "idle"
  /\ call' = [call EXCEPT ![c] = rec]

-----------------------------------------------------------------------------
(* Clients.  An operation whose check fails raises StaleTensorError and    *)
(* changes nothing.                                                        *)

(* Backend.from_binary/3 sends its request at once.                        *)
FromBinary(c, d) ==
  /\ up
  /\ Room
  /\ Begin(c, [Idle EXCEPT !.at = "wait", !.cmd = "upload", !.val = d, !.seen = gen])
  /\ inbox' = Append(inbox, [from |-> c, cmd |-> "upload", arg |-> NoRef,
                             exe |-> NoRef, val |-> d, ids |-> {}, seen |-> gen])
  /\ UNCHANGED <<workerVars, refs, queue, cache, reaper>>

(* Backend.to_binary/2 up to its request.                                  *)
ToBinary(c, r) ==
  /\ r \in InHand("tensor")
  /\ CheckFresh(r)
  /\ Begin(c, [Idle EXCEPT !.at = "checked", !.cmd = "download",
                           !.arg = r, !.seen = gen])
  /\ UNCHANGED <<workerVars, inbox, refs, queue, cache, reaper>>

(* Backend.eager!/5 with one resident input: the handle is extracted, the  *)
(* tensor itself is dead from here on unless the program holds it.         *)
Eager(c, g, r) ==
  /\ r \in InHand("tensor")
  /\ CheckFresh(r)
  /\ Room
  /\ Begin(c, [Idle EXCEPT !.at = "checked", !.cmd = "run_node",
                           !.val = g, !.arg = r, !.seen = gen])
  /\ UNCHANGED <<workerVars, inbox, refs, queue, cache, reaper>>

(* Compiler.run_one/2 up to its request.  build_inputs/3 compares the      *)
(* input's generation; ctx.executable_id is used whatever its generation.  *)
RunOne(c, e, r, cmd) ==
  /\ e \in InHand("executable")
  /\ r \in InHand("tensor")
  /\ CheckFresh(r)
  /\ cmd = "execute" => Room
  /\ Begin(c, [Idle EXCEPT !.at = "checked", !.cmd = cmd,
                           !.arg = r, !.exe = e, !.seen = gen])
  /\ UNCHANGED <<workerVars, inbox, refs, queue, cache, reaper>>

(* Compiler.ensure_compiled/3 on a miss.  A hit changes nothing: the       *)
(* closure shares the entry.                                               *)
EnsureCompiled(c, g) ==
  /\ up
  /\ Room
  /\ ~CacheHit(g)
  /\ Begin(c, [Idle EXCEPT !.at = "checked", !.cmd = "compile",
                           !.val = g, !.seen = gen])
  /\ UNCHANGED <<workerVars, inbox, refs, queue, cache, reaper>>

(* Backend.backend_deallocate/1 up to its request: take/1 claims the       *)
(* reference, then its generation is compared with the worker's.           *)
Deallocate(c, r) ==
  /\ refs[r].kind = "tensor"
  /\ Unclaimed(r)
  /\ refs' = [refs EXCEPT ![r].state = "taken"]
  /\ Begin(c, IF CheckFresh(r)
              THEN [Idle EXCEPT !.at = "checked", !.cmd = "release", !.arg = r,
                                !.seen = gen]
              ELSE Idle)
  /\ UNCHANGED <<workerVars, inbox, queue, cache, reaper>>

(* GenServer.call of the request that was prepared, by the worker's name:  *)
(* it reaches whichever incarnation is registered by now.                  *)
Send(c) ==
  /\ up
  /\ call[c].at = "checked"
  /\ call' = [call EXCEPT ![c].at = "wait"]
  /\ inbox' = Append(inbox,
                [from |-> c, cmd |-> call[c].cmd, arg |-> call[c].arg,
                 exe |-> call[c].exe, val |-> call[c].val,
                 ids |-> IF call[c].cmd = "release" THEN {call[c].arg} ELSE {},
                 seen |-> call[c].seen])
  /\ UNCHANGED <<workerVars, refs, queue, cache, reaper>>

(* The same call with no process registered: the caller exits (noproc).    *)
SendExits(c) ==
  /\ ~up
  /\ call[c].at = "checked"
  /\ call' = [call EXCEPT ![c] = Idle]
  /\ UNCHANGED <<workerVars, inbox, refs, queue, cache, reaper>>

BuildLabel == gen

(* Backend.build/4: Worker.generation is read after the reply arrived.     *)
Build(c, r) ==
  /\ up
  /\ call[c].at = "replied"
  /\ call[c].cmd \in TensorMaking
  /\ r \in Free
  /\ refs' = [refs EXCEPT ![r] =
                [state |-> "live", kind |-> "tensor", gen |-> BuildLabel,
                 handle |-> call[c].id, origin |-> call[c].origin,
                 val |-> call[c].data]]
  /\ call' = [call EXCEPT ![c] = Idle]
  /\ UNCHANGED <<workerVars, inbox, queue, cache, reaper>>

(* The same with no worker registered: Worker.generation exits.            *)
BuildExits(c) ==
  /\ ~up
  /\ call[c].at = "replied"
  /\ call[c].cmd \in TensorMaking
  /\ call' = [call EXCEPT ![c] = Idle]
  /\ UNCHANGED <<workerVars, inbox, refs, queue, cache, reaper>>

(* ExecutableCache.put/2: a new key in a full cache evicts some entry.     *)
CachePut(g, r) ==
  LET keys == {k \in Graph : cache[k] # NoRef}
  IN  IF cache[g] = NoRef /\ Cardinality(keys) >= CacheLimit /\ keys # {}
      THEN \E old \in keys : cache' = [cache EXCEPT ![old] = NoRef, ![g] = r]
      ELSE cache' = [cache EXCEPT ![g] = r]

CompileLabel(c) == call[c].seen

(* Compiler.compile_entry/4 after the reply, and the put that follows: the *)
(* label is the generation that was read before the compile.               *)
CompileEntry(c, r) ==
  /\ call[c].at = "replied"
  /\ call[c].cmd = "compile"
  /\ r \in Free
  /\ refs' = [refs EXCEPT ![r] =
                [state |-> "live", kind |-> "executable", gen |-> CompileLabel(c),
                 handle |-> call[c].id, origin |-> call[c].origin,
                 val |-> call[c].data]]
  /\ CachePut(call[c].val, r)
  /\ call' = [call EXCEPT ![c] = Idle]
  /\ UNCHANGED <<workerVars, inbox, queue, reaper>>

(* A download, or an execution with host outputs, returns its bytes.       *)
Return(c) ==
  /\ call[c].at = "replied"
  /\ call[c].cmd \in Reading
  /\ call' = [call EXCEPT ![c] = Idle]
  /\ UNCHANGED <<workerVars, inbox, refs, queue, cache, reaper>>

(* The caller gives up; the request stays where it is.                     *)
Orphans == {i \in DOMAIN inbox : inbox[i].from = Nobody}

Orphan(from) ==
  inbox' = [i \in DOMAIN inbox |->
              IF inbox[i].from = from THEN [inbox[i] EXCEPT !.from = Nobody]
                                      ELSE inbox[i]]

Timeout(c) ==
  /\ Cardinality(Orphans) < MaxOrphans
  /\ call[c].at = "wait"
  /\ Orphan(c)
  /\ call' = [call EXCEPT ![c] = Idle]
  /\ UNCHANGED <<workerVars, refs, queue, cache, reaper>>

PushTensors(r) == IF refs[r].kind = "tensor"          \* mutant of Push
                  THEN queue \cup {r} ELSE queue
Push(r) == queue \cup {r}

(* Drop for TensorRef and ExecutableRef, when the BEAM collects the last   *)
(* term that holds the resource.  to_binary/2 holds its tensor and a call  *)
(* of a closure its executable until they return; the cache holds its      *)
(* entries.  Collecting a taken reference has no effect.                   *)
Drop(r) ==
  /\ Unclaimed(r)
  /\ r \notin Cached
  /\ \A c \in Client : call[c].exe # r /\ ~(call[c].cmd = "download" /\ call[c].arg = r)
  /\ refs' = [refs EXCEPT ![r].state = "dropped"]
  /\ queue' = Push(r)
  /\ UNCHANGED <<workerVars, inbox, cache, call, reaper>>

-----------------------------------------------------------------------------
(* ReleaseReaper.                                                          *)

OnePhase == ReaperIdle                                \* mutant of NextPhase

(* release_group/2 is finished with one kind: drain/0 goes on to the next. *)
NextPhase ==
  IF reaper.phase = "tensor"
  THEN [at |-> "group", phase |-> "executable", ids |-> {}, seen |-> 0,
        entries |-> {r \in reaper.entries : refs[r].kind = "executable"}]
  ELSE ReaperIdle

(* drain/0 takes everything out of both native queues.                     *)
Drain ==
  /\ reaper.at = "idle"
  /\ queue # {}
  /\ queue' = {}
  /\ reaper' = [ReaperIdle EXCEPT !.at = "group", !.entries = queue]
  /\ UNCHANGED <<workerVars, inbox, refs, cache, call>>

Group == {r \in reaper.entries : refs[r].kind = reaper.phase}  \* mutant of Current
Current == {r \in reaper.entries : /\ refs[r].kind = reaper.phase
                                   /\ refs[r].gen = gen}

(* release_group/2 up to its request: whereis/1, the current generation,   *)
(* and the entries that carry it.                                          *)
ReleaseGroup ==
  /\ reaper.at = "group"
  /\ reaper' = IF up /\ Current # {}
               THEN [reaper EXCEPT !.at = "send", !.ids = Current, !.seen = gen]
               ELSE NextPhase
  /\ UNCHANGED <<workerVars, inbox, refs, queue, cache, call>>

ReaperSend ==
  /\ up
  /\ reaper.at = "send"
  /\ inbox' = Append(inbox,
                [from |-> Reaper, arg |-> NoRef, exe |-> NoRef, val |-> None,
                 cmd |-> IF reaper.phase = "tensor" THEN "release"
                                                    ELSE "release_executable",
                 ids |-> reaper.ids, seen |-> reaper.seen])
  /\ reaper' = [reaper EXCEPT !.at = "wait",
                              !.entries = @ \ reaper.ids, !.ids = {}, !.seen = 0]
  /\ UNCHANGED <<workerVars, refs, queue, cache, call>>

(* The request finds no worker: the reaper exits and restarts empty.       *)
ReaperExits ==
  /\ ~up
  /\ reaper.at = "send"
  /\ reaper' = ReaperIdle
  /\ UNCHANGED <<workerVars, inbox, refs, queue, cache, call>>

ReaperTimeout ==
  /\ Cardinality(Orphans) < MaxOrphans
  /\ reaper.at = "wait"
  /\ Orphan(Reaper)
  /\ reaper' = NextPhase
  /\ UNCHANGED <<workerVars, refs, queue, cache, call>>

-----------------------------------------------------------------------------
(* The Python worker serves its requests one at a time, in order.          *)

req == Head(inbox)

Serving(cmds) ==
  /\ up
  /\ inbox # <<>>
  /\ req.cmd \in cmds
  /\ inbox' = Tail(inbox)

Content(k, r) == table[k][refs[r].handle]

(* registry.get or exec_registry.get raises StaleReference.                *)
Missing ==
  \/ req.arg # NoRef /\ Content("tensor", req.arg) = None
  \/ req.exe # NoRef /\ Content("executable", req.exe) = None

Input == Content("tensor", req.arg)

LowestFree(k) == CHOOSE h \in 1 .. MaxId :            \* mutant of AllocateId
                   /\ table[k][h] = None
                   /\ \A i \in 1 .. h - 1 : table[k][i] # None
AllocateId(k) == nextId[k]

(* Put a content under the next id of a registry and reply with the id.    *)
(* deliver/4 finds nobody in `pending` for a caller that gave up, and the  *)
(* id is forgotten.                                                        *)
Put(k, v) ==
  /\ nextId[k] <= MaxId        \* bound: Room leaves a handle for every request
  /\ table' = [table EXCEPT ![k][AllocateId(k)] = v]
  /\ nextId' = [nextId EXCEPT ![k] = @ + 1]
  /\ call' = IF req.from \in Client
             THEN [call EXCEPT ![req.from].at = "replied",
                               ![req.from].id = AllocateId(k),
                               ![req.from].origin = gen,
                               ![req.from].data = v]
             ELSE call
  /\ lost' = IF req.from \in Client THEN lost
                                     ELSE [lost EXCEPT ![k] = @ \cup {AllocateId(k)}]
  /\ UNCHANGED <<gen, up, strayed, refs, queue, cache, reaper>>

Upload == Serving({"upload"}) /\ Put("tensor", req.val)

CompileGraph == Serving({"compile"}) /\ Put("executable", req.val)

RunNode ==
  /\ Serving({"run_node"})
  /\ ~Missing
  /\ Put("tensor", Meaning[req.val][Input])

(* cmd_execute with device outputs: each output is copied into a buffer of *)
(* its own before it is registered.                                        *)
Execute ==
  /\ Serving({"execute"})
  /\ ~Missing
  /\ Put("tensor", Meaning[Content("executable", req.exe)][Input])

(* cmd_download, and cmd_execute with host outputs.                        *)
ReplyData(v) ==
  /\ call' = IF req.from \in Client
             THEN [call EXCEPT ![req.from].at = "replied",
                               ![req.from].origin = gen,
                               ![req.from].data = v]
             ELSE call
  /\ UNCHANGED <<workerVars, refs, queue, cache, reaper>>

Download == Serving({"download"}) /\ ~Missing /\ ReplyData(Input)

ExecuteHost ==
  /\ Serving({"execute_host"})
  /\ ~Missing
  /\ ReplyData(Meaning[Content("executable", req.exe)][Input])

(* The error reply: the client raises WorkerError.                         *)
StaleReference ==
  /\ Serving((TensorMaking \cup Reading) \ {"upload"})
  /\ Missing
  /\ call' = IF req.from \in Client THEN [call EXCEPT ![req.from] = Idle] ELSE call
  /\ UNCHANGED <<workerVars, refs, queue, cache, reaper>>

(* A release was overtaken: its sender looked at another incarnation, or   *)
(* the reference carries another generation than the one that made it.     *)
Overtaken(r) == req.seen # gen \/ refs[r].gen # refs[r].origin

(* cmd_release and cmd_release_executable: unknown ids are ignored.        *)
Release ==
  LET k == IF req.cmd = "release" THEN "tensor" ELSE "executable"
      gone == {refs[r].handle : r \in req.ids}
      stray == {refs[r].handle : r \in {s \in req.ids : Overtaken(s)}}
  IN  /\ Serving(Releases)
      /\ table' = [table EXCEPT ![k] =
                     [h \in 1 .. MaxId |-> IF h \in gone THEN None ELSE table[k][h]]]
      /\ strayed' = [strayed EXCEPT ![k] = @ \cup (stray \cap 1 .. MaxId)]
      /\ call' = IF req.from \in Client THEN [call EXCEPT ![req.from] = Idle] ELSE call
      /\ reaper' = IF req.from = Reaper THEN NextPhase ELSE reaper
      /\ UNCHANGED <<gen, up, nextId, lost, refs, queue, cache>>

Serve ==
  \/ Upload \/ CompileGraph \/ RunNode \/ Execute
  \/ Download \/ ExecuteHost \/ StaleReference \/ Release

-----------------------------------------------------------------------------
FailNone == call                                      \* mutant of FailAll
FailAll == [c \in Client |-> IF call[c].at = "wait" THEN Idle ELSE call[c]]

(* The worker dies (Port exit): fail_all answers every pending caller, the *)
(* GenServer stops, and with the OS process go its registries.  Whoever is *)
(* between reading the generation and acting on it goes on regardless.     *)
Crash ==
  /\ up
  /\ gen < MaxGen
  /\ up' = FALSE
  /\ table' = Empty
  /\ nextId' = [k \in Kind |-> 1]
  /\ strayed' = NoHandles
  /\ lost' = NoHandles
  /\ inbox' = <<>>
  /\ call' = FailAll
  /\ reaper' = IF reaper.at = "wait" THEN NextPhase ELSE reaper
  /\ UNCHANGED <<gen, refs, queue, cache>>

SkipGeneration == gen + 2                             \* mutant of NextGeneration
NextGeneration == gen + 1

(* The supervisor starts the worker again: Generation.next, open_port and  *)
(* the handshake.                                                          *)
Start ==
  /\ ~up
  /\ up' = TRUE
  /\ gen' = NextGeneration
  /\ UNCHANGED <<table, nextId, strayed, lost, inbox, refs, queue, cache, call, reaper>>

(* The program has ended and everything is quiet: a legitimate end.        *)
Quiescent ==
  /\ up
  /\ \A c \in Client : call[c].at = "idle"
  /\ inbox = <<>>
  /\ queue = {}
  /\ reaper.at = "idle"
  /\ UNCHANGED vars

ClientStart(c) ==
  \/ \E d \in Data : FromBinary(c, d)
  \/ \E g \in Graph : EnsureCompiled(c, g)
  \/ \E r \in RefId : ToBinary(c, r) \/ Deallocate(c, r)
  \/ \E g \in Graph, r \in RefId : Eager(c, g, r)
  \/ \E e, r \in RefId, cmd \in {"execute", "execute_host"} : RunOne(c, e, r, cmd)

ClientContinue(c) ==
  \/ Send(c)
  \/ SendExits(c)
  \/ \E r \in RefId : Build(c, r) \/ CompileEntry(c, r)
  \/ BuildExits(c)
  \/ Return(c)

Reap == Drain \/ ReleaseGroup \/ ReaperSend \/ ReaperExits

Next ==
  \/ \E c \in Client : ClientStart(c) \/ ClientContinue(c) \/ Timeout(c)
  \/ \E r \in RefId : Drop(r)
  \/ Reap
  \/ ReaperTimeout
  \/ Serve
  \/ Crash
  \/ Start
  \/ Quiescent

Spec == Init /\ [][Next]_vars

(* The schedulers run every BEAM process, the reaper is woken by its tick  *)
(* every 50 ms, the supervisor restarts the worker, and the worker answers *)
(* what it is asked.  Nothing obliges a client to start an operation, the  *)
(* collector to run or the worker to crash.                                *)
FairSpec ==
  /\ Spec
  /\ \A c \in Client : WF_vars(ClientContinue(c))
  /\ WF_vars(Reap)
  /\ WF_vars(Serve)
  /\ WF_vars(Start)

-----------------------------------------------------------------------------
(* Properties.                                                             *)

Made == {r \in RefId : refs[r].state # "free"}

(* Nothing came between what a call looked at and what it was answered:    *)
(* the incarnation whose generation it read served it, its tensor carries  *)
(* the generation of its maker, and its executable, whose generation       *)
(* nobody compares, is that incarnation's.                                 *)
Undisturbed(c) ==
  /\ call[c].arg # NoRef => /\ call[c].seen = call[c].origin
                            /\ refs[call[c].arg].gen = refs[call[c].arg].origin
  /\ call[c].exe # NoRef => refs[call[c].exe].origin = call[c].origin

(* What comes back to an undisturbed call, as bytes or behind a new        *)
(* handle, is the tensor that was asked for, or what the graph makes of    *)
(* the tensor it was given, whatever else was released, evicted, allocated *)
(* or restarted meanwhile (ensure_fresh!/1, build_inputs/3).               *)
ReadsOwnData ==
  \A c \in Client :
    call[c].at = "replied" /\ Undisturbed(c) => call[c].data = Intended(c)

InUse(r) == \E c \in Client : call[c].exe = r

(* While the program can use a reference made by the running incarnation,  *)
(* or a call of its closure is under way, the worker holds under its       *)
(* handle what it put there.  Only an overtaken release may have freed it. *)
ResidentWhileLive ==
  \A r \in Made :
    up /\ refs[r].origin = gen /\ (refs[r].state = "live" \/ InUse(r))
      => \/ Content(refs[r].kind, r) = refs[r].val
         \/ refs[r].handle \in strayed[refs[r].kind]

(* An executable of an old generation is never sent to a restarted worker, *)
(* if no restart came between the generation that the sender read (for the *)
(* inputs) and the sending (docs/architecture.md:49-52).                   *)
NoStaleExecutableSent ==
  \A i \in DOMAIN inbox :
    inbox[i].exe # NoRef /\ inbox[i].seen = gen => refs[inbox[i].exe].gen = gen

ReleaseMessages(r) == {i \in DOMAIN inbox : r \in inbox[i].ids}
Deallocating(r) == {c \in Client : /\ call[c].at = "checked"
                                   /\ call[c].cmd = "release"
                                   /\ call[c].arg = r}
Releasing(r) ==
  \/ r \in queue
  \/ r \in reaper.entries
  \/ ReleaseMessages(r) # {}
  \/ Deallocating(r) # {}

(* take/1 and Drop claim a reference once: at most one release of it is    *)
(* outstanding wherever it is, and none while the program owns it.         *)
ReleasedOnce ==
  \A r \in RefId :
    /\ Cardinality({p \in {"queue"} : r \in queue})
       + Cardinality({p \in {"reaper"} : r \in reaper.entries})
       + Cardinality(ReleaseMessages(r)) + Cardinality(Deallocating(r)) <= 1
    /\ refs[r].state = "live" => ~Releasing(r)

(* No two references to what one incarnation made share a handle, dead     *)
(* ones included: handles are never reused within a generation.            *)
HandlesUnique ==
  \A r, s \in Made :
    r # s /\ refs[r].kind = refs[s].kind /\ refs[r].origin = refs[s].origin
      => refs[r].handle # refs[s].handle

(* Whatever the worker keeps is owned: by a live reference, by a release   *)
(* on its way, or by a reply a client is about to wrap.                    *)
Owned(k, h) ==
  \/ \E r \in Made : /\ refs[r].kind = k
                     /\ refs[r].origin = gen
                     /\ refs[r].handle = h
                     /\ refs[r].state = "live" \/ Releasing(r)
  \/ \E c \in Client : /\ call[c].at = "replied"
                       /\ call[c].origin = gen
                       /\ call[c].id = h
                       /\ call[c].cmd \in IF k = "tensor" THEN TensorMaking
                                                          ELSE {"compile"}

(* Nobody will release it, by one of two accidents: its caller had given   *)
(* up when the reply came (worker.ex:246), or a restart came between the   *)
(* generation that labels it and its making (compiler.ex:124), so that its *)
(* release is discarded.                                                   *)
Unowned(k, h) ==
  \/ h \in lost[k]
  \/ \E r \in Made : /\ refs[r].kind = k
                     /\ refs[r].origin = gen
                     /\ refs[r].handle = h
                     /\ refs[r].gen < refs[r].origin

(* Whatever the worker holds has an owner who will release it, or was      *)
(* orphaned by one of these two accidents and by nothing else that a       *)
(* request's life holds here.  A read of the generation is answered at     *)
(* once in this module; what its own timeout loses is module Workers'.     *)
NothingLeaks ==
  \A k \in Kind, h \in 1 .. MaxId :
    table[k][h] # None => Owned(k, h) \/ Unowned(k, h)

Resident(r) ==
  /\ refs[r].state # "free"
  /\ refs[r].origin = gen
  /\ Content(refs[r].kind, r) # None

(* What the program dropped is eventually released (SPEC.md, invariant 8), *)
(* wherever the worker restarts, if it carries the label of its maker.     *)
DroppedIsReleased ==
  \A r \in RefId :
    refs[r].state = "dropped" /\ refs[r].gen = refs[r].origin ~> ~Resident(r)

(* Every call returns: with its reply, or with the news of the crash.      *)
CallsReturn == \A c \in Client : call[c].at = "wait" ~> call[c].at = "idle"

=============================================================================
