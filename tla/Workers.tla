------------------------------ MODULE Workers ------------------------------
(***************************************************************************)
(* Several workers under one supervisor, the table that numbers their       *)
(* names, and the one reaper that serves them all: worker_supervisor.ex,    *)
(* worker_ids.ex, release_reaper.ex and backend_deallocate of backend.ex.   *)
(* Handles follows one worker's buffers through every race of a call; here  *)
(* a call of a running worker is one step, and what matters is which        *)
(* worker, under which id, and who is left with a release nobody sends.     *)
(* The default worker is started lazily (start_default_worker: false).      *)
(***************************************************************************)
EXTENDS Integers, FiniteSets

CONSTANTS
  Names,        \* worker names
  Default,      \* :default, one of them
  Procs,        \* client processes
  MaxRestarts,  \* the supervisor's restart intensity
  MaxGen,       \* bound: incarnations of all workers
  MaxBuffers    \* bound: buffers made

VARIABLES
  children,   \* names the supervisor holds a child for
  worker,     \* name -> [state, gen, next handle]; a "dead" child waits for its restart
  nextGen,
  restarts,   \* restarts within the supervisor's period
  resident,   \* buffers [name, gen, handle] the workers hold
  made,       \* number of buffers made
  idOf, nameOf, \* the two kinds of rows of the WorkerIds table
  nextId,
  assigning,  \* the process whose {:assign, name} the server is half through, or NoOne
  proc,       \* process -> [pc, buffer, id]
  live,       \* references [id, buffer] the program holds
  queue,      \* references dropped
  reaper,     \* [stage, group, pending, current]
  lost        \* resident buffers whose release somebody had to send and never will

supervisorVars == <<children, worker, nextGen, restarts>>
bufferVars == <<resident, made>>
idVars == <<idOf, nameOf, nextId, assigning>>
refVars == <<proc, live, queue>>
vars == <<supervisorVars, bufferVars, idVars, refVars, reaper, lost>>

NoOne == "no one"
ASSUME NamesAndProcs == Default \in Names /\ NoOne \notin Procs

Free == [pc |-> "free", id |-> 0, buffer |-> [name |-> Default, gen |-> 0, handle |-> 0]]
Asleep == [stage |-> "asleep", group |-> {}, pending |-> {}, current |-> 0]

Running(n) == worker[n].state = "running"
Registered(n) == worker[n].state \in {"starting", "running"}
Without(names) == {b \in resident : b.name \notin names}
\* A row inserted into a table.
Inserted(f, key, value) ==
  [k \in DOMAIN f \cup {key} |-> IF k = key THEN value ELSE f[k]]
Buffers(refs) == {r.buffer : r \in refs}

Init ==
  /\ children = {} /\ nextGen = 1 /\ restarts = 0
  /\ worker = [n \in Names |-> [state |-> "none", gen |-> 0, next |-> 1]]
  /\ resident = {} /\ made = 0
  /\ idOf = [n \in {} |-> 0] /\ nameOf = [id \in {} |-> Default] /\ nextId = 0 /\ assigning = NoOne
  /\ proc = [p \in Procs |-> Free] /\ live = {} /\ queue = {}
  /\ reaper = Asleep /\ lost = {}

-----------------------------------------------------------------------------
(* WorkerSupervisor: starting a child occupies it until the handshake is over *)

Idle == \A n \in Names : worker[n].state # "starting"
Start(n) ==
  /\ Idle /\ nextGen <= MaxGen
  /\ worker' = [worker EXCEPT ![n] = [state |-> "starting", gen |-> nextGen, next |-> 1]]
  /\ nextGen' = nextGen + 1

\* worker_for_device, or a request to :default: start_child.
StartWorker(n) ==
  /\ n \notin children /\ Start(n)
  /\ UNCHANGED <<children, restarts, bufferVars, idVars, refVars, reaper, lost>>

HandshakeEnds(n) ==
  /\ worker[n].state = "starting"
  /\ \/ /\ worker' = [worker EXCEPT ![n].state = "running"]
        /\ children' = children \cup {n}
     \/ /\ worker' = [worker EXCEPT ![n].state = IF n \in children THEN "dead" ELSE "none"]
        /\ UNCHANGED children
  /\ UNCHANGED <<nextGen, restarts, bufferVars, idVars, refVars, reaper, lost>>

Crash(n) ==
  /\ Running(n)
  /\ worker' = [worker EXCEPT ![n].state = "dead"]
  /\ resident' = Without({n})
  /\ UNCHANGED <<children, nextGen, restarts, made, idVars, refVars, reaper, lost>>

Restart(n) ==
  /\ worker[n].state = "dead" /\ restarts < MaxRestarts /\ Start(n)
  /\ restarts' = restarts + 1
  /\ UNCHANGED <<children, bufferVars, idVars, refVars, reaper, lost>>

PeriodPasses ==
  /\ restarts > 0 /\ restarts' = 0
  /\ UNCHANGED <<children, worker, nextGen, bufferVars, idVars, refVars, reaper, lost>>

\* Too many restarts: the supervisor ends, its workers with it, and is started
\* again with the children of init/1, which are none.
GiveUp ==
  /\ \E n \in Names : worker[n].state = "dead"
  /\ Idle /\ restarts = MaxRestarts /\ restarts' = 0
  /\ children' = {}
  /\ worker' = [n \in Names |-> [worker[n] EXCEPT !.state = "none"]]
  /\ resident' = {}
  /\ UNCHANGED <<nextGen, made, idVars, refVars, reaper, lost>>

-----------------------------------------------------------------------------
(* Making a tensor: the upload, the generation, the id, the reference *)

Upload(p, n) ==
  /\ proc[p].pc = "free" /\ Running(n) /\ made < MaxBuffers
  /\ LET b == [name |-> n, gen |-> worker[n].gen, handle |-> worker[n].next]
     IN  /\ resident' = resident \cup {b}
         /\ proc' = [proc EXCEPT ![p] = [Free EXCEPT !.pc = "built", !.buffer = b]]
  /\ made' = made + 1 /\ worker' = [worker EXCEPT ![n].next = @ + 1]
  /\ UNCHANGED <<children, nextGen, restarts, idVars, live, queue, reaper, lost>>

\* The call of a worker's generation exits when there is no worker, or when the
\* worker is starting or held up by a full pipe for longer than 5 s; then nobody
\* is left to release b.
GenerationExits(b) == lost' = (lost \cup {b}) \cap resident

\* build/4, the generation first: what it reads as the label is Handles' subject.
Build(p) ==
  /\ proc[p].pc = "built"
  /\ LET b == proc[p].buffer
     IN  \/ /\ Running(b.name) /\ UNCHANGED lost
            /\ proc' = [proc EXCEPT ![p].pc = "label"]
         \/ GenerationExits(b) /\ proc' = [proc EXCEPT ![p] = Free]
  /\ UNCHANGED <<supervisorVars, bufferVars, idVars, live, queue, reaper>>

Own(p, id) ==
  /\ live' = live \cup {[id |-> id, buffer |-> proc[p].buffer]}
  /\ proc' = [proc EXCEPT ![p] = Free]

\* id_for in the caller: the table, or a call of the server.
LookUp(p) ==
  /\ proc[p].pc = "label"
  /\ IF proc[p].buffer.name \in DOMAIN idOf
     THEN Own(p, idOf[proc[p].buffer.name])
     ELSE proc' = [proc EXCEPT ![p].pc = "assign"] /\ UNCHANGED live
  /\ UNCHANGED <<supervisorVars, bufferVars, idVars, queue, reaper, lost>>

\* {:assign, name}: looks again, then inserts the name's row...
FirstRow(p) ==
  /\ idOf' = Inserted(idOf, proc[p].buffer.name, nextId)
  /\ proc' = [proc EXCEPT ![p].id = nextId]
  /\ nextId' = nextId + 1 /\ assigning' = p /\ UNCHANGED <<nameOf, live>>
\* Mutant: the server does not look again.
AssignUnseen(p) ==
  /\ proc[p].pc = "assign" /\ assigning = NoOne /\ FirstRow(p)
  /\ UNCHANGED <<supervisorVars, bufferVars, queue, reaper, lost>>
Assign(p) ==
  /\ proc[p].pc = "assign" /\ assigning = NoOne
  /\ IF proc[p].buffer.name \in DOMAIN idOf
     THEN Own(p, idOf[proc[p].buffer.name]) /\ UNCHANGED idVars
     ELSE FirstRow(p)
  /\ UNCHANGED <<supervisorVars, bufferVars, queue, reaper, lost>>

\* ... and then the id's row, and replies.
SecondRow(p) ==
  /\ assigning = p /\ assigning' = NoOne
  /\ nameOf' = Inserted(nameOf, proc[p].id, proc[p].buffer.name)
  /\ Own(p, proc[p].id)
  /\ UNCHANGED <<supervisorVars, bufferVars, idOf, nextId, queue, reaper, lost>>

Drop(r) ==
  /\ r \in live /\ live' = live \ {r} /\ queue' = queue \cup {r}
  /\ UNCHANGED <<supervisorVars, bufferVars, idVars, proc, reaper, lost>>

\* What a release of handles of one incarnation frees in the worker it reaches.
Freed(n, gen, refs) ==
  {b \in resident : b.name = n /\ \E r \in refs : r.buffer.gen = gen /\ r.buffer.handle = b.handle}

\* backend_deallocate: take/1...
Deallocate(p, r) ==
  /\ proc[p].pc = "free" /\ r \in live /\ live' = live \ {r}
  /\ proc' = [proc EXCEPT ![p] = [pc |-> "taken", id |-> r.id, buffer |-> r.buffer]]
  /\ UNCHANGED <<supervisorVars, bufferVars, idVars, queue, reaper, lost>>

\* ... the generation, and the release when it is the reference's own.
DeallocateEnds(p) ==
  /\ proc[p].pc = "taken" /\ proc' = [proc EXCEPT ![p] = Free]
  /\ LET b == proc[p].buffer
     IN  \/ /\ Running(b.name)
            /\ resident' = resident \ Freed(b.name, worker[b.name].gen, {[id |-> 0, buffer |-> b]})
            /\ UNCHANGED lost
         \/ GenerationExits(b) /\ UNCHANGED resident
  /\ UNCHANGED <<supervisorVars, made, idVars, live, queue, reaper>>

-----------------------------------------------------------------------------
(* ReleaseReaper *)

Tick ==
  /\ reaper.stage = "asleep" /\ queue # {}
  /\ reaper' = [Asleep EXCEPT !.stage = "next", !.pending = queue]
  /\ queue' = {}
  /\ UNCHANGED <<supervisorVars, bufferVars, idVars, proc, live, lost>>

\* release_group of the lowest id: its name and its process.
First == {r \in reaper.pending : \A q \in reaper.pending : r.id <= q.id}
Group(rest) == \E one \in First :
  LET found == one.id \in DOMAIN nameOf /\ Registered(nameOf[one.id])
  IN  /\ reaper.stage = "next"
      /\ reaper' = [reaper EXCEPT !.stage = IF found THEN "ask" ELSE "next",
                                  !.group = IF found THEN First ELSE {},
                                  !.pending = IF found THEN @ \ First ELSE rest]
      /\ lost' = IF one.id \in DOMAIN nameOf THEN lost
                 ELSE (lost \cup Buffers(First)) \cap resident
      /\ UNCHANGED <<supervisorVars, bufferVars, idVars, refVars>>
\* Mutant: a group without a worker ends the drain.
NextGroupOrStop == Group({})
NextGroup == Group(reaper.pending \ First)

GroupName == nameOf[(CHOOSE r \in reaper.group : TRUE).id]

\* Worker.generation answers...
Ask ==
  /\ reaper.stage = "ask" /\ Running(GroupName)
  /\ reaper' = [reaper EXCEPT !.stage = "send", !.current = worker[GroupName].gen]
  /\ UNCHANGED <<supervisorVars, bufferVars, idVars, refVars, lost>>

\* ... and the handles of that generation are sent, by the worker's name.
Send ==
  /\ reaper.stage = "send" /\ Running(GroupName)
  /\ resident' = resident \ Freed(GroupName, reaper.current, reaper.group)
  /\ reaper' = [reaper EXCEPT !.stage = "next", !.group = {}]
  /\ UNCHANGED <<supervisorVars, made, idVars, refVars, lost>>

Done ==
  /\ reaper.stage = "next" /\ reaper.pending = {} /\ reaper' = Asleep
  /\ UNCHANGED <<supervisorVars, bufferVars, idVars, refVars, lost>>

\* Either call exits; the reaper ends with everything it drained, and is
\* started again.
ReaperExits ==
  /\ reaper.stage = "ask" \/ (reaper.stage = "send" /\ ~Running(GroupName))
  /\ lost' = (lost \cup Buffers(reaper.group \cup reaper.pending)) \cap resident
  /\ reaper' = Asleep
  /\ UNCHANGED <<supervisorVars, bufferVars, idVars, refVars>>

Next ==
  \/ \E n \in Names : StartWorker(n) \/ HandshakeEnds(n) \/ Crash(n) \/ Restart(n)
  \/ PeriodPasses \/ GiveUp
  \/ \E p \in Procs : Build(p) \/ LookUp(p) \/ Assign(p) \/ SecondRow(p) \/ DeallocateEnds(p)
  \/ \E p \in Procs, n \in Names : Upload(p, n)
  \/ \E r \in live : Drop(r) \/ \E p \in Procs : Deallocate(p, r)
  \/ Tick \/ NextGroup \/ Ask \/ Send \/ Done \/ ReaperExits
Spec == Init /\ [][Next]_vars

-----------------------------------------------------------------------------
(* Properties *)

Held == live \cup queue \cup reaper.pending \cup reaper.group

\* One name has one id for good, whoever asks first and however often, and an id
\* leads back to the worker that made the buffer (worker_ids.ex: id_for, assign).
OneIdPerName ==
  /\ \A n, m \in DOMAIN idOf : idOf[n] = idOf[m] => n = m
  /\ \A r \in Held : r.id = idOf[r.buffer.name]
  /\ \A id \in DOMAIN nameOf : idOf[nameOf[id]] = id

\* A buffer that a worker holds and nobody can release any more was lost in one
\* of four ways: the reaper exited over another worker or its own, the entry was
\* drained between the two inserts of its worker's id, or the generation call
\* exited in a deallocation that had claimed the reference or in build/4 when
\* there was none yet (release_reaper.ex: drain, release_group; backend.ex:
\* backend_deallocate, build).
LeaksOnlyByExit ==
  resident \subseteq Buffers(Held) \cup lost \cup {proc[p].buffer : p \in Procs}
=============================================================================
