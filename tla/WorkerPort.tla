----------------------------- MODULE WorkerPort ------------------------------
(***************************************************************************)
(* NxTinygrad.Worker: the GenServer that owns one Python process behind an *)
(* Erlang port, from Worker.request/5 to the worker's main loop and back.  *)
(*                                                                         *)
(* A call waits in the server's mailbox, among the port's messages and the *)
(* expired timers, until handle_call gives it a request id, writes its     *)
(* frame to the port and starts its timer.  Python reads one frame at a    *)
(* time and answers each.  The server matches the answer with its pending  *)
(* entry by the request id.  The Python process dies, hangs or writes      *)
(* something that is no frame; the server may be killed; the supervisor    *)
(* starts it again with a new generation, a new port and an empty mailbox. *)
(*                                                                         *)
(* The k-th call of client c is <<c, k>>: it stands for the command, the   *)
(* arguments and the blobs, and for the `from` that GenServer.call made.   *)
(* A reply to a call its caller no longer waits for is dropped by the VM.  *)
(* The calls :info and :generation are answered from the server's state    *)
(* and change nothing; they are not modelled here.                         *)
(***************************************************************************)
EXTENDS Naturals, Sequences, FiniteSets

CONSTANTS
  Client,     \* processes that call Worker.request/5
  MaxCalls,   \* bound: calls per client
  MaxGen,     \* bound: incarnations of the server
  PipeSize,   \* frames the pipe takes before Port.command suspends its caller
  Faults,     \* what may go wrong, beside the death of the Python process
  NoTag

FaultKind == {"bad_frame", "kill", "worker_error"}

ASSUME PortAssumption ==
  /\ MaxCalls \in Nat
  /\ MaxGen \in Nat \ {0}
  /\ PipeSize \in Nat \ {0}
  /\ Faults \subseteq FaultKind
  /\ NoTag \notin Client \X (1 .. MaxCalls)

VARIABLES
  calls,      \* calls each client has made
  state,      \* how its last call stands
  answer,     \* the call its last answer was computed for
  executed,   \* history: how often Python has carried each call out
  server,     \* the GenServer: not registered, in init/1, in its loop
  gen,        \* its generation
  nextReqId,  \* next_req_id
  pending,    \* pending: request id and the call it belongs to
  timers,     \* request ids whose timer is running
  mailbox,    \* the server's mailbox
  port,       \* its port
  pipe,       \* frames written and not yet read by Python
  serving     \* the frame Python is working on

clientVars == <<calls, state, answer>>
serverVars == <<server, gen, nextReqId, pending, timers>>
portVars == <<port, pipe, serving>>
vars == <<clientVars, executed, serverVars, mailbox, portVars>>

Tag == Client \X (1 .. MaxCalls)
Current(c) == <<c, calls[c]>>

Frame == [id : Nat, tag : Tag \cup {NoTag}]
Hello == [id |-> 0, tag |-> NoTag]
Idle == [id |-> 0, tag |-> NoTag, busy |-> FALSE]

FromPort == {"data", "error", "exit", "bad"}

Init ==
  /\ calls = [c \in Client |-> 0]
  /\ state = [c \in Client |-> "none"]
  /\ answer = [c \in Client |-> NoTag]
  /\ executed = [t \in Tag |-> 0]
  /\ server = "down"
  /\ gen = 0
  /\ nextReqId = 1
  /\ pending = {}
  /\ timers = {}
  /\ mailbox = <<>>
  /\ port = "closed"
  /\ pipe = <<>>
  /\ serving = Idle

-----------------------------------------------------------------------------
(* The callers.                                                            *)

Waiting(t) == \E c \in Client : state[c] = "open" /\ t = Current(c)

(* GenServer.reply to each call of tags: who still waits, gets it.         *)
Settle(tags, how) ==
  [c \in Client |-> IF state[c] = "open" /\ Current(c) \in tags THEN how
                                                               ELSE state[c]]

(* Worker.request/5: the call reaches the registered process, which may    *)
(* still be in init/1.                                                     *)
Request(c) ==
  /\ server # "down"
  /\ state[c] # "open"
  /\ calls[c] < MaxCalls
  /\ calls' = [calls EXCEPT ![c] = @ + 1]
  /\ state' = [state EXCEPT ![c] = "open"]
  /\ mailbox' = Append(mailbox, [kind |-> "call", id |-> 0, tag |-> <<c, calls[c] + 1>>])
  /\ UNCHANGED <<answer, executed, serverVars, portVars>>

-----------------------------------------------------------------------------
(* Stopping.  With the process goes its mailbox: callers whose request was *)
(* never handled exit with the server's reason.                            *)

Tags(P) == {p.tag : p \in P}
Queued == {mailbox[i].tag : i \in {j \in DOMAIN mailbox : mailbox[j].kind = "call"}}

ExitAll == Settle(Queued \cup Tags(pending), "exit")

FailQueued == Settle(Queued, "exit")                  \* mutant of FailAll

(* fail_all/2, then the exits of the queued callers.                       *)
FailAll ==
  [c \in Client |-> IF state[c] = "open" /\ Current(c) \in Tags(pending)
                    THEN "error" ELSE Settle(Queued, "exit")[c]]

Stop ==
  /\ server' = "down"
  /\ pending' = {}
  /\ timers' = {}
  /\ mailbox' = <<>>
  /\ port' = "closed"
  /\ pipe' = <<>>
  /\ serving' = Idle
  /\ UNCHANGED <<calls, answer, executed, gen, nextReqId>>

-----------------------------------------------------------------------------
(* init/1 and the supervisor.                                              *)

NextGeneration == gen + 1

(* A (re)start: a new generation, a new port, and hello written to it.     *)
Start ==
  /\ server = "down"
  /\ gen < MaxGen
  /\ server' = "init"
  /\ gen' = NextGeneration
  /\ nextReqId' = 1
  /\ port' = "open"
  /\ pipe' = <<Hello>>
  /\ UNCHANGED <<clientVars, executed, pending, timers, mailbox, serving>>

(* handshake/1 receives selectively: the first message of the port.        *)
FirstOfPort ==
  {i \in DOMAIN mailbox : /\ mailbox[i].kind \in FromPort
                          /\ \A j \in 1 .. i - 1 : mailbox[j].kind \notin FromPort}

Remove(i) == SubSeq(mailbox, 1, i - 1) \o SubSeq(mailbox, i + 1, Len(mailbox))

HandshakeOk ==
  /\ server = "init"
  /\ \E i \in FirstOfPort : /\ mailbox[i].kind = "data"
                            /\ mailbox' = Remove(i)
  /\ server' = "up"
  /\ UNCHANGED <<clientVars, executed, gen, nextReqId, pending, timers, portVars>>

(* A refusal, an undecodable frame, the exit of the process or 30 s of     *)
(* silence: init/1 stops.                                                  *)
HandshakeFails ==
  /\ server = "init"
  /\ \/ FirstOfPort = {}
     \/ \E i \in FirstOfPort : mailbox[i].kind # "data"
  /\ state' = ExitAll
  /\ Stop

-----------------------------------------------------------------------------
(* The server's loop: one message of the mailbox at a time.                *)

head == Head(mailbox)

Handling(kinds) ==
  /\ server = "up"
  /\ mailbox # <<>>
  /\ head.kind \in kinds

(* handle_call gives the request its id, writes it and starts its timer.   *)
(* Port.command suspends the server while the pipe is full.                *)
SameReqId == nextReqId                                \* mutant of BumpReqId
BumpReqId == nextReqId + 1

WriteTwice(f) == pipe \o <<f, f>>                     \* mutant of PortCommand
PortCommand(f) == Append(pipe, f)

SendAfter(id) == timers \cup {id}

HandleRequest ==
  /\ Handling({"call"})
  /\ port = "open"
  /\ Len(pipe) < PipeSize
  /\ pipe' = PortCommand([id |-> nextReqId, tag |-> head.tag])
  /\ pending' = {p \in pending : p.id # nextReqId}
                  \cup {[id |-> nextReqId, tag |-> head.tag]}
  /\ timers' = SendAfter(nextReqId)
  /\ nextReqId' = BumpReqId
  /\ mailbox' = Tail(mailbox)
  /\ UNCHANGED <<clientVars, executed, server, gen, port, serving>>

(* Port.command on a port that has closed raises ArgumentError: the server *)
(* dies before it comes to the port's exit message, and fail_all/2 does    *)
(* not run.                                                                *)
CommandRaises ==
  /\ Handling({"call"})
  /\ port = "closed"
  /\ state' = ExitAll
  /\ Stop

Entry(id) == {p \in pending : p.id = id}

(* deliver/4: the pending entry of the id is popped, its timer cancelled   *)
(* and its caller answered; a reply nobody is pending for is dropped.      *)
Deliver ==
  /\ Handling({"data", "error"})
  /\ mailbox' = Tail(mailbox)
  /\ pending' = pending \ Entry(head.id)
  /\ timers' = IF Entry(head.id) = {} THEN timers ELSE timers \ {head.id}
  /\ state' = Settle(Tags(Entry(head.id)), IF head.kind = "data" THEN "ok" ELSE "error")
  /\ answer' = [c \in Client |->
                  IF /\ head.kind = "data"
                     /\ state[c] = "open" /\ Current(c) \in Tags(Entry(head.id))
                  THEN head.tag ELSE answer[c]]
  /\ UNCHANGED <<calls, executed, server, gen, nextReqId, portVars>>

TimerFires(id) ==
  /\ id \in timers
  /\ timers' = timers \ {id}
  /\ mailbox' = Append(mailbox, [kind |-> "timeout", id |-> id, tag |-> NoTag])
  /\ UNCHANGED <<clientVars, executed, server, gen, nextReqId, pending, portVars>>

KeepPending == pending                                \* mutant of PopPending
PopPending == pending \ Entry(head.id)

(* handle_info {:request_timeout, id}: the caller is told, unless the      *)
(* answer came first.                                                      *)
HandleTimeout ==
  /\ Handling({"timeout"})
  /\ mailbox' = Tail(mailbox)
  /\ pending' = PopPending
  /\ state' = Settle(Tags(pending \ PopPending), "error")
  /\ UNCHANGED <<calls, answer, executed, server, gen, nextReqId, timers, portVars>>

(* exit_status and EXIT of the port, and a frame that does not decode.     *)
HandleExit ==
  /\ Handling({"exit", "bad"})
  /\ state' = FailAll
  /\ Stop

(* Something kills the server process.                                     *)
Killed ==
  /\ "kill" \in Faults
  /\ server # "down"
  /\ state' = ExitAll
  /\ Stop

-----------------------------------------------------------------------------
(* Python: main() reads a frame, handles it and writes the answer, with    *)
(* the id it read.                                                         *)

ReadFrame ==
  /\ port = "open"
  /\ ~serving.busy
  /\ pipe # <<>>
  /\ serving' = [id |-> Head(pipe).id, tag |-> Head(pipe).tag, busy |-> TRUE]
  /\ pipe' = Tail(pipe)
  /\ executed' = [t \in Tag |-> IF t = Head(pipe).tag THEN executed[t] + 1 ELSE executed[t]]
  /\ UNCHANGED <<clientVars, serverVars, mailbox, port>>

WriteFrame(kind) ==
  /\ port = "open"
  /\ serving.busy
  /\ kind = "error" => "worker_error" \in Faults
  /\ mailbox' = Append(mailbox, [kind |-> kind, id |-> serving.id, tag |-> serving.tag])
  /\ serving' = Idle
  /\ UNCHANGED <<clientVars, executed, serverVars, port, pipe>>

(* Anything else on stdout is taken for a frame.                           *)
StrayBytes ==
  /\ "bad_frame" \in Faults
  /\ port = "open"
  /\ serving.busy
  /\ mailbox' = Append(mailbox, [kind |-> "bad", id |-> 0, tag |-> NoTag])
  /\ serving' = Idle
  /\ UNCHANGED <<clientVars, executed, serverVars, port, pipe>>

(* The process ends: a signal, a fatal frame, the shutdown command.  The   *)
(* port delivers what was written, reports the exit and closes.            *)
PythonDies ==
  /\ port = "open"
  /\ port' = "closed"
  /\ pipe' = <<>>
  /\ serving' = Idle
  /\ mailbox' = Append(mailbox, [kind |-> "exit", id |-> 0, tag |-> NoTag])
  /\ UNCHANGED <<clientVars, executed, serverVars>>

-----------------------------------------------------------------------------
(* All calls made and answered, or the bound on restarts reached.          *)
Done ==
  /\ \A c \in Client : state[c] # "open"
  /\ \/ \A c \in Client : calls[c] = MaxCalls
     \/ server = "down" /\ gen = MaxGen
  /\ UNCHANGED vars

ServerStep ==
  \/ HandshakeOk \/ HandshakeFails
  \/ HandleRequest \/ CommandRaises \/ Deliver \/ HandleTimeout \/ HandleExit

PythonStep == ReadFrame \/ WriteFrame("data") \/ WriteFrame("error")

Next ==
  \/ \E c \in Client : Request(c)
  \/ Start
  \/ ServerStep
  \/ \E id \in timers : TimerFires(id)
  \/ Killed
  \/ PythonStep
  \/ StrayBytes
  \/ PythonDies
  \/ Done

Spec == Init /\ [][Next]_vars

(* The VM schedules the server and its timers expire.  Nothing is assumed  *)
(* of Python: it may hang for ever on any frame.                           *)
FairSpec ==
  /\ Spec
  /\ WF_vars(ServerStep)
  /\ WF_vars(Start)
  /\ WF_vars(\E id \in timers : TimerFires(id))

-----------------------------------------------------------------------------
(* Properties.                                                             *)

(* A client knows an answer from the end of a call that succeeded to the   *)
(* beginning of its next call.                                             *)
R == INSTANCE Rpc WITH
       calls <- calls,
       executed <- executed,
       state <- state,
       answer <- [c \in Client |-> IF state[c] = "ok" THEN answer[c] ELSE NoTag]

(* The whole machinery implements the abstract call: an answer is the      *)
(* answer to the caller's own, current, executed call, and no call is      *)
(* carried out twice, whatever dies, hangs or is late.                     *)
ImplementsRpc == R!Spec

(* Nobody waits in vain: an open call is in the mailbox of a living server *)
(* or in its pending map, and in one of them only.                         *)
EveryOpenCallIsHeld ==
  \A c \in Client : state[c] = "open" =>
    /\ server # "down"
    /\ (Current(c) \in Queued) # (Current(c) \in Tags(pending))

(* A frame that carries the id of a pending entry was computed for the     *)
(* call of that entry: ids are not reused while a frame is under way.      *)
FramesMatch ==
  \A p \in pending :
    /\ \A i \in DOMAIN pipe : pipe[i].id = p.id => pipe[i].tag = p.tag
    /\ serving.busy /\ serving.id = p.id => serving.tag = p.tag
    /\ \A i \in DOMAIN mailbox :
         mailbox[i].kind \in {"data", "error"} /\ mailbox[i].id = p.id
           => mailbox[i].tag = p.tag

(* handle_call sits in Port.command: the pipe is full.                     *)
Suspended ==
  /\ Handling({"call"})
  /\ port = "open"
  /\ Len(pipe) >= PipeSize

(* Every call ends, even if Python never answers anything, unless the      *)
(* server is in the end suspended for good on a pipe nobody reads.         *)
CallsReturn ==
  \/ \A c \in Client : state[c] = "open" ~> state[c] # "open"
  \/ <>[]Suspended

(* "In-flight callers are told the worker crashed": a call whose request   *)
(* is pending ends with an error reply, not with the exit of its caller.   *)
InFlightAreTold ==
  [][\A c \in Client :
       state[c] = "open" /\ Current(c) \in Tags(pending) => state'[c] # "exit"]_vars

=============================================================================
