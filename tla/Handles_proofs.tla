---------------------------- MODULE Handles_proofs ----------------------------
(*****************************************************************************)
(* Theorems about Handles, for every value of its constants and wherever     *)
(* restarts fall: its types and the uniqueness of handles; what is read and  *)
(* what stays resident; and the releases, each made at most once, with       *)
(* nothing kept that no one owns but by two accidents.                       *)
(*****************************************************************************)
EXTENDS Handles, FiniteSetTheorems, TLAPS

IsMade(k, r) == /\ r \in RefId
                /\ refs[r].state # "free"
                /\ refs[r].kind = k

MakingCommand == TensorMaking \cup {"compile"}
KindOf(cmd) == IF cmd = "compile" THEN "executable" ELSE "tensor"
UsesTensor == Reading \cup {"run_node", "execute"}
UsesExecutable == {"execute", "execute_host"}
UsesGraph == {"run_node", "compile"}

(* What the fields of a call or of a request hold, by its command; AsCall  *)
(* is for calls only (the reaper's releases use no arg).                   *)
Sorted(q) ==
  /\ q.cmd # "none"
  /\ q.arg # NoRef => IsMade("tensor", q.arg)
  /\ q.exe # NoRef => IsMade("executable", q.exe)
  /\ q.cmd \in UsesTensor => q.arg # NoRef
  /\ q.cmd \in UsesExecutable => q.exe # NoRef
  /\ q.cmd \in UsesGraph => q.val \in Graph
  /\ q.cmd = "upload" => q.val \in Data

RefSorted(r) ==
  refs[r].state # "free" =>
    /\ refs[r].handle \in 1 .. MaxId
    /\ refs[r].origin \in 1 .. gen
    /\ refs[r].kind = "tensor" => refs[r].val \in Data
    /\ refs[r].kind = "executable" => refs[r].val \in Graph

AsCall(q) ==
  /\ q.cmd = "release" => q.arg # NoRef
  /\ q.at = "replied" => q.origin \in 1 .. gen
  /\ q.at = "replied" /\ q.cmd \in MakingCommand => q.id \in 1 .. MaxId
  /\ q.at = "replied" /\ q.cmd \in TensorMaking => q.data \in Data
  /\ q.at = "replied" /\ q.cmd = "compile" => q.data \in Graph

CallSorted(c) == call[c].at # "idle" => Sorted(call[c]) /\ AsCall(call[c])

(* A request whose caller still waits is that caller's only one, and the   *)
(* one it waits for.                                                       *)
Matching(i) ==
  inbox[i].from \in Client =>
    /\ call[inbox[i].from].at = "wait"
    /\ call[inbox[i].from].cmd = inbox[i].cmd
    /\ \A j \in DOMAIN inbox : inbox[j].from = inbox[i].from => j = i

TableSorted ==
  /\ table["tensor"] \in [1 .. MaxId -> Data \cup {None}]
  /\ table["executable"] \in [1 .. MaxId -> Graph \cup {None}]
RefsSorted == \A r \in RefId : RefSorted(r)
CallsSorted == \A c \in Client : CallSorted(c)
InboxSorted == \A i \in DOMAIN inbox : Sorted(inbox[i]) /\ Matching(i)
CanRestart == ~up => gen < MaxGen

TInv == TypeOK /\ TableSorted /\ RefsSorted /\ CallsSorted /\ InboxSorted /\ CanRestart

-----------------------------------------------------------------------------
(* Sequences.                                                              *)

(* Taking a request off the inbox shifts the others down by one.           *)
LEMMA TailFacts ==
  ASSUME NEW S, NEW s \in Seq(S), s # <<>>
  PROVE  /\ Head(s) \in S
         /\ Head(s) = s[1]
         /\ 1 \in DOMAIN s
         /\ Tail(s) \in Seq(S)
         /\ \A i \in DOMAIN Tail(s) : i \in Nat /\ i + 1 \in DOMAIN s /\ i + 1 # 1
                                    /\ Tail(s)[i] = s[i + 1]
  OBVIOUS

(* Sending a request leaves those before it where they were.               *)
LEMMA AppendFacts ==
  ASSUME NEW S, NEW s \in Seq(S), NEW m \in S
  PROVE  /\ Append(s, m) \in Seq(S)
         /\ \A i \in DOMAIN Append(s, m) :
              \/ i \in DOMAIN s /\ Append(s, m)[i] = s[i]
              \/ i = Len(s) + 1 /\ i \notin DOMAIN s /\ Append(s, m)[i] = m
  OBVIOUS

(* A sequence mapped index by index keeps its length and its domain.       *)
LEMMA MapFacts ==
  ASSUME NEW S, NEW s \in Seq(S), NEW t, t = [i \in DOMAIN s |-> t[i]],
         \A i \in DOMAIN s : t[i] \in S
  PROVE  t \in Seq(S)
  OBVIOUS

-----------------------------------------------------------------------------
(* Type correctness.                                                       *)

(* The invariant holds at the start.                                       *)
LEMMA InitSorted == Init => TInv
  BY MeaningAssumption, BoundAssumption, DistinctAssumption
  DEF Init, TInv, TypeOK, TableSorted, RefsSorted, CallsSorted, InboxSorted, CanRestart,
      RefSorted, CallSorted, Sorted, Matching, Empty, FreeRef,
      Idle, ReaperIdle, Ref, Call, Kind, Value, Command, TensorMaking, Reading, Releases,
      NoHandles

(* A client in no operation is in a well-formed state.                     *)
LEMMA IdleIsCall == Idle \in Call
  BY BoundAssumption DEF Idle, Call, Command

(* A client that is not waiting goes on to rec.                            *)
LEMMA CallChanges ==
  ASSUME TInv, NEW c \in Client, NEW rec \in Call, call[c].at # "wait",
         rec.at # "idle" => Sorted(rec) /\ AsCall(rec),
         call' = [call EXCEPT ![c] = rec],
         UNCHANGED <<workerVars, inbox, refs, queue, cache, reaper>>
  PROVE  TInv'
<1>1. TypeOK'
  BY DEF TInv, TypeOK, workerVars
<1>2. CallsSorted'
  BY DEF TInv, TypeOK, CallsSorted, CallSorted, Sorted, AsCall, IsMade, workerVars
<1>3. InboxSorted'
  BY DEF TInv, TypeOK, InboxSorted, Matching, Sorted, IsMade, workerVars
<1> QED
  BY <1>1, <1>2, <1>3
  DEF TInv, TableSorted, RefsSorted, RefSorted, CanRestart, workerVars

(* A client that is not waiting has its request m sent.                    *)
LEMMA RequestSent ==
  ASSUME TInv, NEW c \in Client, NEW m \in Message, m.from = c, Sorted(m),
         NEW rec \in Call, rec.at = "wait", rec.cmd = m.cmd,
         Sorted(rec), AsCall(rec), call[c].at # "wait",
         call' = [call EXCEPT ![c] = rec],
         inbox' = Append(inbox, m),
         UNCHANGED <<workerVars, refs, queue, cache, reaper>>
  PROVE  TInv'
<1> inbox \in Seq(Message)
  BY DEF TInv, TypeOK
<1>1. TypeOK'
  BY AppendFacts DEF TInv, TypeOK, workerVars
<1>2. CallsSorted'
  BY DEF TInv, TypeOK, CallsSorted, CallSorted, Sorted, AsCall, IsMade, workerVars
<1>3. \A i \in DOMAIN inbox' : Sorted(inbox[i])'
  BY AppendFacts DEF TInv, InboxSorted, Sorted, IsMade, workerVars
<1>4. \A i \in DOMAIN inbox' : Matching(i)'
  BY AppendFacts DEF TInv, TypeOK, InboxSorted, Matching, workerVars
<1> QED
  BY <1>1, <1>2, <1>3, <1>4
  DEF TInv, InboxSorted, TableSorted, RefsSorted, RefSorted, CanRestart, workerVars

(* A reference is made, claimed or dropped; what was made stays as it is.  *)
RefKept(old, new) ==
  old.state # "free" =>
    /\ new.state # "free"
    /\ new.kind = old.kind
    /\ new.handle = old.handle
    /\ new.origin = old.origin
    /\ new.val = old.val

Complete(ref) ==
  ref.state # "free" =>
    /\ ref.handle \in 1 .. MaxId
    /\ ref.origin \in 1 .. gen
    /\ ref.kind = "tensor" => ref.val \in Data
    /\ ref.kind = "executable" => ref.val \in Graph

(* One reference changes, from free to made or by its state alone.         *)
LEMMA RefChanges ==
  ASSUME TInv, NEW r \in RefId, NEW new \in Ref, RefKept(refs[r], new), Complete(new),
         refs' = [refs EXCEPT ![r] = new],
         UNCHANGED <<workerVars, inbox>>
  PROVE  /\ refs' \in [RefId -> Ref]
         /\ RefsSorted'
         /\ \A q : Sorted(q) => Sorted(q)'
<1>1. refs' \in [RefId -> Ref]
  BY DEF TInv, TypeOK
<1>2. RefsSorted'
  BY DEF TInv, TypeOK, RefsSorted, RefSorted, Complete, workerVars
<1>3. \A k, s : IsMade(k, s) => IsMade(k, s)'
  BY DEF TInv, TypeOK, RefKept, IsMade
<1> QED
  BY <1>1, <1>2, <1>3 DEF Sorted, IsMade

(* The worker serves the first request; its caller, if it still waits,     *)
(* goes on to rec.                                                         *)
Reply(rec) ==
  call' = IF req.from \in Client THEN [call EXCEPT ![req.from] = rec] ELSE call

(* The worker takes a request and answers at most its own caller.          *)
LEMMA RequestServed ==
  ASSUME TInv, inbox # <<>>, NEW rec \in Call, rec.at # "wait",
         rec.at # "idle" => Sorted(rec) /\ AsCall(rec),
         Reply(rec),
         inbox' = Tail(inbox),
         UNCHANGED <<gen, up, refs>>
  PROVE  /\ inbox' \in Seq(Message)
         /\ call' \in [Client -> Call]
         /\ RefsSorted'
         /\ CallsSorted'
         /\ InboxSorted'
         /\ CanRestart'
<1> inbox \in Seq(Message)
  BY DEF TInv, TypeOK
<1>1. inbox' \in Seq(Message)
  BY TailFacts
<1>2. call' \in [Client -> Call]
  BY DEF TInv, TypeOK, Reply
<1>3. CallsSorted'
  BY SMTT(30) DEF TInv, TypeOK, CallsSorted, CallSorted, Sorted, AsCall, IsMade, Reply
<1>4. \A i \in DOMAIN inbox' : Sorted(inbox[i])'
  BY TailFacts DEF TInv, InboxSorted, Sorted, IsMade
<1>5. ASSUME NEW i \in DOMAIN inbox'
      PROVE  Matching(i)'
  <2>1. /\ i \in Nat /\ i + 1 \in DOMAIN inbox /\ i + 1 # 1 /\ 1 \in DOMAIN inbox
        /\ inbox'[i] = inbox[i + 1] /\ req = inbox[1]
    BY TailFacts DEF req
  <2> SUFFICES ASSUME inbox'[i].from \in Client
      PROVE  /\ call'[inbox'[i].from].at = "wait"
             /\ call'[inbox'[i].from].cmd = inbox'[i].cmd
             /\ \A j \in DOMAIN inbox' : inbox'[j].from = inbox'[i].from => j = i
    BY DEF Matching
  <2>2. /\ call[inbox[i + 1].from].at = "wait"
        /\ call[inbox[i + 1].from].cmd = inbox[i + 1].cmd
        /\ \A j \in DOMAIN inbox : inbox[j].from = inbox[i + 1].from => j = i + 1
    BY <2>1 DEF TInv, InboxSorted, Matching
  <2>3. inbox[i + 1].from # req.from
    BY <2>1, <2>2
  <2>4. call'[inbox[i + 1].from] = call[inbox[i + 1].from]
    BY <2>1, <2>3 DEF TInv, TypeOK, Reply
  <2>5. ASSUME NEW j \in DOMAIN inbox', inbox'[j].from = inbox'[i].from
        PROVE  j = i
    <3>1. j \in Nat /\ j + 1 \in DOMAIN inbox /\ inbox'[j] = inbox[j + 1]
      BY TailFacts
    <3> QED
      BY <2>1, <2>2, <2>5, <3>1
  <2> QED
    BY <2>1, <2>2, <2>4, <2>5
<1> QED
  BY <1>1, <1>2, <1>3, <1>4, <1>5
  DEF TInv, InboxSorted, RefsSorted, RefSorted, CanRestart

(* The request at the head is well formed and matches its caller.          *)
LEMMA FirstRequest ==
  ASSUME TInv, inbox # <<>>
  PROVE  /\ req \in Message
         /\ Sorted(req)
         /\ req.from \in Client =>
              /\ call[req.from].at = "wait"
              /\ call[req.from].cmd = req.cmd
<1> inbox \in Seq(Message)
  BY DEF TInv, TypeOK
<1> QED
  BY TailFacts DEF TInv, InboxSorted, Matching, req

(* An abandoned request is nobody's.                                       *)
LEMMA RequestOrphaned ==
  ASSUME TInv, NEW from, Orphan(from), refs' = refs
  PROVE  /\ inbox' \in Seq(Message)
         /\ \A i \in DOMAIN inbox' :
              /\ i \in DOMAIN inbox
              /\ Sorted(inbox[i])'
              /\ inbox'[i].from = IF inbox[i].from = from THEN Nobody ELSE inbox[i].from
              /\ inbox'[i].cmd = inbox[i].cmd
              /\ inbox'[i].arg = inbox[i].arg
              /\ inbox'[i].exe = inbox[i].exe
              /\ inbox'[i].val = inbox[i].val
              /\ inbox'[i].ids = inbox[i].ids
              /\ inbox'[i].seen = inbox[i].seen
<1> inbox \in Seq(Message)
  BY DEF TInv, TypeOK
<1>1. /\ DOMAIN inbox' = DOMAIN inbox
      /\ \A i \in DOMAIN inbox :
           inbox'[i] = IF inbox[i].from = from THEN [inbox[i] EXCEPT !.from = Nobody]
                                               ELSE inbox[i]
  BY DEF Orphan
<1>2. \A i \in DOMAIN inbox : inbox[i] \in Message
  OBVIOUS
<1>3. \A i \in DOMAIN inbox :
        /\ inbox'[i] \in Message
        /\ inbox'[i].from = IF inbox[i].from = from THEN Nobody ELSE inbox[i].from
        /\ inbox'[i].cmd = inbox[i].cmd
        /\ inbox'[i].arg = inbox[i].arg
        /\ inbox'[i].exe = inbox[i].exe
        /\ inbox'[i].val = inbox[i].val
        /\ inbox'[i].ids = inbox[i].ids
        /\ inbox'[i].seen = inbox[i].seen
  <2> SUFFICES ASSUME NEW i \in DOMAIN inbox
               PROVE  /\ inbox'[i] \in Message
                      /\ inbox'[i].from = IF inbox[i].from = from THEN Nobody
                                                                   ELSE inbox[i].from
                      /\ inbox'[i].cmd = inbox[i].cmd
                      /\ inbox'[i].arg = inbox[i].arg
                      /\ inbox'[i].exe = inbox[i].exe
                      /\ inbox'[i].val = inbox[i].val
                      /\ inbox'[i].ids = inbox[i].ids
                      /\ inbox'[i].seen = inbox[i].seen
    OBVIOUS
  <2>1. inbox[i] \in Message
    BY <1>2
  <2>2. CASE inbox[i].from = from
    BY <1>1, <2>1, <2>2 DEF Message
  <2>3. CASE inbox[i].from # from
    BY <1>1, <2>1, <2>3
  <2> QED
    BY <2>2, <2>3
<1>4. inbox' = [i \in DOMAIN inbox |-> inbox'[i]]
  BY DEF Orphan
<1>5. inbox' \in Seq(Message)
  BY <1>3, <1>4, MapFacts
<1> QED
  BY <1>1, <1>3, <1>5 DEF TInv, InboxSorted, Sorted, IsMade

(* to_binary/2 up to its request keeps the invariant.                      *)
LEMMA ToBinaryTyped ==
  ASSUME TInv, NEW c \in Client, NEW r \in RefId, ToBinary(c, r)
  PROVE  TInv'
<1> DEFINE rec == [Idle EXCEPT !.at = "checked", !.cmd = "download",
                               !.arg = r, !.seen = gen]
<1> gen \in 0 .. MaxGen
  BY BoundAssumption DEF TInv, TypeOK
<1>1. rec \in Call
  BY IdleIsCall
  DEF Call, Command, Value, TensorMaking, Reading, Releases, UsesExecutable
<1>2. Sorted(rec) /\ AsCall(rec)
  BY DistinctAssumption
  DEF ToBinary, InHand, Idle, Sorted, AsCall, IsMade, TensorMaking, Reading,
      MakingCommand, UsesTensor, UsesExecutable, UsesGraph
<1> QED
  BY <1>1, <1>2, CallChanges DEF ToBinary, Begin, workerVars

(* eager!/5 up to its request keeps the invariant.                         *)
LEMMA EagerTyped ==
  ASSUME TInv, NEW c \in Client, NEW g \in Graph, NEW r \in RefId, Eager(c, g, r)
  PROVE  TInv'
<1> DEFINE rec == [Idle EXCEPT !.at = "checked", !.cmd = "run_node",
                               !.val = g, !.arg = r, !.seen = gen]
<1> gen \in 0 .. MaxGen
  BY BoundAssumption DEF TInv, TypeOK
<1>1. rec \in Call
  BY IdleIsCall
  DEF Call, Command, Value, TensorMaking, Reading, Releases, UsesExecutable
<1>2. Sorted(rec) /\ AsCall(rec)
  BY DistinctAssumption
  DEF Eager, InHand, Idle, Sorted, AsCall, IsMade, TensorMaking, Reading,
      MakingCommand, UsesTensor, UsesExecutable, UsesGraph
<1> QED
  BY <1>1, <1>2, CallChanges DEF Eager, Begin, workerVars

(* run_one/2 up to its request keeps the invariant.                        *)
LEMMA RunOneTyped ==
  ASSUME TInv, NEW c \in Client, NEW e \in RefId, NEW r \in RefId,
         NEW cmd \in UsesExecutable, RunOne(c, e, r, cmd)
  PROVE  TInv'
<1> DEFINE rec == [Idle EXCEPT !.at = "checked", !.cmd = cmd,
                               !.arg = r, !.exe = e, !.seen = gen]
<1> gen \in 0 .. MaxGen
  BY BoundAssumption DEF TInv, TypeOK
<1>1. rec \in Call
  BY IdleIsCall
  DEF Call, Command, Value, TensorMaking, Reading, Releases, UsesExecutable
<1>2. Sorted(rec) /\ AsCall(rec)
  BY DistinctAssumption
  DEF RunOne, InHand, Idle, Sorted, AsCall, IsMade, TensorMaking, Reading,
      MakingCommand, UsesTensor, UsesExecutable, UsesGraph
<1> QED
  BY <1>1, <1>2, CallChanges DEF RunOne, Begin, workerVars

(* A cache miss keeps the invariant.                                       *)
LEMMA EnsureCompiledTyped ==
  ASSUME TInv, NEW c \in Client, NEW g \in Graph, EnsureCompiled(c, g)
  PROVE  TInv'
<1> DEFINE rec == [Idle EXCEPT !.at = "checked", !.cmd = "compile",
                               !.val = g, !.seen = gen]
<1> gen \in 0 .. MaxGen
  BY BoundAssumption DEF TInv, TypeOK
<1>1. rec \in Call
  BY IdleIsCall
  DEF Call, Command, Value, TensorMaking, Reading, Releases, UsesExecutable
<1>2. Sorted(rec) /\ AsCall(rec)
  BY DistinctAssumption
  DEF EnsureCompiled, Idle, Sorted, AsCall, IsMade, TensorMaking, Reading,
      MakingCommand, UsesTensor, UsesExecutable, UsesGraph
<1> QED
  BY <1>1, <1>2, CallChanges DEF EnsureCompiled, Begin, workerVars

(* from_binary/3 and its request keep the invariant.                       *)
LEMMA FromBinaryTyped ==
  ASSUME TInv, NEW c \in Client, NEW d \in Data, FromBinary(c, d)
  PROVE  TInv'
<1> DEFINE rec == [Idle EXCEPT !.at = "wait", !.cmd = "upload", !.val = d, !.seen = gen]
           m == [from |-> c, cmd |-> "upload", arg |-> NoRef,
                 exe |-> NoRef, val |-> d, ids |-> {}, seen |-> gen]
<1> gen \in 0 .. MaxGen
  BY BoundAssumption DEF TInv, TypeOK
<1>1. rec \in Call
  BY IdleIsCall DEF Call, Command, Value, TensorMaking
<1>2. Sorted(rec) /\ AsCall(rec) /\ rec.at = "wait" /\ rec.cmd = m.cmd
  BY DEF Idle, Sorted, AsCall, Reading, UsesTensor, UsesExecutable, UsesGraph
<1>3. m \in Message
  BY DEF Message, Command, Value, TensorMaking
<1>4. Sorted(m) /\ m.from = c
  BY DEF Sorted, Reading, UsesTensor, UsesExecutable, UsesGraph
<1> QED
  BY <1>1, <1>2, <1>3, <1>4, RequestSent DEF FromBinary, Begin, workerVars

(* A prepared request is sent.                                             *)
LEMMA SendTyped ==
  ASSUME TInv, NEW c \in Client, Send(c)
  PROVE  TInv'
<1> DEFINE rec == [call[c] EXCEPT !.at = "wait"]
           m == [from |-> c, cmd |-> call[c].cmd, arg |-> call[c].arg,
                 exe |-> call[c].exe, val |-> call[c].val,
                 ids |-> IF call[c].cmd = "release" THEN {call[c].arg} ELSE {},
                 seen |-> call[c].seen]
<1>1. call[c] \in Call /\ call[c].at = "checked" /\ Sorted(call[c]) /\ AsCall(call[c])
  BY DEF Send, TInv, TypeOK, CallsSorted, CallSorted
<1>2. rec \in Call /\ Sorted(rec) /\ AsCall(rec) /\ rec.at = "wait" /\ rec.cmd = m.cmd
  BY <1>1 DEF Call, Sorted, AsCall, IsMade
<1>3. /\ m.from = c /\ m.cmd = call[c].cmd /\ m.arg = call[c].arg
      /\ m.exe = call[c].exe /\ m.val = call[c].val
  OBVIOUS
<1>4. Sorted(m)
  BY <1>1, <1>3 DEF Sorted, IsMade
<1>5. m.ids \in SUBSET RefId
  BY <1>1 DEF Sorted, AsCall, IsMade, Call
<1>6. m \in Message
  BY <1>1, <1>5 DEF Call, Message, Sorted
<1>7. /\ call' = [call EXCEPT ![c] = rec]
      /\ inbox' = Append(inbox, m)
  BY DEF Send
<1> QED
  BY <1>1, <1>2, <1>3, <1>4, <1>6, <1>7, RequestSent DEF Send, workerVars

(* A client that returns or exits keeps the invariant.                     *)
LEMMA BackToIdle ==
  ASSUME TInv, NEW c \in Client, SendExits(c) \/ BuildExits(c) \/ Return(c)
  PROVE  TInv'
<1>1. call[c].at # "wait" /\ Idle.at = "idle"
  BY DEF SendExits, BuildExits, Return, Idle
<1> QED
  BY <1>1, IdleIsCall, CallChanges DEF SendExits, BuildExits, Return, workerVars

(* Every step of a client that makes no reference keeps the invariant.     *)
LEMMA ClientMoves ==
  ASSUME TInv, NEW c \in Client, NEW rec \in Call, call[c].at # "wait",
         rec.at # "idle" => Sorted(rec) /\ AsCall(rec),
         call' = [call EXCEPT ![c] = rec],
         \A q : Sorted(q) => Sorted(q)',
         UNCHANGED <<workerVars, inbox>>
  PROVE  /\ call' \in [Client -> Call]
         /\ CallsSorted'
         /\ InboxSorted'
<1>1. call' \in [Client -> Call]
  BY DEF TInv, TypeOK
<1>2. \A a \in Client : call'[a] = IF a = c THEN rec ELSE call[a]
  BY DEF TInv, TypeOK
<1>3. \A a \in Client : call'[a].at # "idle" => Sorted(call'[a]) /\ AsCall(call'[a])
  BY <1>2 DEF TInv, CallsSorted, CallSorted
<1>4. \A a \in Client : call'[a].at # "idle" => Sorted(call[a])' /\ AsCall(call[a])'
  <2> SUFFICES ASSUME NEW a \in Client, call'[a].at # "idle"
               PROVE  Sorted(call[a])' /\ AsCall(call[a])'
    OBVIOUS
  <2> DEFINE q == call'[a]
  <2>1. Sorted(q) /\ AsCall(q)
    BY <1>3
  <2>2. PICK x : x = q
    OBVIOUS
  <2>3. Sorted(x)'
    BY <2>1, <2>2
  <2> QED
    BY <2>1, <2>2, <2>3 DEF Sorted, IsMade, AsCall, workerVars
<1>5. \A i \in DOMAIN inbox' : Sorted(inbox[i])'
  <2> SUFFICES ASSUME NEW i \in DOMAIN inbox PROVE Sorted(inbox[i])'
    BY DEF workerVars
  <2>1. PICK x : x = inbox[i]
    OBVIOUS
  <2>2. Sorted(x)'
    BY <2>1 DEF TInv, InboxSorted
  <2> QED
    BY <2>1, <2>2 DEF Sorted, IsMade
<1>6. \A i \in DOMAIN inbox' : Matching(i)'
  BY <1>2 DEF TInv, TypeOK, InboxSorted, Matching
<1> QED
  BY <1>1, <1>4, <1>5, <1>6 DEF CallsSorted, CallSorted, InboxSorted

(* backend_deallocate/1 up to its request keeps the invariant.             *)
LEMMA DeallocateTyped ==
  ASSUME TInv, NEW c \in Client, NEW r \in RefId, Deallocate(c, r)
  PROVE  TInv'
<1> DEFINE new == [refs[r] EXCEPT !.state = "taken"]
           rec == IF CheckFresh(r)
                  THEN [Idle EXCEPT !.at = "checked", !.cmd = "release", !.arg = r,
                                    !.seen = gen]
                  ELSE Idle
<1> gen \in 0 .. MaxGen
  BY BoundAssumption DEF TInv, TypeOK
<1>1. new \in Ref /\ RefKept(refs[r], new) /\ Complete(new)
  BY DEF Deallocate, Unclaimed, TInv, TypeOK, RefsSorted, RefSorted, Ref, RefKept, Complete
<1>2. rec \in Call
  BY IdleIsCall DEF Call, Command, Releases
<1>3. rec.at # "idle" => Sorted(rec) /\ AsCall(rec)
  BY DistinctAssumption
  DEF Deallocate, Unclaimed, Idle, Sorted, AsCall, IsMade, TensorMaking, Reading,
      MakingCommand, UsesTensor, UsesExecutable, UsesGraph
<1>4. /\ refs' = [refs EXCEPT ![r] = new]
      /\ call' = [call EXCEPT ![c] = rec]
      /\ call[c].at # "wait"
      /\ UNCHANGED <<workerVars, inbox, queue, cache, reaper>>
  BY DEF Deallocate, Begin
<1>5. refs' \in [RefId -> Ref] /\ RefsSorted' /\ \A q : Sorted(q) => Sorted(q)'
  BY <1>1, <1>4, RefChanges
<1>6. call' \in [Client -> Call] /\ CallsSorted' /\ InboxSorted'
  BY <1>2, <1>3, <1>4, <1>5, ClientMoves
<1> QED
  BY <1>4, <1>5, <1>6 DEF TInv, TypeOK, TableSorted, CanRestart, workerVars

(* build/4 wraps a reply in a new tensor reference.                        *)
LEMMA BuildTyped ==
  ASSUME TInv, NEW c \in Client, NEW r \in RefId, Build(c, r)
  PROVE  TInv'
<1> DEFINE new == [state |-> "live", kind |-> "tensor", gen |-> BuildLabel,
                   handle |-> call[c].id, origin |-> call[c].origin, val |-> call[c].data]
<1>1. call[c].data \in Data
  BY DEF Build, TInv, TypeOK, CallsSorted, CallSorted, AsCall
<1>2. call[c].id \in 1 .. MaxId /\ call[c].origin \in 1 .. gen
  BY DEF Build, TInv, TypeOK, CallsSorted, CallSorted, AsCall, MakingCommand
<1>3. gen \in 0 .. MaxGen /\ call[c].id \in 0 .. MaxId /\ call[c].origin \in 0 .. MaxGen
  BY <1>2, BoundAssumption DEF TInv, TypeOK
<1>4. new \in Ref /\ RefKept(refs[r], new) /\ Complete(new)
  BY <1>1, <1>2, <1>3 DEF Build, BuildLabel, Free, Ref, Kind, Value, RefKept, Complete
<1>5. /\ refs' = [refs EXCEPT ![r] = new]
      /\ call' = [call EXCEPT ![c] = Idle]
      /\ call[c].at # "wait" /\ Idle.at = "idle"
      /\ UNCHANGED <<workerVars, inbox, queue, cache, reaper>>
  BY DEF Build, Idle
<1>6. refs' \in [RefId -> Ref] /\ RefsSorted' /\ \A q : Sorted(q) => Sorted(q)'
  BY <1>4, <1>5, RefChanges
<1>7. call' \in [Client -> Call] /\ CallsSorted' /\ InboxSorted'
  BY <1>5, <1>6, IdleIsCall, ClientMoves
<1> QED
  BY <1>5, <1>6, <1>7 DEF TInv, TypeOK, TableSorted, CanRestart, workerVars

(* compile_entry/4 wraps a reply in a new executable reference.            *)
LEMMA CompileEntryTyped ==
  ASSUME TInv, NEW c \in Client, NEW r \in RefId, CompileEntry(c, r)
  PROVE  TInv'
<1> DEFINE new == [state |-> "live", kind |-> "executable", gen |-> CompileLabel(c),
                   handle |-> call[c].id, origin |-> call[c].origin, val |-> call[c].data]
<1>1. call[c] \in Call /\ Sorted(call[c]) /\ AsCall(call[c])
      /\ call[c].at = "replied" /\ call[c].cmd = "compile" /\ refs[r].state = "free"
  BY DEF CompileEntry, Free, TInv, TypeOK, CallsSorted, CallSorted
<1>2. call[c].id \in 1 .. MaxId /\ call[c].origin \in 1 .. gen
      /\ call[c].val \in Graph /\ call[c].data \in Graph
  BY <1>1 DEF AsCall, Sorted, MakingCommand, UsesGraph
<1>3. call[c].seen \in 0 .. MaxGen /\ call[c].id \in 0 .. MaxId /\ call[c].origin \in 0 .. MaxGen
  BY <1>1 DEF Call
<1>4. new \in Ref /\ RefKept(refs[r], new) /\ Complete(new)
  BY <1>1, <1>2, <1>3 DEF CompileLabel, Ref, Kind, Value, RefKept, Complete
<1>5. /\ refs' = [refs EXCEPT ![r] = new]
      /\ call' = [call EXCEPT ![c] = Idle]
      /\ call[c].at # "wait" /\ Idle.at = "idle"
      /\ CachePut(call[c].val, r)
      /\ UNCHANGED <<workerVars, inbox, queue, reaper>>
  BY <1>1 DEF CompileEntry, Idle
<1>6. refs' \in [RefId -> Ref] /\ RefsSorted' /\ \A q : Sorted(q) => Sorted(q)'
  BY <1>4, <1>5, RefChanges
<1>7. call' \in [Client -> Call] /\ CallsSorted' /\ InboxSorted'
  BY <1>5, <1>6, IdleIsCall, ClientMoves
<1>8. cache' \in [Graph -> RefId \cup {NoRef}]
  BY <1>2, <1>5 DEF CachePut, TInv, TypeOK
<1> QED
  BY <1>5, <1>6, <1>7, <1>8 DEF TInv, TypeOK, TableSorted, CanRestart, workerVars

(* A client gives up on its request.                                       *)
LEMMA TimeoutTyped ==
  ASSUME TInv, NEW c \in Client, Timeout(c)
  PROVE  TInv'
<1>1. /\ Orphan(c) /\ call' = [call EXCEPT ![c] = Idle] /\ Idle.at = "idle"
      /\ UNCHANGED <<workerVars, refs, queue, cache, reaper>>
  BY DEF Timeout, Idle
<1>2. /\ inbox' \in Seq(Message)
      /\ \A i \in DOMAIN inbox' :
           /\ i \in DOMAIN inbox
           /\ Sorted(inbox[i])'
           /\ inbox'[i].from = IF inbox[i].from = c THEN Nobody ELSE inbox[i].from
           /\ inbox'[i].cmd = inbox[i].cmd
  BY <1>1, RequestOrphaned
<1>3. call' \in [Client -> Call]
  BY <1>1, IdleIsCall DEF TInv, TypeOK
<1>4. CallsSorted'
  BY <1>1, DistinctAssumption
  DEF TInv, TypeOK, CallsSorted, CallSorted, Sorted, AsCall, IsMade, workerVars
<1>5. \A i \in DOMAIN inbox' : Matching(i)'
  BY <1>1, <1>2, DistinctAssumption DEF TInv, TypeOK, InboxSorted, Matching
<1> QED
  BY <1>1, <1>2, <1>3, <1>4, <1>5
  DEF TInv, TypeOK, InboxSorted, TableSorted, RefsSorted, RefSorted, CanRestart, workerVars

(* The collector drops a reference.                                        *)
LEMMA DropTyped ==
  ASSUME TInv, NEW r \in RefId, Drop(r)
  PROVE  TInv'
<1> DEFINE new == [refs[r] EXCEPT !.state = "dropped"]
<1>1. new \in Ref /\ RefKept(refs[r], new) /\ Complete(new)
  <2>1. refs[r] \in Ref
    BY DEF TInv, TypeOK
  <2> new \in Ref
    BY <2>1 DEF Ref
  <2>2. RefKept(refs[r], new)
    BY <2>1 DEF Drop, Unclaimed, RefKept, Ref
  <2>3. Complete(new)
    BY <2>1 DEF TInv, RefsSorted, RefSorted, Complete, Drop, Unclaimed, Ref
  <2> QED
    BY <2>1, <2>2, <2>3
<1>2. /\ refs' = [refs EXCEPT ![r] = new] /\ queue' \in SUBSET RefId
      /\ UNCHANGED <<workerVars, inbox, cache, call, reaper>>
  BY DEF Drop, Push, TInv, TypeOK
<1>3. refs' \in [RefId -> Ref] /\ RefsSorted'
  BY <1>1, <1>2, RefChanges
<1>4. \A k, s : IsMade(k, s) => IsMade(k, s)'
  BY <1>1, <1>2 DEF TInv, TypeOK, IsMade, RefKept
<1>5. CallsSorted' /\ InboxSorted'
  BY <1>2, <1>4
  DEF TInv, CallsSorted, CallSorted, InboxSorted, Sorted, AsCall, Matching, workerVars
<1> QED
  BY <1>2, <1>3, <1>5 DEF TInv, TypeOK, TableSorted, CanRestart, workerVars

(* The idle reaper is in a well-formed state.                              *)
LEMMA ReaperIdleIsReaper ==
  ReaperIdle \in [at : {"idle", "group", "send", "wait"}, phase : Kind,
                 entries : SUBSET RefId, ids : SUBSET RefId, seen : 0 .. MaxGen]
  BY BoundAssumption DEF ReaperIdle, Kind

(* So is the reaper when it goes on to the next kind.                      *)
LEMMA NextPhaseIsReaper ==
  ASSUME TInv
  PROVE  NextPhase \in [at : {"idle", "group", "send", "wait"}, phase : Kind,
                       entries : SUBSET RefId, ids : SUBSET RefId, seen : 0 .. MaxGen]
  BY ReaperIdleIsReaper, BoundAssumption DEF NextPhase, TInv, TypeOK, Kind

(* What is in the tables, the references and the calls does not move.      *)
LEMMA RestSorted ==
  ASSUME TInv, UNCHANGED <<workerVars, refs, cache, call>>
  PROVE  TableSorted' /\ RefsSorted' /\ CallsSorted' /\ CanRestart'
<1>1. TableSorted' /\ CanRestart'
  BY DEF TInv, TableSorted, CanRestart, workerVars
<1>2. RefsSorted'
  BY DEF TInv, RefsSorted, RefSorted, workerVars
<1>3. CallsSorted'
  BY DEF TInv, CallsSorted, CallSorted, Sorted, AsCall, IsMade, workerVars
<1> QED
  BY <1>1, <1>2, <1>3

(* The reaper moves and nothing else does but the queue.                   *)
LEMMA ReaperMoves ==
  ASSUME TInv, Drain \/ ReleaseGroup \/ ReaperExits
  PROVE  TInv'
<1>1. UNCHANGED <<workerVars, inbox, refs, cache, call>> /\ queue' \in SUBSET RefId
  BY DEF Drain, ReleaseGroup, ReaperExits, TInv, TypeOK
<1>2. reaper' \in [at : {"idle", "group", "send", "wait"}, phase : Kind,
                  entries : SUBSET RefId, ids : SUBSET RefId, seen : 0 .. MaxGen]
  <2>1. CASE Drain
    BY <2>1, ReaperIdleIsReaper DEF Drain, TInv, TypeOK
  <2>2. CASE ReleaseGroup
    <3>1. Current \in SUBSET RefId
      BY DEF Current, TInv, TypeOK
    <3> gen \in 0 .. MaxGen
      BY BoundAssumption DEF TInv, TypeOK
    <3> QED
      BY <2>2, <3>1, NextPhaseIsReaper DEF ReleaseGroup, TInv, TypeOK
  <2>3. CASE ReaperExits
    BY <2>3, ReaperIdleIsReaper DEF ReaperExits
  <2> QED
    BY <2>1, <2>2, <2>3
<1>3. TypeOK'
  BY <1>1, <1>2 DEF TInv, TypeOK, workerVars
<1>4. InboxSorted'
  BY <1>1 DEF TInv, InboxSorted, Sorted, IsMade, Matching, workerVars
<1> QED
  BY <1>1, <1>3, <1>4, RestSorted DEF TInv

(* The reaper's request names only references.                             *)
LEMMA ReaperSendTyped ==
  ASSUME TInv, ReaperSend
  PROVE  TInv'
<1> DEFINE m == [from |-> Reaper, arg |-> NoRef, exe |-> NoRef, val |-> None,
                 cmd |-> IF reaper.phase = "tensor" THEN "release"
                                                    ELSE "release_executable",
                 ids |-> reaper.ids, seen |-> reaper.seen]
<1> inbox \in Seq(Message)
  BY DEF TInv, TypeOK
<1>1. m \in Message /\ m.from \notin Client
  BY DistinctAssumption DEF Message, Command, Releases, TInv, TypeOK
<1>2. Sorted(m)
  BY DEF Sorted, TensorMaking, Reading, UsesTensor, UsesExecutable, UsesGraph
<1>3. /\ inbox' = Append(inbox, m)
      /\ UNCHANGED <<workerVars, refs, queue, cache, call>>
  BY DEF ReaperSend
<1>4. reaper' \in [at : {"idle", "group", "send", "wait"}, phase : Kind,
                  entries : SUBSET RefId, ids : SUBSET RefId, seen : 0 .. MaxGen]
  <2>1. 0 \in 0 .. MaxGen
    BY BoundAssumption
  <2> QED
    BY <2>1 DEF ReaperSend, TInv, TypeOK
<1>5. inbox' \in Seq(Message)
  BY <1>1, <1>3, AppendFacts
<1>6. \A i \in DOMAIN inbox' : Sorted(inbox[i])'
  BY <1>1, <1>2, <1>3, AppendFacts DEF TInv, InboxSorted, Sorted, IsMade
<1>7. \A i \in DOMAIN inbox' : Matching(i)'
  BY <1>1, <1>3, AppendFacts DEF TInv, InboxSorted, Matching
<1>8. TypeOK'
  BY <1>3, <1>4, <1>5 DEF TInv, TypeOK, workerVars
<1>9. InboxSorted'
  BY <1>6, <1>7 DEF InboxSorted
<1> QED
  BY <1>3, <1>8, <1>9, RestSorted DEF TInv

(* The reaper gives up on its request.                                     *)
LEMMA ReaperTimeoutTyped ==
  ASSUME TInv, ReaperTimeout
  PROVE  TInv'
<1>1. /\ Orphan(Reaper) /\ reaper' = NextPhase
      /\ UNCHANGED <<workerVars, refs, queue, cache, call>>
  BY DEF ReaperTimeout
<1>2. /\ inbox' \in Seq(Message)
      /\ \A i \in DOMAIN inbox' :
           /\ i \in DOMAIN inbox
           /\ Sorted(inbox[i])'
           /\ inbox'[i].from = IF inbox[i].from = Reaper THEN Nobody ELSE inbox[i].from
           /\ inbox'[i].cmd = inbox[i].cmd
  BY <1>1, RequestOrphaned
<1>3. \A i \in DOMAIN inbox' : Matching(i)'
  BY <1>1, <1>2, DistinctAssumption DEF TInv, TypeOK, InboxSorted, Matching
<1>4. TypeOK'
  BY <1>1, <1>2, NextPhaseIsReaper DEF TInv, TypeOK, workerVars
<1>5. InboxSorted'
  BY <1>2, <1>3 DEF InboxSorted
<1> QED
  BY <1>1, <1>4, <1>5, RestSorted DEF TInv

(* A content is put under the next handle of a registry.                   *)
LEMMA PutTyped ==
  ASSUME TInv, NEW cmds, Serving(cmds), req.cmd \in MakingCommand,
         NEW k \in Kind, k = KindOf(req.cmd),
         NEW v, v \in (IF k = "tensor" THEN Data ELSE Graph),
         Put(k, v)
  PROVE  TInv'
<1> DEFINE rec == [call[req.from] EXCEPT !.at = "replied", !.id = nextId[k],
                                         !.origin = gen, !.data = v]
<1>1. /\ inbox # <<>> /\ inbox' = Tail(inbox) /\ nextId[k] \in 1 .. MaxId
      /\ table' = [table EXCEPT ![k][nextId[k]] = v]
      /\ nextId' = [nextId EXCEPT ![k] = @ + 1]
      /\ UNCHANGED <<gen, up, strayed, refs, queue, cache, reaper>>
      /\ lost' = lost \/ lost' = [lost EXCEPT ![k] = @ \cup {nextId[k]}]
  BY DEF Serving, Put, AllocateId, TInv, TypeOK
<1>2. TableSorted' /\ table' \in [Kind -> [1 .. MaxId -> Value \cup {None}]]
  BY <1>1 DEF TInv, TypeOK, TableSorted, Kind, Value
<1>3. nextId' \in [Kind -> 1 .. MaxId + 1]
  BY <1>1, BoundAssumption DEF TInv, TypeOK
<1>4. /\ inbox' \in Seq(Message) /\ call' \in [Client -> Call]
      /\ RefsSorted' /\ CallsSorted' /\ InboxSorted' /\ CanRestart'
  <2>1. CASE req.from \in Client
    <3>1. /\ call[req.from] \in Call /\ call[req.from].at = "wait"
          /\ call[req.from].cmd = req.cmd
          /\ Sorted(call[req.from]) /\ AsCall(call[req.from])
      BY <1>1, <2>1, FirstRequest DEF TInv, TypeOK, CallsSorted, CallSorted
    <3>2. nextId[k] \in 0 .. MaxId /\ gen \in 0 .. MaxGen /\ gen \in 1 .. gen
      BY <1>1, BoundAssumption DEF TInv, TypeOK
    <3>3. v \in Value /\ k = (IF req.cmd = "compile" THEN "executable" ELSE "tensor")
      BY DEF Value, KindOf
    <3>4. rec \in Call /\ rec.at = "replied"
      BY <3>1, <3>2, <3>3 DEF Call
    <3>5. Sorted(rec)
      BY <3>1 DEF Sorted, IsMade, Call
    <3>6. AsCall(rec)
      BY <1>1, <3>1, <3>2, <3>3 DEF AsCall, Call, TensorMaking
    <3>7. Reply(rec)
      BY <2>1, <3>1 DEF Reply, Put, AllocateId, TInv, TypeOK
    <3> QED
      BY <1>1, <3>4, <3>5, <3>6, <3>7, RequestServed
  <2>2. CASE req.from \notin Client
    BY <1>1, <2>2, IdleIsCall, RequestServed DEF Reply, Idle, Put
  <2> QED
    BY <2>1, <2>2
<1>5. lost' \in [Kind -> SUBSET (1 .. MaxId)]
  <2>1. lost \in [Kind -> SUBSET (1 .. MaxId)]
    BY DEF TInv, TypeOK
  <2>2. lost[k] \cup {nextId[k]} \in SUBSET (1 .. MaxId)
    BY <1>1, <2>1
  <2> QED
    BY <1>1, <2>1, <2>2
<1> QED
  BY <1>1, <1>2, <1>3, <1>4, <1>5 DEF TInv, TypeOK

(* What the worker reads for a request it can serve.                       *)
LEMMA ServedContents ==
  ASSUME TInv, inbox # <<>>, ~Missing
  PROVE  /\ req.cmd \in UsesTensor => Input \in Data
         /\ req.cmd \in UsesExecutable => Content("executable", req.exe) \in Graph
<1>1. Sorted(req)
  BY FirstRequest
<1> QED
  BY <1>1
  DEF Sorted, IsMade, Missing, Input, Content, TInv, TableSorted, RefsSorted, RefSorted

(* A request that registers something is served.                           *)
LEMMA MakingTyped ==
  ASSUME TInv, Upload \/ CompileGraph \/ RunNode \/ Execute
  PROVE  TInv'
<1>1. \A g \in Graph, d \in Data : Meaning[g][d] \in Data
  BY MeaningAssumption
<1>2. inbox # <<>> /\ Sorted(req)
  BY FirstRequest DEF Upload, CompileGraph, RunNode, Execute, Serving
<1>3. CASE Upload
  <2>1. req.cmd = "upload" /\ req.val \in Data
    BY <1>2, <1>3 DEF Upload, Serving, Sorted
  <2> QED
    BY <1>3, <2>1, PutTyped DEF KindOf, Upload, MakingCommand, TensorMaking, Kind
<1>4. CASE CompileGraph
  <2>1. req.cmd = "compile" /\ req.val \in Graph
    BY <1>2, <1>4 DEF CompileGraph, Serving, Sorted, UsesGraph
  <2> QED
    BY <1>4, <2>1, PutTyped DEF KindOf, CompileGraph, MakingCommand, Kind
<1>5. CASE RunNode
  <2>1. req.cmd = "run_node" /\ ~Missing
    BY <1>5 DEF RunNode, Serving
  <2>2. req.val \in Graph /\ Input \in Data
    BY <1>2, <2>1, ServedContents DEF Sorted, UsesGraph, UsesTensor
  <2>3. PICK v \in Data : v = Meaning[req.val][Input]
    BY <1>1, <2>2
  <2>4. Serving({"run_node"}) /\ Put("tensor", v)
    BY <1>5, <2>3 DEF RunNode
  <2> QED
    BY <2>1, <2>4, PutTyped DEF KindOf, MakingCommand, TensorMaking, Kind
<1>6. CASE Execute
  <2>1. req.cmd = "execute" /\ ~Missing
    BY <1>6 DEF Execute, Serving
  <2>2. Content("executable", req.exe) \in Graph /\ Input \in Data
    BY <1>2, <2>1, ServedContents DEF UsesExecutable, UsesTensor
  <2>3. PICK v \in Data : v = Meaning[Content("executable", req.exe)][Input]
    BY <1>1, <2>2
  <2>4. Serving({"execute"}) /\ Put("tensor", v)
    BY <1>6, <2>3 DEF Execute
  <2> QED
    BY <2>1, <2>4, PutTyped DEF KindOf, MakingCommand, TensorMaking, Kind
<1> QED
  BY <1>3, <1>4, <1>5, <1>6

(* A request that reads is answered with a content.                        *)
LEMMA ReplyDataTyped ==
  ASSUME TInv, NEW cmds \in SUBSET Reading, Serving(cmds), NEW v \in Data, ReplyData(v)
  PROVE  TInv'
<1> DEFINE rec == [call[req.from] EXCEPT !.at = "replied", !.origin = gen, !.data = v]
<1> gen \in 0 .. MaxGen /\ gen \in 1 .. gen
  BY BoundAssumption DEF TInv, TypeOK
<1>1. /\ inbox # <<>> /\ inbox' = Tail(inbox) /\ req.cmd \in Reading
      /\ UNCHANGED <<workerVars, refs, queue, cache, reaper>>
  BY DEF Serving, ReplyData
<1>2. /\ inbox' \in Seq(Message) /\ call' \in [Client -> Call]
      /\ RefsSorted' /\ CallsSorted' /\ InboxSorted' /\ CanRestart'
  <2>1. CASE req.from \in Client
    <3>1. /\ call[req.from] \in Call /\ call[req.from].at = "wait"
          /\ call[req.from].cmd = req.cmd
          /\ Sorted(call[req.from]) /\ AsCall(call[req.from])
      BY <1>1, <2>1, FirstRequest DEF TInv, TypeOK, CallsSorted, CallSorted
    <3>2. rec \in Call /\ rec.at = "replied"
      BY <3>1 DEF Call, Value
    <3>3. Sorted(rec) /\ AsCall(rec)
      BY <1>1, <3>1 DEF Sorted, AsCall, IsMade, Call, Reading, MakingCommand, TensorMaking
    <3>4. Reply(rec)
      BY <2>1, <3>1 DEF Reply, ReplyData, TInv, TypeOK
    <3> QED
      BY <1>1, <3>2, <3>3, <3>4, RequestServed DEF workerVars
  <2>2. CASE req.from \notin Client
    BY <1>1, <2>2, IdleIsCall, RequestServed DEF Reply, ReplyData, Idle, workerVars
  <2> QED
    BY <2>1, <2>2
<1> QED
  BY <1>1, <1>2 DEF TInv, TypeOK, TableSorted, workerVars

(* Downloads and executions with host outputs are served.                  *)
LEMMA ReadingTyped ==
  ASSUME TInv, Download \/ ExecuteHost
  PROVE  TInv'
<1>1. \A g \in Graph, d \in Data : Meaning[g][d] \in Data
  BY MeaningAssumption
<1>2. CASE Download
  <2>1. req.cmd = "download" /\ ~Missing /\ inbox # <<>>
    BY <1>2 DEF Download, Serving
  <2>2. Input \in Data
    BY <2>1, ServedContents DEF UsesTensor, Reading
  <2>3. PICK v \in Data : v = Input
    BY <2>2
  <2>4. Serving({"download"}) /\ ReplyData(v)
    BY <1>2, <2>3 DEF Download
  <2> QED
    BY <2>4, ReplyDataTyped DEF Reading
<1>3. CASE ExecuteHost
  <2>1. req.cmd = "execute_host" /\ ~Missing /\ inbox # <<>>
    BY <1>3 DEF ExecuteHost, Serving
  <2>2. Content("executable", req.exe) \in Graph /\ Input \in Data
    BY <2>1, ServedContents DEF UsesExecutable, UsesTensor, Reading
  <2>3. PICK v \in Data : v = Meaning[Content("executable", req.exe)][Input]
    BY <1>1, <2>2
  <2>4. Serving({"execute_host"}) /\ ReplyData(v)
    BY <1>3, <2>3 DEF ExecuteHost
  <2> QED
    BY <2>4, ReplyDataTyped DEF Reading
<1> QED
  BY <1>2, <1>3

(* A request whose handle is unknown is refused.                           *)
LEMMA StaleReferenceTyped ==
  ASSUME TInv, StaleReference
  PROVE  TInv'
<1>1. /\ inbox # <<>> /\ inbox' = Tail(inbox) /\ Reply(Idle) /\ Idle.at = "idle"
      /\ UNCHANGED <<workerVars, refs, queue, cache, reaper>>
  BY DEF StaleReference, Serving, Reply, Idle
<1> QED
  BY <1>1, IdleIsCall, RequestServed DEF TInv, TypeOK, TableSorted, workerVars

(* A release is served.                                                    *)
LEMMA ReleaseTyped ==
  ASSUME TInv, Release
  PROVE  TInv'
<1>1. /\ inbox # <<>> /\ inbox' = Tail(inbox) /\ Reply(Idle) /\ Idle.at = "idle"
      /\ UNCHANGED <<gen, up, nextId, lost, refs, queue, cache>>
  BY DEF Release, Serving, Reply, Idle
<1> DEFINE k == IF req.cmd = "release" THEN "tensor" ELSE "executable"
           gone == {refs[r].handle : r \in req.ids}
<1>2. k \in Kind /\ table' = [table EXCEPT ![k] =
        [h \in 1 .. MaxId |-> IF h \in gone THEN None ELSE table[k][h]]]
  BY DEF Release, Kind
<1> HIDE DEF k, gone
<1>3. TableSorted' /\ table' \in [Kind -> [1 .. MaxId -> Value \cup {None}]]
  <2> DEFINE row == [h \in 1 .. MaxId |-> IF h \in gone THEN None ELSE table[k][h]]
  <2>1. table \in [Kind -> [1 .. MaxId -> Value \cup {None}]]
    BY DEF TInv, TypeOK
  <2>2. row \in [1 .. MaxId -> Value \cup {None}]
    BY <1>2, <2>1
  <2>3. k = "tensor" => row \in [1 .. MaxId -> Data \cup {None}]
    BY DEF TInv, TableSorted
  <2>4. k = "executable" => row \in [1 .. MaxId -> Graph \cup {None}]
    BY DEF TInv, TableSorted
  <2>5. k \in Kind /\ table' = [table EXCEPT ![k] = row]
    BY <1>2
  <2> HIDE DEF row
  <2>6. table' \in [Kind -> [1 .. MaxId -> Value \cup {None}]]
    BY <2>1, <2>2, <2>5
  <2> QED
    BY <2>1, <2>3, <2>4, <2>5, <2>6 DEF TInv, TableSorted, Kind
<1>4. reaper' \in [at : {"idle", "group", "send", "wait"}, phase : Kind,
                  entries : SUBSET RefId, ids : SUBSET RefId, seen : 0 .. MaxGen]
  BY NextPhaseIsReaper DEF Release, TInv, TypeOK
<1>5. strayed' \in [Kind -> SUBSET (1 .. MaxId)]
  <2> DEFINE stray == {refs[r].handle : r \in {s \in req.ids : Overtaken(s)}} \cap 1 .. MaxId
  <2>1. stray \in SUBSET (1 .. MaxId)
    OBVIOUS
  <2>2. \E j \in Kind : strayed' = [strayed EXCEPT ![j] = @ \cup stray]
    BY <1>2 DEF Release, k
  <2>3. strayed \in [Kind -> SUBSET (1 .. MaxId)]
    BY DEF TInv, TypeOK
  <2> HIDE DEF stray
  <2>4. PICK j \in Kind : strayed' = [strayed EXCEPT ![j] = @ \cup stray]
    BY <2>2
  <2>5. strayed[j] \cup stray \in SUBSET (1 .. MaxId)
    BY <2>1, <2>3
  <2> QED
    BY <2>3, <2>4, <2>5
<1> QED
  BY <1>1, <1>3, <1>4, <1>5, IdleIsCall, RequestServed DEF TInv, TypeOK

(* The worker dies: registries and inbox empty, waiting callers told.      *)
LEMMA CrashTyped ==
  ASSUME TInv, Crash
  PROVE  TInv'
<1>1. /\ table' = Empty /\ nextId' = [k \in Kind |-> 1] /\ inbox' = <<>>
      /\ strayed' = NoHandles /\ lost' = NoHandles
      /\ call' = FailAll /\ gen < MaxGen /\ UNCHANGED <<gen, refs, queue, cache>>
  BY DEF Crash
<1>2. up' \in BOOLEAN /\ CanRestart'
  BY <1>1 DEF Crash, CanRestart
<1>3. table' \in [Kind -> [1 .. MaxId -> Value \cup {None}]] /\ TableSorted'
  BY <1>1 DEF Empty, TableSorted, Kind
<1>4. nextId' \in [Kind -> 1 .. MaxId + 1]
  BY <1>1, BoundAssumption
<1>5. inbox' \in Seq(Message) /\ InboxSorted'
  BY <1>1 DEF InboxSorted
<1>6. call' \in [Client -> Call]
  BY <1>1, IdleIsCall DEF FailAll, TInv, TypeOK
<1>7. CallsSorted'
  BY <1>1 DEF FailAll, Idle, TInv, CallsSorted, CallSorted, Sorted, AsCall, IsMade
<1>8. reaper' \in [at : {"idle", "group", "send", "wait"}, phase : Kind,
                  entries : SUBSET RefId, ids : SUBSET RefId, seen : 0 .. MaxGen]
  BY NextPhaseIsReaper DEF Crash, TInv, TypeOK
<1> QED
  BY <1>1, <1>2, <1>3, <1>4, <1>5, <1>6, <1>7, <1>8
  DEF TInv, TypeOK, RefsSorted, RefSorted, NoHandles

(* A new incarnation starts with the next generation.                      *)
LEMMA StartTyped ==
  ASSUME TInv, Start
  PROVE  TInv'
<1>1. /\ up' = TRUE /\ gen' = gen + 1 /\ gen \in 1 .. MaxGen /\ gen < MaxGen
      /\ UNCHANGED <<table, nextId, strayed, lost, inbox, refs, queue, cache, call, reaper>>
  BY DEF Start, NextGeneration, TInv, TypeOK, CanRestart
<1>2. gen' \in 1 .. MaxGen /\ \A o \in 1 .. gen : o \in 1 .. gen'
  BY <1>1, BoundAssumption
<1>3. RefsSorted'
  BY <1>1, <1>2 DEF TInv, RefsSorted, RefSorted
<1>4. CallsSorted'
  BY <1>1, <1>2 DEF TInv, CallsSorted, CallSorted, Sorted, AsCall, IsMade
<1>5. InboxSorted'
  BY <1>1 DEF TInv, InboxSorted, Sorted, IsMade, Matching
<1> QED
  BY <1>1, <1>2, <1>3, <1>4, <1>5 DEF TInv, TypeOK, TableSorted, CanRestart

(* A step that changes nothing keeps the invariant.                        *)
LEMMA StutterTyped ==
  ASSUME TInv, UNCHANGED vars
  PROVE  TInv'
<1>1. TypeOK'
  BY DEF TInv, TypeOK, vars, workerVars
<1>2. InboxSorted'
  BY DEF TInv, InboxSorted, Sorted, IsMade, Matching, vars, workerVars
<1>3. TableSorted' /\ RefsSorted' /\ CallsSorted' /\ CanRestart'
  BY RestSorted DEF vars, workerVars
<1> QED
  BY <1>1, <1>2, <1>3 DEF TInv

(* Every step of the system keeps the invariant TInv.                      *)
LEMMA NextTyped == TInv /\ [Next]_vars => TInv'
<1> SUFFICES ASSUME TInv, [Next]_vars PROVE TInv'
  OBVIOUS
<1>1. ASSUME NEW c \in Client, ClientStart(c) PROVE TInv'
  BY <1>1, FromBinaryTyped, EnsureCompiledTyped, ToBinaryTyped, DeallocateTyped,
     EagerTyped, RunOneTyped
  DEF ClientStart, UsesExecutable
<1>2. ASSUME NEW c \in Client, ClientContinue(c) PROVE TInv'
  BY <1>2, SendTyped, BackToIdle, BuildTyped, CompileEntryTyped DEF ClientContinue
<1>3. ASSUME NEW c \in Client, Timeout(c) PROVE TInv'
  BY <1>3, TimeoutTyped
<1>4. ASSUME NEW r \in RefId, Drop(r) PROVE TInv'
  BY <1>4, DropTyped
<1>5. CASE Reap
  BY <1>5, ReaperMoves, ReaperSendTyped DEF Reap
<1>6. CASE ReaperTimeout
  BY <1>6, ReaperTimeoutTyped
<1>7. CASE Serve
  BY <1>7, MakingTyped, ReadingTyped, StaleReferenceTyped, ReleaseTyped DEF Serve
<1>8. CASE Crash
  BY <1>8, CrashTyped
<1>9. CASE Start
  BY <1>9, StartTyped
<1>10. CASE Quiescent \/ UNCHANGED vars
  BY <1>10, StutterTyped DEF Quiescent
<1> QED
  BY <1>1, <1>2, <1>3, <1>4, <1>5, <1>6, <1>7, <1>8, <1>9, <1>10 DEF Next

(* TInv, the strengthening of TypeOK that every step keeps, always holds.  *)
THEOREM SortedAlways == Spec => []TInv
<1> QED
  BY InitSorted, NextTyped, PTL DEF Spec

(* Every state has the shape TypeOK says: no generation beyond the bound,  *)
(* no handle outside the registries, no content outside the values.        *)
THEOREM TypeCorrect == Spec => []TypeOK
<1>1. TInv => TypeOK
  BY DEF TInv
<1> QED
  BY <1>1, SortedAlways, PTL

-----------------------------------------------------------------------------
(* Handles are not reused.  HandlesUnique alone is not inductive: a reply  *)
(* may still hold the handle that a reference is about to take, so handles *)
(* taken from a registry are pairwise different whoever holds them, and    *)
(* those of the running incarnation are below the registry's next one.     *)

Holds(c) == call[c].at = "replied" /\ call[c].cmd \in MakingCommand

RefsBelow ==
  \A r \in RefId :
    up /\ refs[r].state # "free" /\ refs[r].origin = gen
      => refs[r].handle < nextId[refs[r].kind]
CallsBelow ==
  \A c \in Client :
    up /\ Holds(c) /\ call[c].origin = gen => call[c].id < nextId[KindOf(call[c].cmd)]
CallsApart ==
  \A c, d \in Client :
    Holds(c) /\ Holds(d) /\ c # d
      /\ KindOf(call[c].cmd) = KindOf(call[d].cmd)
      /\ call[c].origin = call[d].origin
    => call[c].id # call[d].id
CallsApartFromRefs ==
  \A c \in Client, r \in RefId :
    Holds(c) /\ IsMade(KindOf(call[c].cmd), r) /\ call[c].origin = refs[r].origin
      => call[c].id # refs[r].handle

UInv == RefsBelow /\ CallsBelow /\ CallsApart /\ CallsApartFromRefs /\ HandlesUnique

(* Nothing new is held: references keep their handles, replies are at most *)
(* forgotten.                                                              *)
SameRefs ==
  \A r \in RefId :
    refs'[r].state # "free" =>
      /\ refs[r].state # "free"
      /\ refs'[r].kind = refs[r].kind
      /\ refs'[r].handle = refs[r].handle
      /\ refs'[r].origin = refs[r].origin
FewerReplies ==
  \A c \in Client :
    call'[c].at = "replied" /\ call'[c].cmd \in MakingCommand =>
      /\ call[c].at = "replied"
      /\ call'[c].cmd = call[c].cmd
      /\ call'[c].id = call[c].id
      /\ call'[c].origin = call[c].origin

(* If nobody comes to hold a handle, handles stay apart.                   *)
LEMMA NothingNewHeld ==
  ASSUME UInv, SameRefs, FewerReplies, gen' = gen, up' => up /\ nextId' = nextId
  PROVE  UInv'
<1>1. RefsBelow'
  BY DEF UInv, SameRefs, RefsBelow
<1>2. CallsBelow'
  BY DEF UInv, FewerReplies, CallsBelow, Holds, KindOf
<1>3. CallsApart'
  BY DEF UInv, FewerReplies, CallsApart, Holds, KindOf
<1>4. CallsApartFromRefs'
  BY DEF UInv, SameRefs, FewerReplies, CallsApartFromRefs, Holds, KindOf, IsMade
<1>5. HandlesUnique'
  BY DEF UInv, SameRefs, HandlesUnique, Made
<1> QED
  BY <1>1, <1>2, <1>3, <1>4, <1>5 DEF UInv

(* A reply takes the next handle of a registry.                            *)
LEMMA PutUnique ==
  ASSUME TInv, UInv, NEW cmds, Serving(cmds), NEW k \in Kind, NEW v, Put(k, v),
         req.cmd \in MakingCommand, KindOf(req.cmd) = k
  PROVE  UInv'
<1>1. /\ up /\ UNCHANGED <<gen, up, refs>> /\ gen \in Nat
      /\ nextId' = [nextId EXCEPT ![k] = @ + 1]
      /\ nextId[k] \in Nat /\ nextId'[k] = nextId[k] + 1
      /\ \A j \in Kind : nextId[j] \in Nat /\ (j # k => nextId'[j] = nextId[j])
  BY BoundAssumption DEF Serving, Put, TInv, TypeOK
<1>2. \A c \in Client : KindOf(call[c].cmd) \in Kind
  BY DEF KindOf, Kind
<1>3. \A r \in RefId : refs[r].state # "free" =>
        refs[r].kind \in Kind /\ refs[r].handle \in Nat
  BY DEF TInv, TypeOK, Ref, RefsSorted, RefSorted
<1>4. \A c \in Client : Holds(c) => call[c].id \in Nat
  BY DEF TInv, CallsSorted, CallSorted, AsCall, Holds
<1>5. \A c \in Client :
        c # req.from => call'[c] = call[c]
  BY DEF Put, TInv, TypeOK
<1>6. req.from \in Client =>
        /\ call[req.from].at = "wait"
        /\ call'[req.from].at = "replied"
        /\ call'[req.from].cmd = req.cmd
        /\ call'[req.from].id = nextId[k]
        /\ call'[req.from].origin = gen
  BY SMTT(30), FirstRequest DEF Serving, Put, AllocateId, TInv, TypeOK, Call
<1>7. RefsBelow'
  BY <1>1, <1>3 DEF UInv, RefsBelow
<1>8. CallsBelow'
  BY <1>1, <1>2, <1>4, <1>5, <1>6 DEF UInv, CallsBelow, Holds
<1>9. CallsApart'
  BY <1>1, <1>4, <1>5, <1>6 DEF UInv, CallsApart, CallsBelow, Holds
<1>10. CallsApartFromRefs'
  BY <1>1, <1>3, <1>5, <1>6 DEF UInv, CallsApartFromRefs, RefsBelow, Holds, IsMade
<1>11. HandlesUnique'
  BY <1>1 DEF UInv, HandlesUnique, Made
<1> QED
  BY <1>7, <1>8, <1>9, <1>10, <1>11 DEF UInv

(* A reference takes the handle over from the reply.                       *)
LEMMA WrapUnique ==
  ASSUME TInv, UInv, NEW c \in Client, NEW r \in RefId, Build(c, r) \/ CompileEntry(c, r)
  PROVE  UInv'
<1>1. /\ Holds(c) /\ refs[r].state = "free" /\ Idle.at = "idle"
      /\ UNCHANGED <<gen, up, nextId>>
      /\ \A s \in RefId : s # r => refs'[s] = refs[s]
      /\ refs'[r].kind = KindOf(call[c].cmd)
      /\ refs'[r].handle = call[c].id
      /\ refs'[r].origin = call[c].origin
      /\ \A d \in Client : d # c => call'[d] = call[d]
      /\ call'[c] = Idle
  BY DEF Build, CompileEntry, Holds, KindOf, MakingCommand, TensorMaking, Free, Idle,
         workerVars, TInv, TypeOK
<1>2. RefsBelow'
  BY <1>1 DEF UInv, RefsBelow, CallsBelow
<1>3. CallsBelow'
  BY <1>1 DEF UInv, CallsBelow, Holds
<1>4. CallsApart'
  BY <1>1 DEF UInv, CallsApart, Holds
<1>5. CallsApartFromRefs'
  BY <1>1 DEF UInv, CallsApart, CallsApartFromRefs, Holds, IsMade
<1>6. HandlesUnique'
  BY <1>1 DEF UInv, CallsApartFromRefs, HandlesUnique, Made, Holds, IsMade
<1> QED
  BY <1>2, <1>3, <1>4, <1>5, <1>6 DEF UInv

(* A new incarnation: whatever is held was made by an earlier one.         *)
LEMMA StartUnique ==
  ASSUME TInv, UInv, Start
  PROVE  UInv'
<1>1. gen' = gen + 1 /\ gen \in Nat /\ UNCHANGED <<refs, call>>
  BY BoundAssumption DEF Start, NextGeneration, TInv, TypeOK
<1>2. \A r \in RefId : refs[r].state # "free" => refs[r].origin \in 1 .. gen
  BY DEF TInv, RefsSorted, RefSorted
<1>3. \A c \in Client : Holds(c) => call[c].origin \in 1 .. gen
  BY DEF TInv, CallsSorted, CallSorted, AsCall, Holds
<1>4. RefsBelow' /\ CallsBelow'
  BY <1>1, <1>2, <1>3 DEF RefsBelow, CallsBelow, Holds
<1>5. CallsApart' /\ CallsApartFromRefs' /\ HandlesUnique'
  BY <1>1 DEF UInv, CallsApart, CallsApartFromRefs, HandlesUnique, Holds, IsMade, Made
<1> QED
  BY <1>4, <1>5 DEF UInv

(* A client that starts an operation holds no reply yet.                   *)
LEMMA BeginKeeps ==
  ASSUME TInv, NEW c \in Client, NEW rec, rec.at # "replied", Begin(c, rec)
  PROVE  FewerReplies
  BY DEF Begin, FewerReplies, TInv, TypeOK

(* Handles stay apart whatever a client does.                              *)
LEMMA ClientUnique ==
  ASSUME TInv, UInv, NEW c \in Client,
         ClientStart(c) \/ ClientContinue(c) \/ Timeout(c)
  PROVE  UInv'
<1>1. CASE ClientStart(c)
  <2>2. FewerReplies
    <3>1. CASE \E d \in Data : FromBinary(c, d)
      BY <3>1, BeginKeeps DEF FromBinary, Idle
    <3>2. CASE \E g \in Graph : EnsureCompiled(c, g)
      BY <3>2, BeginKeeps DEF EnsureCompiled, Idle
    <3>3. CASE \E r \in RefId : ToBinary(c, r)
      BY <3>3, BeginKeeps DEF ToBinary, Idle
    <3>4. CASE \E r \in RefId : Deallocate(c, r)
      BY <3>4, BeginKeeps DEF Deallocate, Idle
    <3>5. CASE \E g \in Graph, r \in RefId : Eager(c, g, r)
      BY <3>5, BeginKeeps DEF Eager, Idle
    <3>6. CASE \E e, r \in RefId, cmd \in {"execute", "execute_host"} : RunOne(c, e, r, cmd)
      BY <3>6, BeginKeeps DEF RunOne, Idle
    <3> QED
      BY <1>1, <3>1, <3>2, <3>3, <3>4, <3>5, <3>6 DEF ClientStart
  <2>3. CASE \E r \in RefId : Deallocate(c, r)
    <3>1. SameRefs
      BY <2>3 DEF Deallocate, Unclaimed, SameRefs, TInv, TypeOK, Ref
    <3> QED
      BY <2>2, <2>3, <3>1, NothingNewHeld DEF Deallocate, workerVars
  <2>4. CASE ~ \E r \in RefId : Deallocate(c, r)
    <3>1. UNCHANGED <<gen, up, nextId, refs>>
      BY <1>1, <2>4
      DEF ClientStart, FromBinary, EnsureCompiled, ToBinary, Eager, RunOne, workerVars
    <3> QED
      BY <2>2, <3>1, NothingNewHeld DEF SameRefs
  <2> QED
    BY <2>3, <2>4
<1>2. CASE \E r \in RefId : Build(c, r) \/ CompileEntry(c, r)
  BY <1>2, WrapUnique
<1>3. CASE Send(c) \/ SendExits(c) \/ BuildExits(c) \/ Return(c) \/ Timeout(c)
  <2>1. /\ UNCHANGED <<gen, up, nextId, refs>>
        /\ \A d \in Client : d # c => call'[d] = call[d]
        /\ call'[c].at \in {"wait", "idle"}
    BY <1>3
    DEF Send, SendExits, BuildExits, Return, Timeout, Idle, workerVars, TInv, TypeOK, Call
  <2> QED
    BY <2>1, NothingNewHeld DEF SameRefs, FewerReplies
<1> QED
  BY <1>1, <1>2, <1>3 DEF ClientContinue

(* Handles stay apart whatever the worker serves.                          *)
LEMMA ServeUnique ==
  ASSUME TInv, UInv, Serve
  PROVE  UInv'
<1>1. CASE Upload
  BY <1>1, PutUnique DEF Upload, Serving, KindOf, Kind, MakingCommand, TensorMaking
<1>2. CASE CompileGraph
  BY <1>2, PutUnique DEF CompileGraph, Serving, KindOf, Kind, MakingCommand
<1>3. CASE RunNode \/ Execute
  <2>1. PICK cmds, v : Serving(cmds) /\ Put("tensor", v) /\ req.cmd \in {"run_node", "execute"}
    <3>1. CASE RunNode
      <4>1. PICK v : v = Meaning[req.val][Input]
        OBVIOUS
      <4>2. Serving({"run_node"}) /\ Put("tensor", v) /\ req.cmd = "run_node"
        BY <3>1, <4>1 DEF RunNode, Serving
      <4> QED
        BY <4>2
    <3>2. CASE Execute
      <4>1. PICK v : v = Meaning[Content("executable", req.exe)][Input]
        OBVIOUS
      <4>2. Serving({"execute"}) /\ Put("tensor", v) /\ req.cmd = "execute"
        BY <3>2, <4>1 DEF Execute, Serving
      <4> QED
        BY <4>2
    <3> QED
      BY <1>3, <3>1, <3>2
  <2> QED
    BY <2>1, PutUnique DEF KindOf, Kind, MakingCommand, TensorMaking
<1>4. CASE Download \/ ExecuteHost
  <2>1. PICK v : ReplyData(v)
    <3>1. CASE Download
      BY <3>1 DEF Download
    <3>2. CASE ExecuteHost
      <4>1. PICK v : v = Meaning[Content("executable", req.exe)][Input]
        OBVIOUS
      <4>2. ReplyData(Meaning[Content("executable", req.exe)][Input])
        BY <3>2 DEF ExecuteHost
      <4>3. ReplyData(v)
        BY <4>1, <4>2
      <4> QED
        BY <4>3
    <3> QED
      BY <1>4, <3>1, <3>2
  <2>2. req.from \in Client => call[req.from].cmd \in Reading
    BY <1>4, FirstRequest DEF Download, ExecuteHost, Serving, Reading
  <2>3. \A c \in Client : call'[c].cmd = call[c].cmd /\ (c # req.from => call'[c] = call[c])
    BY <2>1 DEF ReplyData, TInv, TypeOK, Call
  <2>4. FewerReplies
    BY <2>2, <2>3 DEF FewerReplies, Reading, MakingCommand, TensorMaking
  <2> QED
    BY <2>1, <2>4, NothingNewHeld DEF ReplyData, SameRefs, workerVars
<1>5. CASE StaleReference \/ Release
  <2>1. FewerReplies
    <3>1. Reply(Idle)
      BY <1>5 DEF StaleReference, Release, Reply
    <3>2. Idle.at # "replied"
      BY DEF Idle
    <3> QED
      BY <3>1, <3>2 DEF Reply, FewerReplies, TInv, TypeOK
  <2> QED
    BY <1>5, <2>1, NothingNewHeld DEF StaleReference, Release, SameRefs, workerVars
<1> QED
  BY <1>1, <1>2, <1>3, <1>4, <1>5 DEF Serve

(* Every step keeps handles apart.                                         *)
LEMMA NextUnique == TInv /\ UInv /\ [Next]_vars => UInv'
<1> SUFFICES ASSUME TInv, UInv, [Next]_vars PROVE UInv'
  OBVIOUS
<1>1. ASSUME NEW c \in Client, ClientStart(c) \/ ClientContinue(c) \/ Timeout(c)
      PROVE  UInv'
  BY <1>1, ClientUnique
<1>2. ASSUME NEW r \in RefId, Drop(r) PROVE UInv'
  <2>1. SameRefs /\ FewerReplies
    BY <1>2 DEF Drop, Unclaimed, SameRefs, FewerReplies, TInv, TypeOK, Ref
  <2> QED
    BY <1>2, <2>1, NothingNewHeld DEF Drop, workerVars
<1>3. CASE Reap \/ ReaperTimeout \/ Quiescent \/ UNCHANGED vars
  <2>1. UNCHANGED <<gen, up, nextId, refs, call>>
    BY <1>3
    DEF Reap, Drain, ReleaseGroup, ReaperSend, ReaperExits, ReaperTimeout, Quiescent,
        vars, workerVars
  <2> QED
    BY <2>1, NothingNewHeld DEF SameRefs, FewerReplies
<1>4. CASE Serve
  BY <1>4, ServeUnique
<1>5. CASE Crash
  <2>1. FewerReplies
    BY <1>5 DEF Crash, FailAll, FewerReplies, Idle, TInv, TypeOK
  <2> QED
    BY <1>5, <2>1, NothingNewHeld DEF Crash, SameRefs
<1>6. CASE Start
  BY <1>6, StartUnique
<1> QED
  BY <1>1, <1>2, <1>3, <1>4, <1>5, <1>6 DEF Next

(* Nobody holds a handle at the start.                                     *)
LEMMA InitUnique == Init => UInv
  BY DEF Init, UInv, RefsBelow, CallsBelow, CallsApart, CallsApartFromRefs, HandlesUnique,
         Made, Holds, IsMade, FreeRef, Idle

(* No two references to what one incarnation made share a handle, whatever *)
(* restarts, timeouts and collections come in between (registry.py never   *)
(* reuses an id).                                                          *)
THEOREM NoHandleReuse == Spec => []HandlesUnique
<1>1. Spec => []UInv
  BY SortedAlways, InitUnique, NextUnique, PTL DEF Spec
<1>2. UInv => HandlesUnique
  BY DEF UInv
<1> QED
  BY <1>1, <1>2, PTL

-----------------------------------------------------------------------------
(* What is read, and what stays, wherever restarts fall.                   *)

(* Whoever names a tensor or a release has seen the generation it carries, *)
(* which need not be the present one by now; an executable is only used    *)
(* while the program holds it.                                             *)
SeenUse(q) == q.arg # NoRef => refs[q.arg].gen = q.seen
LiveUse(q) ==
  q.exe # NoRef => /\ q.exe \in RefId
                   /\ refs[q.exe].kind = "executable"
                   /\ refs[q.exe].state = "live"
CallSeen(q) == LiveUse(q) /\ (q.at # "idle" => SeenUse(q))
RequestSeen(m) == SeenUse(m) /\ \A r \in m.ids : refs[r].gen = m.seen

CallsSeen == \A c \in Client : CallSeen(call[c])
InboxSeen == \A i \in DOMAIN inbox : RequestSeen(inbox[i])
ReaperSeen ==
  reaper.at = "send" => \A r \in reaper.ids : refs[r].gen = reaper.seen
NoExecutableTaken ==
  \A r \in RefId : refs[r].kind = "executable" => refs[r].state # "taken"

FInv == CallsSeen /\ InboxSeen /\ ReaperSeen /\ NoExecutableTaken

(* A release is of a reference the program has given up, and of the kind   *)
(* its command is about.                                                   *)
GivenUp(r) == refs[r].state \in {"taken", "dropped"}
ReleaseKind(cmd) == IF cmd = "release" THEN "tensor" ELSE "executable"

QueueGivenUp == \A r \in queue \cup reaper.entries : GivenUp(r)
ReaperGivenUp ==
  reaper.at = "send" =>
    \A r \in reaper.ids : GivenUp(r) /\ refs[r].kind = reaper.phase
CallsGivenUp ==
  \A c \in Client :
    call[c].at = "checked" /\ call[c].cmd = "release" => GivenUp(call[c].arg)
InboxGivenUp ==
  \A i \in DOMAIN inbox : \A r \in inbox[i].ids :
    GivenUp(r) /\ refs[r].kind = ReleaseKind(inbox[i].cmd)

GInv == QueueGivenUp /\ ReaperGivenUp /\ CallsGivenUp /\ InboxGivenUp

(* A request carries what its caller is about.                             *)
InboxCarries ==
  \A i \in DOMAIN inbox : inbox[i].from \in Client =>
    /\ inbox[i].arg = call[inbox[i].from].arg
    /\ inbox[i].exe = call[inbox[i].from].exe
    /\ inbox[i].val = call[inbox[i].from].val
    /\ inbox[i].seen = call[inbox[i].from].seen

(* What the worker holds under a handle is what it put there, or nothing,  *)
(* and before the program gives the handle up only a stray release leaves  *)
(* nothing.                                                                *)
Kept(k, h, v) == table[k][h] = v \/ (table[k][h] = None /\ h \in strayed[k])
RefHeld(r) ==
  up /\ refs[r].state # "free" /\ refs[r].origin = gen =>
    /\ Content(refs[r].kind, r) \in {refs[r].val, None}
    /\ refs[r].state = "live" => Kept(refs[r].kind, refs[r].handle, refs[r].val)
ReplyHeld(c) ==
  up /\ Holds(c) /\ call[c].origin = gen =>
    Kept(KindOf(call[c].cmd), call[c].id, call[c].data)
RefsHold == \A r \in RefId : RefHeld(r)
RepliesHold == \A c \in Client : ReplyHeld(c)

CInv == InboxCarries /\ RefsHold /\ RepliesHold /\ ReadsOwnData

SInv == FInv /\ GInv /\ CInv

-----------------------------------------------------------------------------
(* How references change: what was made keeps its kind, handle, labels and *)
(* value, and what the program gave up stays given up.                     *)

Stable ==
  \A r \in RefId : refs[r].state # "free" =>
    /\ refs'[r].state # "free"
    /\ refs'[r].kind = refs[r].kind
    /\ refs'[r].gen = refs[r].gen
    /\ refs'[r].handle = refs[r].handle
    /\ refs'[r].origin = refs[r].origin
    /\ refs'[r].val = refs[r].val
    /\ GivenUp(r) => refs'[r].state \in {"taken", "dropped"}

(* What a call runs is not given up under it.                              *)
UsedStay == \A c \in Client : LiveUse(call[c]) => LiveUse(call[c])' \/ call'[c] # call[c]

SameUse(c) ==
  /\ call'[c].cmd = call[c].cmd
  /\ call'[c].arg = call[c].arg
  /\ call'[c].exe = call[c].exe
  /\ call'[c].val = call[c].val

(* References that do not change are stable.                               *)
LEMMA SameRefsStable ==
  ASSUME TInv, SInv, refs' = refs
  PROVE  Stable /\ UsedStay
  BY DEF Stable, GivenUp, UsedStay, LiveUse

(* What a client expects does not change while it waits for it.            *)
LEMMA IntendedSame ==
  ASSUME TInv, Stable, NEW c \in Client, call[c].at # "idle", SameUse(c)
  PROVE  Intended(c)' = Intended(c)
<1>1. Sorted(call[c])
  BY DEF TInv, CallsSorted, CallSorted
<1>2. /\ call[c].cmd \in UsesTensor =>
           call[c].arg \in RefId /\ refs'[call[c].arg].val = refs[call[c].arg].val
      /\ call[c].cmd \in UsesExecutable =>
           call[c].exe \in RefId /\ refs'[call[c].exe].val = refs[call[c].exe].val
  BY <1>1 DEF Stable, Sorted, IsMade
<1>3. CASE call[c].cmd \notin UsesTensor
  BY <1>3 DEF Intended, SameUse, UsesTensor, Reading
<1>4. CASE call[c].cmd = "download"
  BY <1>2, <1>4 DEF Intended, SameUse, UsesTensor, Reading
<1>5. CASE call[c].cmd = "run_node"
  BY <1>2, <1>5 DEF Intended, SameUse, UsesTensor
<1>6. CASE call[c].cmd \in UsesExecutable
  BY <1>2, <1>6 DEF Intended, SameUse, UsesTensor, UsesExecutable, Reading
<1> QED
  BY <1>3, <1>4, <1>5, <1>6 DEF UsesTensor, Reading, UsesExecutable

(* Nor does what came between.                                             *)
LEMMA DisturbedSame ==
  ASSUME TInv, Stable, NEW c \in Client, call[c].at # "idle", call'[c] = call[c]
  PROVE  Undisturbed(c)' = Undisturbed(c)
<1>1. Sorted(call[c])
  BY DEF TInv, CallsSorted, CallSorted
<1>2. /\ call[c].arg # NoRef =>
           /\ refs'[call[c].arg].gen = refs[call[c].arg].gen
           /\ refs'[call[c].arg].origin = refs[call[c].arg].origin
      /\ call[c].exe # NoRef => refs'[call[c].exe].origin = refs[call[c].exe].origin
  BY <1>1 DEF Stable, Sorted, IsMade
<1> QED
  BY <1>2 DEF Undisturbed

(* If no one is answered, what was answered stays right.                   *)
LEMMA NobodyAnswered ==
  ASSUME TInv, SInv, Stable,
         \A c \in Client : call'[c].at = "replied" => call'[c] = call[c]
  PROVE  ReadsOwnData'
<1> SUFFICES ASSUME NEW c \in Client, call'[c].at = "replied", Undisturbed(c)'
             PROVE  call'[c].data = Intended(c)'
  BY DEF ReadsOwnData
<1>1. call'[c] = call[c] /\ call[c].at = "replied"
  OBVIOUS
<1>2. Undisturbed(c) /\ Intended(c)' = Intended(c)
  BY <1>1, DisturbedSame, IntendedSame DEF SameUse
<1> QED
  BY <1>1, <1>2 DEF SInv, CInv, ReadsOwnData

(* And what a reply or a reference names stays where it is, if the         *)
(* worker does nothing.                                                    *)
LEMMA RepliesStay ==
  ASSUME SInv, UNCHANGED <<gen, up, table, strayed>>,
         \A c \in Client : call'[c].at = "replied" => call'[c] = call[c]
  PROVE  RepliesHold'
<1> SUFFICES ASSUME NEW c \in Client, Holds(c)' PROVE ReplyHeld(c)'
  BY DEF RepliesHold, ReplyHeld
<1>1. call'[c] = call[c] /\ Holds(c)
  BY DEF Holds
<1> QED
  BY <1>1 DEF SInv, CInv, RepliesHold, ReplyHeld, Holds, Kept

(* A call that goes on has seen what it saw.                               *)
LEMMA CallStaysSeen ==
  ASSUME TInv, SInv, Stable, UsedStay, NEW c \in Client, call'[c] = call[c]
  PROVE  CallSeen(call[c])'
<1>1. call[c].at # "idle" => Sorted(call[c])
  BY DEF TInv, CallsSorted, CallSorted
<1>2. CallSeen(call[c])
  BY DEF SInv, FInv, CallsSeen
<1>3. LiveUse(call[c])'
  BY <1>2 DEF CallSeen, UsedStay
<1>4. call'[c].at # "idle" => SeenUse(call[c])'
  BY <1>1, <1>2 DEF CallSeen, SeenUse, Stable, Sorted, IsMade
<1> QED
  BY <1>3, <1>4 DEF CallSeen

(* So has a request.                                                       *)
LEMMA RequestStaysSeen ==
  ASSUME TInv, SInv, Stable, NEW i \in DOMAIN inbox
  PROVE  \A m : m = inbox[i] => RequestSeen(m)'
<1>1. Sorted(inbox[i]) /\ RequestSeen(inbox[i])
  BY DEF TInv, InboxSorted, SInv, FInv, InboxSeen
<1>2. \A r \in inbox[i].ids : r \in RefId /\ refs[r].state # "free"
  <2> inbox \in Seq(Message)
    BY DEF TInv, TypeOK
  <2>1. inbox[i] \in Message
    OBVIOUS
  <2> QED
    BY <2>1 DEF SInv, GInv, InboxGivenUp, GivenUp, Message
<1> QED
  BY <1>1, <1>2 DEF RequestSeen, SeenUse, Stable, Sorted, IsMade

(* What a request releases stays given up.                                 *)
LEMMA RequestStaysGivenUp ==
  ASSUME TInv, SInv, Stable, NEW i \in DOMAIN inbox
  PROVE  \A r \in inbox[i].ids :
           GivenUp(r)' /\ refs'[r].kind = ReleaseKind(inbox[i].cmd)
<1> inbox \in Seq(Message)
  BY DEF TInv, TypeOK
<1>1. inbox[i] \in Message
  OBVIOUS
<1> QED
  BY <1>1 DEF SInv, GInv, InboxGivenUp, GivenUp, Message, Stable

(* One client moves on, and nothing but its call changes.                  *)
LEMMA CallOnly ==
  ASSUME TInv, SInv, NEW c \in Client, NEW rec,
         call[c].at # "wait", rec.at \in {"idle", "checked"},
         call' = [call EXCEPT ![c] = rec],
         CallSeen(rec), rec.cmd # "release",
         UNCHANGED <<workerVars, inbox, refs, queue, cache, reaper>>
  PROVE  SInv'
<1> UNCHANGED <<gen, up, table, strayed>>
  BY DEF workerVars
<1>1. /\ call'[c] = rec
      /\ \A d \in Client : d # c => call'[d] = call[d]
  BY DEF TInv, TypeOK
<1>2. Stable /\ UsedStay
  BY SameRefsStable
<1>3. CallsSeen'
  <2>1. CallSeen(call[c])'
    BY <1>1 DEF CallSeen, SeenUse, LiveUse
  <2> QED
    BY <1>1, <1>2, <2>1, CallStaysSeen DEF CallsSeen
<1>4. InboxSeen' /\ ReaperSeen' /\ NoExecutableTaken'
  BY DEF SInv, FInv, InboxSeen, RequestSeen, SeenUse, ReaperSeen, NoExecutableTaken
<1>5. GInv'
  BY <1>1
  DEF SInv, GInv, QueueGivenUp, ReaperGivenUp, CallsGivenUp, InboxGivenUp, GivenUp
<1>6. InboxCarries'
  BY <1>1 DEF SInv, CInv, InboxCarries, TInv, InboxSorted, Matching
<1>7. RefsHold'
  BY DEF SInv, CInv, RefsHold, RefHeld, Kept, Content
<1>8. RepliesHold' /\ ReadsOwnData'
  BY <1>1, <1>2, NobodyAnswered, RepliesStay
<1> QED
  BY <1>3, <1>4, <1>5, <1>6, <1>7, <1>8 DEF SInv, FInv, CInv

(* to_binary/2 has compared the generation of what it uses.                *)
LEMMA ToBinarySafe ==
  ASSUME TInv, SInv, NEW c \in Client, NEW r \in RefId, ToBinary(c, r)
  PROVE  SInv'
<1> DEFINE rec == [Idle EXCEPT !.at = "checked", !.cmd = "download",
                               !.arg = r, !.seen = gen]
<1>1. CallSeen(rec) /\ rec.at \in {"idle", "checked"} /\ rec.cmd # "release"
  BY DEF ToBinary, CheckFresh, Idle, CallSeen, SeenUse, LiveUse
<1>2. call[c].at # "wait" /\ call' = [call EXCEPT ![c] = rec]
      /\ UNCHANGED <<workerVars, inbox, refs, queue, cache, reaper>>
  BY DEF ToBinary, Begin
<1> QED
  BY <1>1, <1>2, CallOnly

(* So has eager!/5.                                                        *)
LEMMA EagerSafe ==
  ASSUME TInv, SInv, NEW c \in Client, NEW g \in Graph, NEW r \in RefId, Eager(c, g, r)
  PROVE  SInv'
<1> DEFINE rec == [Idle EXCEPT !.at = "checked", !.cmd = "run_node",
                               !.val = g, !.arg = r, !.seen = gen]
<1>1. CallSeen(rec) /\ rec.at \in {"idle", "checked"} /\ rec.cmd # "release"
  BY DEF Eager, CheckFresh, Idle, CallSeen, SeenUse, LiveUse
<1>2. call[c].at # "wait" /\ call' = [call EXCEPT ![c] = rec]
      /\ UNCHANGED <<workerVars, inbox, refs, queue, cache, reaper>>
  BY DEF Eager, Begin
<1> QED
  BY <1>1, <1>2, CallOnly

(* So has run_one/2 that of its input; its executable is in its hands.     *)
LEMMA RunOneSafe ==
  ASSUME TInv, SInv, NEW c \in Client, NEW e \in RefId, NEW r \in RefId,
         NEW cmd \in UsesExecutable, RunOne(c, e, r, cmd)
  PROVE  SInv'
<1> DEFINE rec == [Idle EXCEPT !.at = "checked", !.cmd = cmd,
                               !.arg = r, !.exe = e, !.seen = gen]
<1>1. refs[e].kind = "executable" /\ refs[e].state = "live"
  BY DEF RunOne, InHand, SInv, FInv, NoExecutableTaken
<1>2. CallSeen(rec) /\ rec.at \in {"idle", "checked"} /\ rec.cmd # "release"
  BY <1>1 DEF RunOne, CheckFresh, Idle, CallSeen, SeenUse, LiveUse, UsesExecutable
<1>3. call[c].at # "wait" /\ call' = [call EXCEPT ![c] = rec]
      /\ UNCHANGED <<workerVars, inbox, refs, queue, cache, reaper>>
  BY DEF RunOne, Begin
<1> QED
  BY <1>2, <1>3, CallOnly

(* A compile uses nothing.                                                 *)
LEMMA EnsureCompiledSafe ==
  ASSUME TInv, SInv, NEW c \in Client, NEW g \in Graph, EnsureCompiled(c, g)
  PROVE  SInv'
<1> DEFINE rec == [Idle EXCEPT !.at = "checked", !.cmd = "compile",
                               !.val = g, !.seen = gen]
<1>1. CallSeen(rec) /\ rec.at \in {"idle", "checked"} /\ rec.cmd # "release"
  BY DEF EnsureCompiled, Idle, CallSeen, SeenUse, LiveUse
<1>2. call[c].at # "wait" /\ call' = [call EXCEPT ![c] = rec]
      /\ UNCHANGED <<workerVars, inbox, refs, queue, cache, reaper>>
  BY DEF EnsureCompiled, Begin
<1> QED
  BY <1>1, <1>2, CallOnly

(* A client that returns or exits owes nothing any more.                   *)
LEMMA BackToIdleSafe ==
  ASSUME TInv, SInv, NEW c \in Client, SendExits(c) \/ BuildExits(c) \/ Return(c)
  PROVE  SInv'
<1>1. CallSeen(Idle) /\ Idle.at = "idle" /\ Idle.cmd # "release"
  BY DEF Idle, CallSeen, LiveUse
<1>2. call[c].at # "wait" /\ call' = [call EXCEPT ![c] = Idle]
      /\ UNCHANGED <<workerVars, inbox, refs, queue, cache, reaper>>
  BY DEF SendExits, BuildExits, Return, workerVars
<1> QED
  BY <1>1, <1>2, CallOnly

(* A client, not waiting so far, has its request m sent.                   *)
LEMMA RequestSafe ==
  ASSUME TInv, SInv, NEW c \in Client, NEW m \in Message, m.from = c,
         RequestSeen(m),
         \A r \in m.ids : GivenUp(r) /\ refs[r].kind = ReleaseKind(m.cmd),
         NEW rec, rec.at = "wait", CallSeen(rec),
         rec.arg = m.arg, rec.exe = m.exe, rec.val = m.val, rec.seen = m.seen,
         call[c].at # "wait",
         call' = [call EXCEPT ![c] = rec],
         inbox' = Append(inbox, m),
         UNCHANGED <<workerVars, refs, queue, cache, reaper>>
  PROVE  SInv'
<1> inbox \in Seq(Message)
  BY DEF TInv, TypeOK
<1> UNCHANGED <<gen, up, table, strayed>>
  BY DEF workerVars
<1>1. /\ call'[c] = rec
      /\ \A d \in Client : d # c => call'[d] = call[d]
  BY DEF TInv, TypeOK
<1>2. Stable /\ UsedStay
  BY SameRefsStable
<1>3. ReaperSeen' /\ NoExecutableTaken'
  BY DEF SInv, FInv, ReaperSeen, NoExecutableTaken
<1>4. CallsSeen'
  <2>1. CallSeen(call[c])'
    BY <1>1 DEF CallSeen, SeenUse, LiveUse
  <2> QED
    BY <1>1, <1>2, <2>1, CallStaysSeen DEF CallsSeen
<1>5. InboxSeen'
  BY AppendFacts DEF SInv, FInv, InboxSeen, RequestSeen, SeenUse
<1>6. QueueGivenUp' /\ ReaperGivenUp'
  BY DEF SInv, GInv, QueueGivenUp, ReaperGivenUp, GivenUp
<1>7. CallsGivenUp'
  BY <1>1 DEF SInv, GInv, CallsGivenUp, GivenUp
<1>8. InboxGivenUp'
  BY AppendFacts DEF SInv, GInv, InboxGivenUp, GivenUp
<1>9. InboxCarries'
  <2>1. \A i \in DOMAIN inbox : inbox[i].from # c
    BY DEF TInv, InboxSorted, Matching
  <2> QED
    BY <1>1, <2>1, AppendFacts DEF SInv, CInv, InboxCarries
<1>10. RefsHold'
  BY DEF SInv, CInv, RefsHold, RefHeld, Kept, Content
<1>11. RepliesHold' /\ ReadsOwnData'
  BY <1>1, <1>2, NobodyAnswered, RepliesStay
<1> QED
  BY <1>3, <1>4, <1>5, <1>6, <1>7, <1>8, <1>9, <1>10, <1>11 DEF SInv, FInv, GInv, CInv

(* from_binary/3 sends its request at once.                                *)
LEMMA FromBinarySafe ==
  ASSUME TInv, SInv, NEW c \in Client, NEW d \in Data, FromBinary(c, d)
  PROVE  SInv'
<1> DEFINE rec == [Idle EXCEPT !.at = "wait", !.cmd = "upload", !.val = d, !.seen = gen]
           m == [from |-> c, cmd |-> "upload", arg |-> NoRef,
                 exe |-> NoRef, val |-> d, ids |-> {}, seen |-> gen]
<1>1. m \in Message /\ m.from = c /\ m.ids = {}
  BY DEF Message, Command, Value, TensorMaking, TInv, TypeOK
<1>2. RequestSeen(m)
  BY DEF RequestSeen, SeenUse
<1>3. /\ rec.at = "wait" /\ rec.arg = m.arg /\ rec.exe = m.exe /\ rec.val = m.val
      /\ rec.seen = m.seen
  BY DEF Idle
<1>4. CallSeen(rec)
  BY DEF Idle, CallSeen, SeenUse, LiveUse
<1>5. /\ call[c].at # "wait"
      /\ call' = [call EXCEPT ![c] = rec]
      /\ inbox' = Append(inbox, m)
      /\ UNCHANGED <<workerVars, refs, queue, cache, reaper>>
  BY DEF FromBinary, Begin
<1> QED
  BY <1>1, <1>2, <1>3, <1>4, <1>5, RequestSafe

(* A request is sent as it was prepared.                                   *)
LEMMA SendSafe ==
  ASSUME TInv, SInv, NEW c \in Client, Send(c)
  PROVE  SInv'
<1> DEFINE rec == [call[c] EXCEPT !.at = "wait"]
           m == [from |-> c, cmd |-> call[c].cmd, arg |-> call[c].arg,
                 exe |-> call[c].exe, val |-> call[c].val,
                 ids |-> IF call[c].cmd = "release" THEN {call[c].arg} ELSE {},
                 seen |-> call[c].seen]
<1>1. /\ call[c] \in Call /\ call[c].at = "checked"
      /\ Sorted(call[c]) /\ AsCall(call[c]) /\ CallSeen(call[c])
      /\ call[c].cmd = "release" => GivenUp(call[c].arg)
  BY DEF Send, TInv, TypeOK, CallsSorted, CallSorted, SInv, FInv, CallsSeen,
         GInv, CallsGivenUp
<1>2. call[c].cmd = "release" => call[c].arg \in RefId /\ refs[call[c].arg].kind = "tensor"
  BY <1>1 DEF Sorted, AsCall, IsMade
<1>3. /\ m.from = c /\ m.cmd = call[c].cmd /\ m.arg = call[c].arg
      /\ m.exe = call[c].exe /\ m.val = call[c].val /\ m.seen = call[c].seen
      /\ \A r \in m.ids : call[c].cmd = "release" /\ r = call[c].arg
  OBVIOUS
<1>4. m.ids \in SUBSET RefId
  BY <1>2
<1>5. m \in Message
  BY <1>1, <1>4 DEF Call, Message, Sorted
<1>6. RequestSeen(m)
  BY <1>1, <1>2, <1>3 DEF RequestSeen, CallSeen, SeenUse, AsCall
<1>7. \A r \in m.ids : GivenUp(r) /\ refs[r].kind = ReleaseKind(m.cmd)
  BY <1>1, <1>2, <1>3 DEF ReleaseKind
<1>8. /\ rec.at = "wait" /\ rec.cmd = call[c].cmd /\ rec.arg = call[c].arg
      /\ rec.exe = call[c].exe /\ rec.val = call[c].val /\ rec.seen = call[c].seen
  BY <1>1 DEF Call
<1>9. CallSeen(rec)
  BY <1>1, <1>8 DEF CallSeen, SeenUse, LiveUse
<1>10. /\ call[c].at # "wait"
       /\ call' = [call EXCEPT ![c] = rec]
       /\ inbox' = Append(inbox, m)
       /\ UNCHANGED <<workerVars, refs, queue, cache, reaper>>
  BY <1>1 DEF Send
<1> HIDE DEF rec, m
<1> QED
  BY <1>3, <1>5, <1>6, <1>7, <1>8, <1>9, <1>10, RequestSafe

(* References change; the worker, the inbox and the reaper do not.         *)
LEMMA RefsMove ==
  ASSUME TInv, SInv, Stable, UsedStay, UNCHANGED <<workerVars, inbox, reaper>>,
         NoExecutableTaken', RefsHold',
         \A r \in queue' \ queue : GivenUp(r)',
         \A d \in Client :
           \/ call'[d] = call[d]
           \/ /\ CallSeen(call[d])'
              /\ call[d].at # "wait" /\ call'[d].at \in {"idle", "checked"}
              /\ call'[d].at = "checked" /\ call'[d].cmd = "release" => GivenUp(call[d].arg)'
  PROVE  SInv'
<1> UNCHANGED <<gen, up, table, strayed>>
  BY DEF workerVars
<1> inbox \in Seq(Message) /\ queue \in SUBSET RefId
    /\ reaper.entries \in SUBSET RefId /\ reaper.ids \in SUBSET RefId
  BY DEF TInv, TypeOK
<1>1. CallsSeen'
  BY CallStaysSeen DEF CallsSeen
<1>2. InboxSeen'
  BY RequestStaysSeen DEF InboxSeen
<1>3. ReaperSeen' /\ ReaperGivenUp' /\ QueueGivenUp'
  BY DEF SInv, FInv, GInv, ReaperSeen, ReaperGivenUp, QueueGivenUp, GivenUp, Stable
<1>4. CallsGivenUp'
  <2> SUFFICES ASSUME NEW d \in Client, call'[d].at = "checked", call'[d].cmd = "release"
               PROVE  GivenUp(call[d].arg)'
    BY DEF CallsGivenUp
  <2>1. CASE call'[d] # call[d]
    BY <2>1
  <2>2. CASE call'[d] = call[d]
    <3>1. GivenUp(call[d].arg) /\ call[d].arg \in RefId /\ refs[call[d].arg].state # "free"
      BY <2>2
      DEF SInv, GInv, CallsGivenUp, TInv, CallsSorted, CallSorted, Sorted, AsCall, IsMade
    <3> QED
      BY <2>2, <3>1 DEF Stable, GivenUp
  <2> QED
    BY <2>1, <2>2
<1>5. InboxGivenUp'
  BY RequestStaysGivenUp DEF InboxGivenUp
<1>6. InboxCarries'
  <2>1. \A i \in DOMAIN inbox : inbox[i].from \in Client => call[inbox[i].from].at = "wait"
    BY DEF TInv, InboxSorted, Matching
  <2> QED
    BY <2>1 DEF SInv, CInv, InboxCarries
<1>7. \A d \in Client : call'[d].at = "replied" => call'[d] = call[d]
  OBVIOUS
<1>8. RepliesHold' /\ ReadsOwnData'
  BY <1>7, NobodyAnswered, RepliesStay
<1> QED
  BY <1>1, <1>2, <1>3, <1>4, <1>5, <1>6, <1>8 DEF SInv, FInv, GInv, CInv

(* The program gives a live reference up.                                  *)
LEMMA GiveUp ==
  ASSUME TInv, SInv, NEW r \in RefId, refs[r].state = "live",
         NEW st \in {"taken", "dropped"},
         refs[r].kind = "executable" =>
           st = "dropped" /\ \A c \in Client : call[c].exe # r \/ call'[c] # call[c],
         refs' = [refs EXCEPT ![r].state = st],
         UNCHANGED <<gen, up, table, strayed>>
  PROVE  /\ Stable /\ UsedStay
         /\ NoExecutableTaken'
         /\ RefsHold'
         /\ GivenUp(r)'
<1>1. \A s \in RefId :
        /\ refs'[s].state = IF s = r THEN st ELSE refs[s].state
        /\ refs'[s].kind = refs[s].kind
        /\ refs'[s].gen = refs[s].gen
        /\ refs'[s].handle = refs[s].handle
        /\ refs'[s].origin = refs[s].origin
        /\ refs'[s].val = refs[s].val
  BY DEF TInv, TypeOK, Ref
<1>2. Stable /\ GivenUp(r)'
  BY <1>1 DEF Stable, GivenUp
<1>3. UsedStay
  BY <1>1 DEF UsedStay, LiveUse
<1>4. NoExecutableTaken'
  BY <1>1 DEF SInv, FInv, NoExecutableTaken
<1>5. RefsHold'
  BY <1>1 DEF SInv, CInv, RefsHold, RefHeld, Kept, Content
<1> QED
  BY <1>2, <1>3, <1>4, <1>5

(* A tensor deallocated explicitly is given up.                            *)
LEMMA DeallocateSafe ==
  ASSUME TInv, SInv, NEW c \in Client, NEW r \in RefId, Deallocate(c, r)
  PROVE  SInv'
<1> DEFINE rec == IF CheckFresh(r)
                  THEN [Idle EXCEPT !.at = "checked", !.cmd = "release", !.arg = r,
                                    !.seen = gen]
                  ELSE Idle
<1>1. /\ refs' = [refs EXCEPT ![r].state = "taken"] /\ refs[r].state = "live"
      /\ refs[r].kind = "tensor"
      /\ call' = [call EXCEPT ![c] = rec] /\ call[c].at # "wait"
      /\ UNCHANGED <<workerVars, inbox, queue, cache, reaper>>
  BY DEF Deallocate, Unclaimed, Begin
<1>2. Stable /\ UsedStay /\ NoExecutableTaken' /\ RefsHold' /\ GivenUp(r)'
  BY <1>1, GiveUp DEF workerVars
<1>3. /\ rec.at \in {"idle", "checked"} /\ rec.exe = NoRef
      /\ rec.at = "checked" => /\ rec.arg = r /\ rec.cmd = "release"
                               /\ rec.seen = gen /\ refs[r].gen = gen
  BY DEF CheckFresh, Idle
<1> HIDE DEF rec
<1>4. /\ call'[c] = rec
      /\ \A d \in Client : d # c => call'[d] = call[d]
  BY <1>1 DEF TInv, TypeOK
<1>5. CallSeen(call[c])'
  BY <1>1, <1>2, <1>3, <1>4 DEF CallSeen, SeenUse, LiveUse, Stable
<1> QED
  BY <1>1, <1>2, <1>3, <1>4, <1>5, RefsMove

(* So is one that is collected: no call runs it.                           *)
LEMMA DropSafe ==
  ASSUME TInv, SInv, NEW r \in RefId, Drop(r)
  PROVE  SInv'
<1>1. /\ refs' = [refs EXCEPT ![r].state = "dropped"] /\ refs[r].state = "live"
      /\ queue' = queue \cup {r}
      /\ \A c \in Client : call[c].exe # r
      /\ UNCHANGED <<workerVars, inbox, cache, call, reaper>>
  BY DEF Drop, Unclaimed, Push
<1>2. Stable /\ UsedStay /\ NoExecutableTaken' /\ RefsHold' /\ GivenUp(r)'
  BY <1>1, GiveUp DEF workerVars
<1> QED
  BY <1>1, <1>2, RefsMove

(* A reply is wrapped: the reference stands for what was put there.        *)
LEMMA WrapSafe ==
  ASSUME TInv, SInv, NEW c \in Client, NEW r \in RefId, Build(c, r) \/ CompileEntry(c, r)
  PROVE  SInv'
<1>1. /\ Holds(c) /\ refs[r].state = "free" /\ Idle.at = "idle"
      /\ UNCHANGED <<workerVars, inbox, queue, reaper>>
      /\ \A s \in RefId : s # r => refs'[s] = refs[s]
      /\ \A d \in Client : d # c => call'[d] = call[d]
      /\ call'[c] = Idle /\ call[c].at # "wait"
  BY DEF Build, CompileEntry, Holds, MakingCommand, TensorMaking, Free, Idle, TInv, TypeOK
<1>2. /\ refs'[r].state = "live"
      /\ refs'[r].kind = KindOf(call[c].cmd)
      /\ refs'[r].handle = call[c].id
      /\ refs'[r].origin = call[c].origin
      /\ refs'[r].val = call[c].data
  <2>1. CASE Build(c, r)
    BY <2>1 DEF Build, KindOf, TensorMaking, TInv, TypeOK
  <2>2. CASE CompileEntry(c, r)
    BY <2>2 DEF CompileEntry, KindOf, TInv, TypeOK
  <2> QED
    BY <2>1, <2>2
<1>3. Stable /\ UsedStay
  BY <1>1 DEF Stable, GivenUp, UsedStay, LiveUse
<1>4. NoExecutableTaken'
  BY <1>1, <1>2 DEF SInv, FInv, NoExecutableTaken
<1>5. RefsHold'
  <2> UNCHANGED <<gen, up, table, strayed>>
    BY <1>1 DEF workerVars
  <2>1. \A s \in RefId : s # r => RefHeld(s)'
    BY <1>1 DEF SInv, CInv, RefsHold, RefHeld, Kept, Content
  <2>2. ReplyHeld(c)
    BY DEF SInv, CInv, RepliesHold
  <2>3. RefHeld(r)'
    BY <1>1, <1>2, <2>2 DEF RefHeld, ReplyHeld, Kept, Content
  <2> QED
    BY <2>1, <2>3 DEF RefsHold
<1>6. CallSeen(call[c])'
  BY <1>1 DEF CallSeen, LiveUse, Idle
<1> QED
  BY <1>1, <1>3, <1>4, <1>5, <1>6, RefsMove

(* A caller gives up.                                                      *)
LEMMA OrphanSafe ==
  ASSUME TInv, SInv, NEW from, Orphan(from), UNCHANGED refs,
         \A c \in Client : c # from => call'[c] = call[c]
  PROVE  InboxSeen' /\ InboxGivenUp' /\ InboxCarries'
<1>1. \A i \in DOMAIN inbox' :
        /\ i \in DOMAIN inbox
        /\ inbox'[i].from = IF inbox[i].from = from THEN Nobody ELSE inbox[i].from
        /\ inbox'[i].cmd = inbox[i].cmd
        /\ inbox'[i].arg = inbox[i].arg
        /\ inbox'[i].exe = inbox[i].exe
        /\ inbox'[i].val = inbox[i].val
        /\ inbox'[i].ids = inbox[i].ids
        /\ inbox'[i].seen = inbox[i].seen
  BY RequestOrphaned
<1>2. InboxSeen'
  BY <1>1 DEF SInv, FInv, InboxSeen, RequestSeen, SeenUse
<1>3. InboxGivenUp'
  BY <1>1 DEF SInv, GInv, InboxGivenUp, GivenUp
<1>4. InboxCarries'
  BY <1>1, DistinctAssumption DEF SInv, CInv, InboxCarries
<1> QED
  BY <1>2, <1>3, <1>4

(* A client gives up on its request.                                       *)
LEMMA TimeoutSafe ==
  ASSUME TInv, SInv, NEW c \in Client, Timeout(c)
  PROVE  SInv'
<1>1. /\ Orphan(c) /\ call[c].at = "wait" /\ Idle.at = "idle" /\ Idle.exe = NoRef
      /\ UNCHANGED <<gen, up, table, strayed, nextId, refs, queue, cache, reaper>>
      /\ call'[c] = Idle
      /\ \A d \in Client : d # c => call'[d] = call[d]
  BY DEF Timeout, Idle, workerVars, TInv, TypeOK
<1>2. Stable /\ UsedStay
  BY <1>1, SameRefsStable
<1>3. InboxSeen' /\ InboxGivenUp' /\ InboxCarries'
  BY <1>1, OrphanSafe
<1>4. CallsSeen'
  BY <1>1, <1>2, CallStaysSeen DEF CallsSeen, CallSeen, LiveUse
<1>5. /\ ReaperSeen' /\ NoExecutableTaken'
      /\ QueueGivenUp' /\ ReaperGivenUp' /\ CallsGivenUp'
  BY <1>1 DEF SInv, FInv, GInv, ReaperSeen, NoExecutableTaken, QueueGivenUp, ReaperGivenUp,
              CallsGivenUp, GivenUp
<1>6. RefsHold'
  BY <1>1 DEF SInv, CInv, RefsHold, RefHeld, Kept, Content
<1>7. RepliesHold' /\ ReadsOwnData'
  BY <1>1, <1>2, NobodyAnswered, RepliesStay
<1> QED
  BY <1>3, <1>4, <1>5, <1>6, <1>7 DEF SInv, FInv, GInv, CInv

(* Calls and references stay as they are, and the worker does nothing.     *)
LEMMA CallsAndRefsStay ==
  ASSUME TInv, SInv, UNCHANGED <<gen, up, table, strayed, refs, call>>
  PROVE  /\ CallsSeen' /\ NoExecutableTaken' /\ CallsGivenUp'
         /\ RefsHold' /\ RepliesHold' /\ ReadsOwnData'
<1>1. Stable
  BY SameRefsStable
<1>2. CallsSeen' /\ NoExecutableTaken' /\ CallsGivenUp' /\ RefsHold'
  BY DEF SInv, FInv, GInv, CInv, CallsSeen, CallSeen, SeenUse, LiveUse, NoExecutableTaken,
         CallsGivenUp, GivenUp, RefsHold, RefHeld, Kept, Content
<1>3. RepliesHold' /\ ReadsOwnData'
  BY <1>1, NobodyAnswered, RepliesStay
<1> QED
  BY <1>2, <1>3

(* The reaper goes on with what it still has.                              *)
LEMMA NextPhaseFacts ==
  /\ NextPhase.at # "send"
  /\ NextPhase.entries \in SUBSET reaper.entries
  BY DEF NextPhase, ReaperIdle

(* The reaper groups what was given up, by the generation it sees.         *)
LEMMA ReaperSafe ==
  ASSUME TInv, SInv, Drain \/ ReleaseGroup \/ ReaperExits \/ ReaperTimeout
  PROVE  SInv'
<1>1. UNCHANGED <<gen, up, table, strayed, nextId, refs, call>>
  BY DEF Drain, ReleaseGroup, ReaperExits, ReaperTimeout, workerVars
<1>2. InboxSeen' /\ InboxGivenUp' /\ InboxCarries'
  <2>1. CASE ReaperTimeout
    BY <1>1, <2>1, OrphanSafe DEF ReaperTimeout
  <2>2. CASE inbox' = inbox
    BY <1>1, <2>2
    DEF SInv, FInv, GInv, CInv, InboxSeen, RequestSeen, SeenUse, InboxGivenUp, GivenUp,
        InboxCarries
  <2> QED
    BY <2>1, <2>2 DEF Drain, ReleaseGroup, ReaperExits
<1>3. QueueGivenUp'
  <2>1. \A r \in queue' \cup reaper'.entries : r \in queue \cup reaper.entries
    <3>1. CASE Drain
      BY <3>1 DEF Drain, ReaperIdle
    <3>2. CASE ReleaseGroup
      BY <3>2, NextPhaseFacts DEF ReleaseGroup, TInv, TypeOK
    <3>3. CASE ReaperExits
      BY <3>3 DEF ReaperExits, ReaperIdle
    <3>4. CASE ReaperTimeout
      BY <3>4, NextPhaseFacts DEF ReaperTimeout
    <3> QED
      BY <3>1, <3>2, <3>3, <3>4
  <2> QED
    BY <1>1, <2>1 DEF SInv, GInv, QueueGivenUp, GivenUp
<1>4. ReaperSeen' /\ ReaperGivenUp'
  <2>1. CASE reaper'.at # "send"
    BY <2>1 DEF ReaperSeen, ReaperGivenUp
  <2>2. CASE reaper'.at = "send"
    <3>1. /\ reaper'.ids = Current /\ reaper'.seen = gen
          /\ reaper'.phase = reaper.phase
      <4>1. CASE ReleaseGroup
        BY <2>2, <4>1, NextPhaseFacts DEF ReleaseGroup, TInv, TypeOK
      <4>2. CASE Drain
        BY <2>2, <4>2 DEF Drain, ReaperIdle
      <4>3. CASE ReaperExits
        BY <2>2, <4>3 DEF ReaperExits, ReaperIdle
      <4>4. CASE ReaperTimeout
        BY <2>2, <4>4, NextPhaseFacts DEF ReaperTimeout
      <4> QED
        BY <4>1, <4>2, <4>3, <4>4
    <3> QED
      BY <1>1, <3>1
      DEF SInv, GInv, QueueGivenUp, Current, ReaperSeen, ReaperGivenUp, GivenUp
  <2> QED
    BY <2>1, <2>2
<1> QED
  BY <1>1, <1>2, <1>3, <1>4, CallsAndRefsStay DEF SInv, FInv, GInv, CInv

(* It sends the release it has grouped.                                    *)
LEMMA ReaperSendSafe ==
  ASSUME TInv, SInv, ReaperSend
  PROVE  SInv'
<1> DEFINE m == [from |-> Reaper, arg |-> NoRef, exe |-> NoRef, val |-> None,
                 cmd |-> IF reaper.phase = "tensor" THEN "release"
                                                    ELSE "release_executable",
                 ids |-> reaper.ids, seen |-> reaper.seen]
<1> inbox \in Seq(Message)
  BY DEF TInv, TypeOK
<1>1. m \in Message /\ m.from \notin Client
  BY DistinctAssumption DEF Message, Command, Releases, TInv, TypeOK
<1>2. /\ inbox' = Append(inbox, m) /\ reaper.at = "send"
      /\ UNCHANGED <<gen, up, table, strayed, nextId, refs, queue, cache, call>>
      /\ reaper'.at = "wait" /\ reaper'.entries \in SUBSET reaper.entries
  BY DEF ReaperSend, workerVars, TInv, TypeOK
<1>3. RequestSeen(m)
  BY <1>2 DEF SInv, FInv, ReaperSeen, RequestSeen, SeenUse
<1>4. \A r \in m.ids : GivenUp(r) /\ refs[r].kind = ReleaseKind(m.cmd)
  BY <1>2 DEF SInv, GInv, ReaperGivenUp, ReleaseKind, TInv, TypeOK, Kind
<1>5. InboxSeen'
  BY <1>1, <1>2, <1>3, AppendFacts DEF SInv, FInv, InboxSeen, RequestSeen, SeenUse
<1>6. InboxGivenUp'
  BY <1>1, <1>2, <1>4, AppendFacts DEF SInv, GInv, InboxGivenUp, GivenUp
<1>7. InboxCarries'
  BY <1>1, <1>2, AppendFacts DEF SInv, CInv, InboxCarries
<1>8. QueueGivenUp' /\ ReaperSeen' /\ ReaperGivenUp'
  BY <1>2 DEF SInv, GInv, QueueGivenUp, GivenUp, ReaperSeen, ReaperGivenUp
<1> QED
  BY <1>2, <1>5, <1>6, <1>7, <1>8, CallsAndRefsStay DEF SInv, FInv, GInv, CInv

(* The worker takes the first request.                                     *)
LEMMA ServingSafe ==
  ASSUME TInv, SInv, inbox # <<>>, inbox' = Tail(inbox), UNCHANGED refs,
         \A c \in Client : c # req.from => call'[c] = call[c]
  PROVE  InboxSeen' /\ InboxGivenUp' /\ InboxCarries'
<1> inbox \in Seq(Message)
  BY DEF TInv, TypeOK
<1>1. InboxSeen'
  BY TailFacts DEF SInv, FInv, InboxSeen, RequestSeen, SeenUse
<1>2. InboxGivenUp'
  BY TailFacts DEF SInv, GInv, InboxGivenUp, GivenUp
<1>3. \A i \in DOMAIN inbox' : inbox'[i].from \in Client => inbox'[i].from # req.from
  BY TailFacts DEF TInv, InboxSorted, Matching, req
<1>4. InboxCarries'
  BY <1>3, TailFacts DEF SInv, CInv, InboxCarries
<1> QED
  BY <1>1, <1>2, <1>4

(* The request at the head carries its caller's arguments.                 *)
LEMMA FirstRequestCarries ==
  ASSUME TInv, SInv, inbox # <<>>
  PROVE  /\ RequestSeen(req)
         /\ \A r \in req.ids : r \in RefId /\ GivenUp(r) /\ refs[r].kind = ReleaseKind(req.cmd)
         /\ req.from \in Client =>
              /\ call[req.from].arg = req.arg
              /\ call[req.from].exe = req.exe
              /\ call[req.from].val = req.val
              /\ call[req.from].seen = req.seen
<1> inbox \in Seq(Message)
  BY DEF TInv, TypeOK
<1>1. req = inbox[1] /\ 1 \in DOMAIN inbox /\ req \in Message
  BY TailFacts DEF req
<1> QED
  BY <1>1 DEF SInv, FInv, GInv, CInv, InboxSeen, InboxGivenUp, InboxCarries, Message

(* The caller's call, which waits, is the only one that changes.           *)
LEMMA OthersStay ==
  ASSUME TInv, SInv, inbox # <<>>, UNCHANGED <<refs, queue>>,
         reaper' = reaper \/ reaper' = NextPhase,
         \A c \in Client : c # req.from => call'[c] = call[c],
         \A c \in Client : c = req.from => CallSeen(call[c])',
         InboxSeen'
  PROVE  FInv'
<1>1. Stable /\ UsedStay
  BY SameRefsStable
<1>2. CallsSeen'
  <2> SUFFICES ASSUME NEW c \in Client PROVE CallSeen(call[c])'
    BY DEF CallsSeen
  <2>1. CASE c = req.from
    BY <2>1
  <2>2. CASE c # req.from
    BY <1>1, <2>2, CallStaysSeen
  <2> QED
    BY <2>1, <2>2
<1>3. ReaperSeen' /\ NoExecutableTaken'
  BY NextPhaseFacts DEF SInv, FInv, ReaperSeen, NoExecutableTaken
<1> QED
  BY <1>2, <1>3 DEF FInv

(* So nothing new is to be released.                                       *)
LEMMA OthersGiveUp ==
  ASSUME TInv, SInv, inbox # <<>>, UNCHANGED <<refs, queue>>,
         reaper' = reaper \/ reaper' = NextPhase,
         \A c \in Client : c # req.from => call'[c] = call[c],
         req.from \in Client => call'[req.from].at \in {"idle", "replied"}
  PROVE  QueueGivenUp' /\ ReaperGivenUp' /\ CallsGivenUp'
<1>1. CallsGivenUp'
  BY DEF SInv, GInv, CallsGivenUp, GivenUp
<1>2. CASE reaper' = reaper
  BY <1>1, <1>2 DEF SInv, GInv, QueueGivenUp, ReaperGivenUp, GivenUp
<1>3. CASE reaper' = NextPhase
  BY <1>1, <1>3, NextPhaseFacts DEF SInv, GInv, QueueGivenUp, ReaperGivenUp, GivenUp
<1> QED
  BY <1>2, <1>3

(* What the caller of the first request is told is what it expects, if     *)
(* nothing came between: v is the answer.                                  *)
ServedRight(v) ==
  /\ req.arg # NoRef => /\ req.seen = gen
                        /\ refs[req.arg].gen = refs[req.arg].origin
  /\ req.exe # NoRef => refs[req.exe].origin = gen
  => v = Intended(req.from)

(* What the worker works on is then what the program expects there.        *)
LEMMA ServedAsIntended ==
  ASSUME TInv, SInv, up, inbox # <<>>, ~Missing
  PROVE  /\ req.cmd \in UsesTensor /\ req.seen = gen
              /\ refs[req.arg].gen = refs[req.arg].origin
              => Input = refs[req.arg].val
         /\ req.cmd \in UsesExecutable /\ refs[req.exe].origin = gen =>
              Content("executable", req.exe) = refs[req.exe].val
<1>1. Sorted(req) /\ RequestSeen(req)
  BY FirstRequest, FirstRequestCarries
<1>2. \A r \in RefId : refs[r].state # "free" /\ refs[r].origin = gen =>
        Content(refs[r].kind, r) \in {refs[r].val, None}
  BY DEF SInv, CInv, RefsHold, RefHeld
<1> QED
  BY <1>1, <1>2 DEF Sorted, IsMade, Missing, Input, RequestSeen, SeenUse

(* The first caller is answered, or finds nothing; everyone else's answer  *)
(* stays right.                                                            *)
LEMMA AnsweredRight ==
  ASSUME TInv, SInv, inbox # <<>>, UNCHANGED <<gen, refs>>,
         \A c \in Client : c # req.from => call'[c] = call[c],
         req.from \in Client =>
           \/ call'[req.from].at = "idle"
           \/ /\ SameUse(req.from) /\ call'[req.from].seen = call[req.from].seen
              /\ call'[req.from].origin = gen
              /\ ServedRight(call'[req.from].data)
  PROVE  ReadsOwnData'
<1>1. Stable
  BY SameRefsStable
<1> SUFFICES ASSUME NEW c \in Client, call'[c].at = "replied", Undisturbed(c)'
             PROVE  call'[c].data = Intended(c)'
  BY DEF ReadsOwnData
<1>2. CASE c # req.from
  <2>1. call'[c] = call[c] /\ call[c].at = "replied"
    BY <1>2
  <2>2. Undisturbed(c) /\ Intended(c)' = Intended(c)
    BY <1>1, <2>1, DisturbedSame, IntendedSame DEF SameUse
  <2> QED
    BY <2>1, <2>2 DEF SInv, CInv, ReadsOwnData
<1>3. CASE c = req.from
  <2>1. /\ SameUse(c) /\ call'[c].seen = call[c].seen /\ call'[c].origin = gen
        /\ ServedRight(call'[c].data)
    BY <1>3
  <2>2. /\ call[c].arg = req.arg /\ call[c].exe = req.exe /\ call[c].seen = req.seen
        /\ call[c].at = "wait"
    BY <1>3, FirstRequest, FirstRequestCarries
  <2>3. /\ req.arg # NoRef => /\ req.seen = gen
                              /\ refs[req.arg].gen = refs[req.arg].origin
        /\ req.exe # NoRef => refs[req.exe].origin = gen
    BY <2>1, <2>2 DEF Undisturbed, SameUse
  <2>4. call'[c].data = Intended(c)
    BY <1>3, <2>1, <2>3 DEF ServedRight
  <2>5. Intended(c)' = Intended(c)
    BY <1>1, <2>1, <2>2, IntendedSame
  <2> QED
    BY <2>4, <2>5
<1> QED
  BY <1>2, <1>3

(* A new content v goes under a handle nobody holds.                       *)
LEMMA PutSafe ==
  ASSUME TInv, UInv, SInv, NEW cmds, Serving(cmds), NEW k \in Kind, NEW v, Put(k, v),
         req.cmd \in MakingCommand, KindOf(req.cmd) = k,
         req.from \in Client => ServedRight(v)
  PROVE  SInv'
<1>1. /\ inbox # <<>> /\ inbox' = Tail(inbox) /\ up
      /\ UNCHANGED <<gen, up, strayed, refs, queue, cache, reaper>>
      /\ nextId[k] \in 1 .. MaxId /\ nextId[k] \in Nat
      /\ table' = [table EXCEPT ![k][nextId[k]] = v]
  BY DEF Serving, Put, AllocateId, TInv, TypeOK
<1>2. \A c \in Client : c # req.from => call'[c] = call[c]
  BY DEF Put, TInv, TypeOK
<1>3. req.from \in Client =>
        /\ call[req.from].at = "wait" /\ call[req.from].cmd = req.cmd
        /\ call'[req.from].at = "replied"
        /\ call'[req.from].id = nextId[k] /\ call'[req.from].origin = gen
        /\ call'[req.from].data = v
        /\ call'[req.from].seen = call[req.from].seen
        /\ SameUse(req.from)
  BY <1>1, FirstRequest, SMTT(30) DEF Put, AllocateId, SameUse, TInv, TypeOK, Call
<1>4. \A c \in Client : c = req.from => CallSeen(call[c])'
  BY <1>1, <1>3 DEF SInv, FInv, CallsSeen, CallSeen, SeenUse, LiveUse, SameUse
<1>5. /\ table'[k][nextId[k]] = v
      /\ \A j \in Kind, h \in 1 .. MaxId :
           j # k \/ h # nextId[k] => table'[j][h] = table[j][h]
  BY <1>1 DEF TInv, TypeOK
<1>6. RefsHold'
  <2> SUFFICES ASSUME NEW r \in RefId, refs[r].state # "free", refs[r].origin = gen
               PROVE  RefHeld(r)'
    BY <1>1 DEF RefsHold, RefHeld
  <2>1. refs[r].kind \in Kind /\ refs[r].handle \in 1 .. MaxId
    BY DEF TInv, TypeOK, Ref, RefsSorted, RefSorted
  <2>2. refs[r].handle < nextId[refs[r].kind]
    BY <1>1 DEF UInv, RefsBelow
  <2>3. table'[refs[r].kind][refs[r].handle] = table[refs[r].kind][refs[r].handle]
    BY <1>1, <1>5, <2>1, <2>2
  <2>4. RefHeld(r)
    BY DEF SInv, CInv, RefsHold
  <2> QED
    BY <1>1, <2>3, <2>4 DEF RefHeld, Kept, Content
<1>7. RepliesHold'
  <2> SUFFICES ASSUME NEW c \in Client, Holds(c)', call'[c].origin = gen
               PROVE  ReplyHeld(c)'
    BY <1>1 DEF RepliesHold, ReplyHeld
  <2>1. CASE c = req.from
    BY <1>3, <1>5, <2>1 DEF SameUse, Kept, ReplyHeld
  <2>2. CASE c # req.from
    <3>1. /\ call'[c] = call[c] /\ Holds(c)
          /\ Kept(KindOf(call[c].cmd), call[c].id, call[c].data)
      BY <1>1, <1>2, <2>2 DEF Holds, SInv, CInv, RepliesHold, ReplyHeld
    <3>2. /\ KindOf(call[c].cmd) \in Kind /\ call[c].id \in 1 .. MaxId
          /\ call[c].id < nextId[KindOf(call[c].cmd)]
      BY <1>1, <3>1 DEF UInv, CallsBelow, Holds, KindOf, Kind, TInv, CallsSorted, CallSorted, AsCall
    <3>3. table'[KindOf(call[c].cmd)][call[c].id] = table[KindOf(call[c].cmd)][call[c].id]
      BY <1>1, <1>5, <3>2
    <3> QED
      BY <1>1, <3>1, <3>3 DEF Kept, ReplyHeld
  <2> QED
    BY <2>1, <2>2
<1>8. ReadsOwnData'
  BY <1>1, <1>2, <1>3, AnsweredRight
<1>9. InboxSeen' /\ InboxGivenUp' /\ InboxCarries'
  BY <1>1, <1>2, ServingSafe
<1>10. FInv'
  BY <1>1, <1>2, <1>4, <1>9, OthersStay
<1>11. QueueGivenUp' /\ ReaperGivenUp' /\ CallsGivenUp'
  BY <1>1, <1>2, <1>3, OthersGiveUp
<1> QED
  BY <1>6, <1>7, <1>8, <1>9, <1>10, <1>11 DEF SInv, GInv, CInv

(* A request that registers something registers what is expected of it.    *)
LEMMA MakingSafe ==
  ASSUME TInv, UInv, SInv, Upload \/ CompileGraph \/ RunNode \/ Execute
  PROVE  SInv'
<1>1. inbox # <<>> /\ up /\ Sorted(req)
  BY FirstRequest DEF Upload, CompileGraph, RunNode, Execute, Serving
<1>2. req.from \in Client =>
        /\ call[req.from].cmd = req.cmd /\ call[req.from].arg = req.arg
        /\ call[req.from].exe = req.exe /\ call[req.from].val = req.val
  BY <1>1, FirstRequest, FirstRequestCarries
<1>3. CASE Upload
  <2>1. req.cmd = "upload"
    BY <1>3 DEF Upload, Serving
  <2>2. req.from \in Client => ServedRight(req.val)
    BY <1>2, <2>1 DEF Intended, ServedRight
  <2> QED
    BY <1>3, <2>1, <2>2, PutSafe DEF Upload, KindOf, Kind, MakingCommand, TensorMaking
<1>4. CASE CompileGraph
  <2>1. req.cmd = "compile"
    BY <1>4 DEF CompileGraph, Serving
  <2>2. req.from \in Client => ServedRight(req.val)
    BY <1>2, <2>1 DEF Intended, ServedRight
  <2> QED
    BY <1>4, <2>1, <2>2, PutSafe DEF CompileGraph, KindOf, Kind, MakingCommand
<1>5. CASE RunNode
  <2>1. req.cmd = "run_node" /\ ~Missing /\ req.arg # NoRef
    BY <1>1, <1>5 DEF RunNode, Serving, Sorted, UsesTensor
  <2>2. PICK v : v = Meaning[req.val][Input]
    OBVIOUS
  <2>3. Serving({"run_node"}) /\ Put("tensor", v)
    BY <1>5, <2>2 DEF RunNode
  <2>4. req.seen = gen /\ refs[req.arg].gen = refs[req.arg].origin
          => Input = refs[req.arg].val
    BY <1>1, <2>1, ServedAsIntended DEF UsesTensor
  <2>5. req.from \in Client => ServedRight(v)
    BY <1>2, <2>1, <2>2, <2>4 DEF Intended, ServedRight
  <2> QED
    BY <2>1, <2>3, <2>5, PutSafe DEF KindOf, Kind, MakingCommand, TensorMaking
<1>6. CASE Execute
  <2>1. req.cmd = "execute" /\ ~Missing /\ req.arg # NoRef /\ req.exe # NoRef
    BY <1>1, <1>6 DEF Execute, Serving, Sorted, UsesTensor, UsesExecutable
  <2>2. PICK v : v = Meaning[Content("executable", req.exe)][Input]
    OBVIOUS
  <2>3. Serving({"execute"}) /\ Put("tensor", v)
    BY <1>6, <2>2 DEF Execute
  <2>4. /\ req.seen = gen /\ refs[req.arg].gen = refs[req.arg].origin
             => Input = refs[req.arg].val
        /\ refs[req.exe].origin = gen => Content("executable", req.exe) = refs[req.exe].val
    BY <1>1, <2>1, ServedAsIntended DEF UsesTensor, UsesExecutable
  <2>5. req.from \in Client => ServedRight(v)
    BY <1>2, <2>1, <2>2, <2>4 DEF Intended, ServedRight
  <2> QED
    BY <2>1, <2>3, <2>5, PutSafe DEF KindOf, Kind, MakingCommand, TensorMaking
<1> QED
  BY <1>3, <1>4, <1>5, <1>6

(* No content changes; the caller gets nothing, or the bytes v.            *)
LEMMA AnswerSafe ==
  ASSUME TInv, SInv, inbox # <<>>, inbox' = Tail(inbox),
         UNCHANGED <<gen, up, table, strayed, nextId, refs, queue, cache, reaper>>,
         \A c \in Client : c # req.from => call'[c] = call[c],
         req.from \in Client =>
           \/ call'[req.from] = Idle
           \/ /\ call'[req.from].at = "replied" /\ SameUse(req.from)
              /\ call'[req.from].seen = call[req.from].seen
              /\ call'[req.from].origin = gen
              /\ call[req.from].cmd \in Reading
              /\ ServedRight(call'[req.from].data)
  PROVE  SInv'
<1>1. \A c \in Client : c = req.from => CallSeen(call[c])'
  <2>1. req.from \in Client => call[req.from].at = "wait" /\ CallSeen(call[req.from])
    BY FirstRequest DEF SInv, FInv, CallsSeen
  <2> QED
    BY <2>1 DEF CallSeen, SeenUse, LiveUse, SameUse, Idle
<1>2. RefsHold'
  BY DEF SInv, CInv, RefsHold, RefHeld, Kept, Content
<1>3. RepliesHold'
  <2> SUFFICES ASSUME NEW c \in Client, Holds(c)' PROVE ReplyHeld(c)'
    BY DEF RepliesHold, ReplyHeld
  <2>1. c # req.from
    BY DEF Holds, SameUse, MakingCommand, TensorMaking, Reading, Idle
  <2>2. call'[c] = call[c] /\ Holds(c)
    BY <2>1 DEF Holds
  <2> QED
    BY <2>2 DEF SInv, CInv, RepliesHold, ReplyHeld, Holds, Kept
<1>4. ReadsOwnData'
  <2>1. Idle.at = "idle"
    BY DEF Idle
  <2> QED
    BY <2>1, AnsweredRight
<1>5. InboxSeen' /\ InboxGivenUp' /\ InboxCarries'
  BY ServingSafe
<1>6. FInv'
  BY <1>1, <1>5, OthersStay
<1>7. QueueGivenUp' /\ ReaperGivenUp' /\ CallsGivenUp'
  <2>1. Idle.at = "idle"
    BY DEF Idle
  <2> QED
    BY <2>1, OthersGiveUp
<1> QED
  BY <1>2, <1>3, <1>4, <1>5, <1>6, <1>7 DEF SInv, GInv, CInv

(* A request that reads reads what is expected of it.                      *)
LEMMA ReadingSafe ==
  ASSUME TInv, SInv, Download \/ ExecuteHost
  PROVE  SInv'
<1>1. /\ inbox # <<>> /\ inbox' = Tail(inbox) /\ up /\ ~Missing /\ Sorted(req)
      /\ req.cmd \in {"download", "execute_host"}
  BY FirstRequest DEF Download, ExecuteHost, Serving
<1>2. req.from \in Client =>
        /\ call[req.from].cmd = req.cmd /\ call[req.from].arg = req.arg
        /\ call[req.from].exe = req.exe
  BY <1>1, FirstRequest, FirstRequestCarries
<1>3. /\ req.arg # NoRef
      /\ req.seen = gen /\ refs[req.arg].gen = refs[req.arg].origin
           => Input = refs[req.arg].val
  BY <1>1, ServedAsIntended DEF UsesTensor, Reading, Sorted
<1>4. PICK v : ReplyData(v) /\ (req.from \in Client => ServedRight(v))
  <2>1. CASE Download
    <3>1. req.cmd = "download"
      BY <2>1 DEF Download, Serving
    <3> QED
      BY <1>2, <1>3, <2>1, <3>1 DEF Download, Intended, ServedRight
  <2>2. CASE ExecuteHost
    <3>1. req.cmd = "execute_host" /\ req.exe # NoRef
      BY <1>1, <2>2 DEF ExecuteHost, Serving, Sorted, UsesExecutable
    <3>2. refs[req.exe].origin = gen => Content("executable", req.exe) = refs[req.exe].val
      BY <1>1, <3>1, ServedAsIntended DEF UsesExecutable
    <3>3. PICK v : v = Meaning[Content("executable", req.exe)][Input]
      OBVIOUS
    <3>4. ReplyData(Meaning[Content("executable", req.exe)][Input])
      BY <2>2 DEF ExecuteHost
    <3>5. ReplyData(v)
      BY <3>3, <3>4
    <3>6. req.from \in Client => ServedRight(v)
      BY <1>2, <1>3, <3>1, <3>2, <3>3 DEF Intended, ServedRight
    <3> QED
      BY <3>5, <3>6
  <2> QED
    BY <2>1, <2>2
<1>5. \A c \in Client : c # req.from => call'[c] = call[c]
  BY <1>4 DEF ReplyData, TInv, TypeOK
<1>6. req.from \in Client =>
        /\ call'[req.from].at = "replied" /\ SameUse(req.from)
        /\ call[req.from].cmd \in Reading
        /\ call'[req.from].seen = call[req.from].seen
        /\ call'[req.from].origin = gen
        /\ call'[req.from].data = v
  BY <1>1, <1>2, <1>4 DEF ReplyData, SameUse, Reading, TInv, TypeOK, Call
<1> QED
  BY <1>1, <1>4, <1>5, <1>6, AnswerSafe DEF ReplyData, workerVars

(* A refused request changes nothing the program relies on.                *)
LEMMA StaleReferenceSafe ==
  ASSUME TInv, SInv, StaleReference
  PROVE  SInv'
<1>1. /\ inbox # <<>> /\ inbox' = Tail(inbox) /\ Reply(Idle)
      /\ UNCHANGED <<gen, up, table, strayed, nextId, refs, queue, cache, reaper>>
  BY DEF StaleReference, Serving, Reply, workerVars
<1>2. \A c \in Client : call'[c] = IF c = req.from THEN Idle ELSE call[c]
  BY <1>1 DEF Reply, TInv, TypeOK
<1> QED
  BY <1>1, <1>2, AnswerSafe

(* A release that nothing overtook removes what nobody can name any more:  *)
(* the references it names were given up, and nobody else holds their      *)
(* handles.  One that was overtaken goes astray.                           *)
LEMMA ReleaseSafe ==
  ASSUME TInv, UInv, SInv, Release
  PROVE  SInv'
<1> DEFINE k == ReleaseKind(req.cmd)
           gone == {refs[r].handle : r \in req.ids}
           stray == {refs[r].handle : r \in {s \in req.ids : Overtaken(s)}}
<1>1. /\ inbox # <<>> /\ inbox' = Tail(inbox) /\ up /\ Reply(Idle) /\ Idle.at = "idle"
      /\ UNCHANGED <<gen, up, nextId, refs, queue, cache>>
      /\ req.cmd \in Releases
      /\ reaper' = reaper \/ reaper' = NextPhase
  BY DEF Release, Serving, Reply, Idle
<1>2. \A c \in Client : call'[c] = IF c = req.from THEN Idle ELSE call[c]
  BY <1>1 DEF Reply, TInv, TypeOK
<1>3. k \in Kind
      /\ table' = [table EXCEPT ![k] =
           [h \in 1 .. MaxId |-> IF h \in gone THEN None ELSE table[k][h]]]
      /\ strayed' = [strayed EXCEPT ![k] = @ \cup (stray \cap 1 .. MaxId)]
  BY DEF Release, ReleaseKind, Kind
<1>4. \A r \in req.ids :
        /\ r \in RefId /\ GivenUp(r) /\ refs[r].kind = k /\ refs[r].state # "free"
        /\ refs[r].origin = gen \/ refs[r].handle \in stray
  BY <1>1, FirstRequestCarries DEF RequestSeen, Overtaken, GivenUp
<1>5. \A h \in gone : \E r \in req.ids : refs[r].handle = h
  OBVIOUS
<1> HIDE DEF k, gone, stray
<1>6. \A j \in Kind, h \in 1 .. MaxId :
        /\ table'[j][h] = IF j = k /\ h \in gone THEN None ELSE table[j][h]
        /\ h \in strayed[j] \/ (j = k /\ h \in stray) => h \in strayed'[j]
  BY <1>3 DEF TInv, TypeOK
<1>7. RefsHold'
  <2> SUFFICES ASSUME NEW r \in RefId, refs[r].state # "free", refs[r].origin = gen
               PROVE  RefHeld(r)'
    BY <1>1 DEF RefsHold, RefHeld
  <2>1. refs[r].kind \in Kind /\ refs[r].handle \in 1 .. MaxId
    BY DEF TInv, TypeOK, Ref, RefsSorted, RefSorted
  <2>2. RefHeld(r)
    BY DEF SInv, CInv, RefsHold
  <2>3. refs[r].state = "live" /\ refs[r].kind = k /\ refs[r].handle \in gone
          => refs[r].handle \in stray
    BY <1>4, <1>5 DEF UInv, HandlesUnique, Made, GivenUp
  <2> QED
    BY <1>1, <1>6, <2>1, <2>2, <2>3 DEF RefHeld, Content, Kept
<1>8. RepliesHold'
  <2> SUFFICES ASSUME NEW c \in Client, Holds(c)', call'[c].origin = gen
               PROVE  ReplyHeld(c)'
    BY <1>1 DEF RepliesHold, ReplyHeld
  <2>1. c # req.from /\ call'[c] = call[c] /\ Holds(c)
    BY <1>1, <1>2 DEF Holds
  <2>2. ReplyHeld(c)
    BY DEF SInv, CInv, RepliesHold
  <2>3. KindOf(call[c].cmd) \in Kind /\ call[c].id \in 1 .. MaxId
    BY <2>1 DEF Holds, KindOf, Kind, TInv, CallsSorted, CallSorted, AsCall
  <2>4. KindOf(call[c].cmd) = k /\ call[c].id \in gone => call[c].id \in stray
    BY <1>4, <1>5, <2>1 DEF UInv, CallsApartFromRefs, IsMade
  <2> QED
    BY <1>1, <1>6, <2>1, <2>2, <2>3, <2>4 DEF ReplyHeld, Kept
<1>9. ReadsOwnData'
  BY <1>1, <1>2, AnsweredRight
<1>10. InboxSeen' /\ InboxGivenUp' /\ InboxCarries'
  BY <1>1, <1>2, ServingSafe
<1>11. FInv'
  <2>1. \A c \in Client : c = req.from => CallSeen(call[c])'
    BY <1>2 DEF CallSeen, LiveUse, Idle
  <2> QED
    BY <1>1, <1>2, <1>10, <2>1, OthersStay
<1>12. QueueGivenUp' /\ ReaperGivenUp' /\ CallsGivenUp'
  BY <1>1, <1>2, OthersGiveUp
<1> QED
  BY <1>7, <1>8, <1>9, <1>10, <1>11, <1>12 DEF SInv, GInv, CInv

(* The worker dies, whoever is in the middle of whatever.                  *)
LEMMA CrashSafe ==
  ASSUME TInv, SInv, Crash
  PROVE  SInv'
<1>1. /\ UNCHANGED <<gen, refs, queue, cache>> /\ up' = FALSE /\ inbox' = <<>>
      /\ call' = FailAll
      /\ reaper' = reaper \/ reaper' = NextPhase
  BY DEF Crash
<1>2. \A c \in Client :
        /\ call'[c] = Idle \/ call'[c] = call[c]
        /\ call'[c].at = "replied" => call'[c] = call[c]
  BY <1>1 DEF FailAll, Idle, TInv, TypeOK
<1>3. Stable /\ UsedStay
  BY <1>1, SameRefsStable
<1>4. CallsSeen'
  <2> SUFFICES ASSUME NEW c \in Client PROVE CallSeen(call[c])'
    BY DEF CallsSeen
  <2>1. CASE call'[c] = Idle
    BY <2>1 DEF CallSeen, LiveUse, Idle
  <2>2. CASE call'[c] = call[c]
    BY <1>3, <2>2, CallStaysSeen
  <2> QED
    BY <1>2, <2>1, <2>2
<1>5. NoExecutableTaken' /\ CallsGivenUp'
  BY <1>1, <1>2 DEF SInv, FInv, GInv, NoExecutableTaken, CallsGivenUp, GivenUp, Idle
<1>6. InboxSeen' /\ InboxGivenUp' /\ InboxCarries' /\ RefsHold' /\ RepliesHold'
  BY <1>1 DEF InboxSeen, InboxGivenUp, InboxCarries, RefsHold, RefHeld, RepliesHold, ReplyHeld
<1>7. ReaperSeen' /\ ReaperGivenUp' /\ QueueGivenUp'
  <2>1. CASE reaper' = reaper
    BY <1>1, <2>1
    DEF SInv, FInv, GInv, ReaperSeen, ReaperGivenUp, QueueGivenUp, GivenUp
  <2>2. CASE reaper' = NextPhase
    BY <1>1, <2>2, NextPhaseFacts
    DEF SInv, GInv, ReaperSeen, ReaperGivenUp, QueueGivenUp, GivenUp
  <2> QED
    BY <1>1, <2>1, <2>2
<1>8. ReadsOwnData'
  BY <1>2, <1>3, NobodyAnswered
<1> QED
  BY <1>4, <1>5, <1>6, <1>7, <1>8 DEF SInv, FInv, GInv, CInv

(* A new incarnation starts with nothing of its own in use.                *)
LEMMA StartSafe ==
  ASSUME TInv, SInv, Start
  PROVE  SInv'
<1>1. /\ gen' = gen + 1 /\ gen \in Nat
      /\ UNCHANGED <<table, strayed, nextId, inbox, refs, queue, cache, call, reaper>>
  BY BoundAssumption DEF Start, NextGeneration, TInv, TypeOK
<1>2. /\ \A r \in RefId : refs[r].state # "free" => refs[r].origin \in 1 .. gen
      /\ \A c \in Client : Holds(c) => call[c].origin \in 1 .. gen
  BY DEF TInv, RefsSorted, RefSorted, CallsSorted, CallSorted, AsCall, Holds
<1>3. RefsHold' /\ RepliesHold' /\ InboxCarries'
  BY <1>1, <1>2
  DEF SInv, CInv, RefsHold, RefHeld, RepliesHold, ReplyHeld, InboxCarries, Holds
<1>4. FInv'
  BY <1>1
  DEF SInv, FInv, CallsSeen, CallSeen, SeenUse, LiveUse, InboxSeen, RequestSeen, ReaperSeen,
      NoExecutableTaken
<1>5. GInv'
  BY <1>1
  DEF SInv, GInv, QueueGivenUp, ReaperGivenUp, CallsGivenUp, InboxGivenUp, GivenUp
<1>6. ReadsOwnData'
  BY <1>1, SameRefsStable, NobodyAnswered
<1> QED
  BY <1>3, <1>4, <1>5, <1>6 DEF SInv, CInv

(* A step that changes nothing keeps the invariant.                        *)
LEMMA StutterSafe ==
  ASSUME TInv, SInv, UNCHANGED vars
  PROVE  SInv'
<1>1. UNCHANGED <<gen, up, table, strayed, nextId, inbox, refs, queue, cache, call, reaper>>
  BY DEF vars
<1>2. /\ ReaperSeen' /\ QueueGivenUp' /\ ReaperGivenUp'
      /\ InboxSeen' /\ InboxGivenUp' /\ InboxCarries'
  BY <1>1
  DEF SInv, FInv, GInv, CInv, ReaperSeen, QueueGivenUp, ReaperGivenUp, InboxSeen,
      RequestSeen, SeenUse, InboxGivenUp, GivenUp, InboxCarries
<1> QED
  BY <1>1, <1>2, CallsAndRefsStay DEF SInv, FInv, GInv, CInv

(* The invariant holds at the start.                                       *)
LEMMA InitSafe == Init => SInv
  BY DEF Init, SInv, FInv, GInv, CInv, CallsSeen, CallSeen, LiveUse, InboxSeen, ReaperSeen,
         NoExecutableTaken, QueueGivenUp, ReaperGivenUp, CallsGivenUp, InboxGivenUp,
         InboxCarries, RefsHold, RefHeld, RepliesHold, ReplyHeld, ReadsOwnData, Holds,
         FreeRef, Idle, ReaperIdle

(* Every step keeps the invariant.                                         *)
LEMMA NextSafe == TInv /\ UInv /\ SInv /\ [Next]_vars => SInv'
<1> SUFFICES ASSUME TInv, UInv, SInv, [Next]_vars PROVE SInv'
  OBVIOUS
<1>1. ASSUME NEW c \in Client, ClientStart(c) PROVE SInv'
  BY <1>1, FromBinarySafe, EnsureCompiledSafe, ToBinarySafe, DeallocateSafe, EagerSafe,
     RunOneSafe
  DEF ClientStart, UsesExecutable
<1>2. ASSUME NEW c \in Client, ClientContinue(c) PROVE SInv'
  BY <1>2, SendSafe, BackToIdleSafe, WrapSafe DEF ClientContinue
<1>3. ASSUME NEW c \in Client, Timeout(c) PROVE SInv'
  BY <1>3, TimeoutSafe
<1>4. ASSUME NEW r \in RefId, Drop(r) PROVE SInv'
  BY <1>4, DropSafe
<1>5. CASE Reap \/ ReaperTimeout
  BY <1>5, ReaperSafe, ReaperSendSafe DEF Reap
<1>6. CASE Serve
  BY <1>6, MakingSafe, ReadingSafe, StaleReferenceSafe, ReleaseSafe DEF Serve
<1>7. CASE Crash
  BY <1>7, CrashSafe
<1>8. CASE Start
  BY <1>8, StartSafe
<1>9. CASE Quiescent \/ UNCHANGED vars
  BY <1>9, StutterSafe DEF Quiescent
<1> QED
  BY <1>1, <1>2, <1>3, <1>4, <1>5, <1>6, <1>7, <1>8, <1>9 DEF Next

(* The three invariants hold together, always: UInv keeps a new content    *)
(* from landing under a handle in use, TInv keeps requests and callers paired. *)
THEOREM SafeAlways == Spec => [](TInv /\ UInv /\ SInv)
<1>1. Init => TInv /\ UInv /\ SInv
  BY InitSorted, InitUnique, InitSafe
<1>2. TInv /\ UInv /\ SInv /\ [Next]_vars => (TInv /\ UInv /\ SInv)'
  BY NextTyped, NextUnique, NextSafe
<1> QED
  BY <1>1, <1>2, PTL DEF Spec

-----------------------------------------------------------------------------
(* What that means for the program, restarts falling anywhere.             *)

(* What comes back, as bytes or behind a new handle, is what was asked     *)
(* for, unless a restart came between the check and the service, or        *)
(* between a reference and its label.                                      *)
THEOREM EveryReadIsRight == Spec => []ReadsOwnData
<1>1. TInv /\ UInv /\ SInv => ReadsOwnData
  BY DEF SInv, CInv
<1> QED
  BY <1>1, SafeAlways, PTL

(* What the program can still use stays in the worker, untouched by        *)
(* evictions, reuse of numbers and every release but an overtaken one.     *)
THEOREM LiveIsResident == Spec => []ResidentWhileLive
<1>1. TInv /\ UInv /\ SInv => ResidentWhileLive
  <2> SUFFICES ASSUME TInv, SInv, NEW r \in Made, up, refs[r].origin = gen,
                      refs[r].state = "live" \/ InUse(r)
               PROVE  \/ Content(refs[r].kind, r) = refs[r].val
                      \/ refs[r].handle \in strayed[refs[r].kind]
    BY DEF ResidentWhileLive
  <2>1. r \in RefId /\ refs[r].state # "free"
    BY DEF Made
  <2>2. refs[r].state = "live"
    BY <2>1, DistinctAssumption DEF InUse, SInv, FInv, CallsSeen, CallSeen, LiveUse
  <2>3. RefHeld(r)
    BY <2>1 DEF SInv, CInv, RefsHold
  <2> QED
    BY <2>1, <2>2, <2>3 DEF RefHeld, Kept, Content
<1> QED
  BY <1>1, SafeAlways, PTL

-----------------------------------------------------------------------------
(* The releases: a reference is released at most once, whatever restarts,  *)
(* times out or is collected, and whatever the worker keeps has an owner   *)
(* or was orphaned by one of two accidents.                                *)

(* Who holds the release of a reference: a message, a client that claimed  *)
(* the reference (take/1) and has not sent its request yet, the native     *)
(* queue, or the reaper.                                                   *)
Gives(c) == call[c].at = "checked" /\ call[c].cmd = "release"

QueueApart == \A r \in queue : GivenUp(r) /\ r \notin reaper.entries
EntriesApart == \A r \in reaper.entries : GivenUp(r)
SentApart ==
  \A i \in DOMAIN inbox : \A r \in inbox[i].ids :
    /\ GivenUp(r)
    /\ r \notin queue
    /\ r \notin reaper.entries
    /\ \A j \in DOMAIN inbox : r \in inbox[j].ids => j = i
TakenApart ==
  \A c \in Client : Gives(c) =>
    /\ GivenUp(call[c].arg)
    /\ call[c].arg \notin queue
    /\ call[c].arg \notin reaper.entries
    /\ \A i \in DOMAIN inbox : call[c].arg \notin inbox[i].ids
    /\ \A d \in Client : Gives(d) /\ call[d].arg = call[c].arg => d = c
ReaperApart == reaper.at = "send" => reaper.ids \subseteq reaper.entries

OInv == QueueApart /\ EntriesApart /\ SentApart /\ TakenApart /\ ReaperApart

-----------------------------------------------------------------------------
(* Steps that start no release.                                            *)

(* No request releases more than the one k places further on did.          *)
SameIds(k) ==
  \A i \in DOMAIN inbox' :
    /\ i \in Nat
    /\ \/ inbox'[i].ids = {}
       \/ i + k \in DOMAIN inbox /\ inbox'[i].ids = inbox[i + k].ids

NoMoreGiven ==
  \A c \in Client : Gives(c)' => Gives(c) /\ call'[c].arg = call[c].arg

(* What releases name is a reference.                                      *)
LEMMA ReleasedAreRefs ==
  ASSUME TInv
  PROVE  /\ inbox \in Seq(Message)
         /\ queue \in SUBSET RefId
         /\ reaper.entries \in SUBSET RefId /\ reaper.ids \in SUBSET RefId
         /\ \A i \in DOMAIN inbox : inbox[i].ids \in SUBSET RefId
         /\ \A c \in Client : Gives(c) => call[c].arg \in RefId
<1>1. inbox \in Seq(Message)
  BY DEF TInv, TypeOK
<1>2. \A i \in DOMAIN inbox : inbox[i] \in Message
  BY <1>1
<1>3. \A c \in Client : Gives(c) => call[c].arg \in RefId
  BY DEF TInv, CallsSorted, CallSorted, Gives, Sorted, AsCall, IsMade
<1> QED
  BY <1>1, <1>2, <1>3 DEF TInv, TypeOK, Message

(* An inbox that stays, is emptied, loses its first request, or gains one  *)
(* that releases nothing.                                                  *)
LEMMA InboxShapes ==
  ASSUME TInv
  PROVE  /\ UNCHANGED inbox => SameIds(0)
         /\ inbox' = <<>> => SameIds(0)
         /\ inbox # <<>> /\ inbox' = Tail(inbox) => SameIds(1)
         /\ \A m \in Message : m.ids = {} /\ inbox' = Append(inbox, m) => SameIds(0)
         /\ \A from : refs' = refs /\ Orphan(from) => SameIds(0)
<1> inbox \in Seq(Message)
  BY ReleasedAreRefs
<1>0. \A i \in DOMAIN inbox : i \in Nat /\ i + 0 = i
  OBVIOUS
<1>1. UNCHANGED inbox => SameIds(0)
  BY <1>0 DEF SameIds
<1>2. inbox' = <<>> => SameIds(0)
  BY DEF SameIds
<1>3. inbox # <<>> /\ inbox' = Tail(inbox) => SameIds(1)
  BY TailFacts DEF SameIds
<1>4. ASSUME NEW m \in Message, m.ids = {}, inbox' = Append(inbox, m)
      PROVE  SameIds(0)
  <2>1. \A i \in DOMAIN inbox' : i \in Nat
    BY <1>4
  <2> QED
    BY <1>0, <1>4, <2>1, AppendFacts DEF SameIds
<1>5. ASSUME NEW from, refs' = refs, Orphan(from)
      PROVE  SameIds(0)
  BY <1>0, <1>5, RequestOrphaned DEF SameIds
<1> QED
  BY <1>1, <1>2, <1>3, <1>4, <1>5

(* A step that starts no release, and gives back nothing that was given    *)
(* up, keeps them apart.                                                   *)
LEMMA FewerReleases ==
  ASSUME TInv, OInv, NEW k \in {0, 1}, SameIds(k), NoMoreGiven,
         \A r \in RefId : GivenUp(r) => GivenUp(r)',
         queue' \subseteq queue, reaper'.entries \subseteq reaper.entries,
         reaper'.at = "send" => reaper'.ids \subseteq reaper'.entries
  PROVE  OInv'
<1>1. QueueApart' /\ EntriesApart' /\ ReaperApart'
  BY ReleasedAreRefs DEF OInv, QueueApart, EntriesApart, ReaperApart
<1>2. SentApart'
  <2> SUFFICES ASSUME NEW i \in DOMAIN inbox', NEW r \in inbox'[i].ids
               PROVE  /\ GivenUp(r)'
                      /\ r \notin queue'
                      /\ r \notin reaper'.entries
                      /\ \A j \in DOMAIN inbox' : r \in inbox'[j].ids => j = i
    BY DEF SentApart
  <2>1. i \in Nat /\ i + k \in DOMAIN inbox /\ r \in inbox[i + k].ids
    BY DEF SameIds
  <2>2. r \in RefId /\ GivenUp(r) /\ r \notin queue /\ r \notin reaper.entries
    BY <2>1, ReleasedAreRefs DEF OInv, SentApart
  <2>3. ASSUME NEW j \in DOMAIN inbox', r \in inbox'[j].ids
        PROVE  j = i
    <3>1. j \in Nat /\ j + k \in DOMAIN inbox /\ r \in inbox[j + k].ids
      BY <2>3 DEF SameIds
    <3>2. j + k = i + k
      BY <2>1, <3>1 DEF OInv, SentApart
    <3> QED
      BY <2>1, <3>1, <3>2
  <2> QED
    BY <2>2, <2>3
<1>3. TakenApart'
  <2> SUFFICES ASSUME NEW c \in Client, Gives(c)'
               PROVE  /\ GivenUp(call[c].arg)'
                      /\ call'[c].arg \notin queue'
                      /\ call'[c].arg \notin reaper'.entries
                      /\ \A i \in DOMAIN inbox' : call'[c].arg \notin inbox'[i].ids
                      /\ \A d \in Client : Gives(d)' /\ call'[d].arg = call'[c].arg => d = c
    BY DEF TakenApart
  <2>1. PICK r \in RefId : r = call[c].arg /\ r = call'[c].arg
    BY ReleasedAreRefs DEF NoMoreGiven
  <2>2. /\ Gives(c) /\ GivenUp(r) /\ r \notin queue /\ r \notin reaper.entries
        /\ \A i \in DOMAIN inbox : r \notin inbox[i].ids
        /\ \A d \in Client : Gives(d) /\ call[d].arg = r => d = c
    BY <2>1 DEF NoMoreGiven, OInv, TakenApart
  <2>3. GivenUp(r)'
    BY <2>2
  <2>4. GivenUp(call[c].arg)'
    BY <2>1, <2>3 DEF GivenUp
  <2>5. \A i \in DOMAIN inbox' : r \notin inbox'[i].ids
    BY <2>2 DEF SameIds
  <2> QED
    BY <2>1, <2>2, <2>4, <2>5 DEF NoMoreGiven
<1> QED
  BY <1>1, <1>2, <1>3 DEF OInv

(* The same when neither the queue, the reaper nor what is given up moves. *)
LEMMA NothingReleased ==
  ASSUME TInv, OInv, NEW k \in {0, 1}, SameIds(k), NoMoreGiven,
         UNCHANGED <<refs, queue, reaper>>
  PROVE  OInv'
  BY FewerReleases DEF GivenUp, OInv, ReaperApart

-----------------------------------------------------------------------------
(* A reference is released once.                                           *)

(* A client moves on to something that is not a release to be sent.        *)
LEMMA CallMoves ==
  ASSUME TInv, NEW c \in Client, NEW rec, call' = [call EXCEPT ![c] = rec],
         rec.at # "checked" \/ rec.cmd # "release"
  PROVE  NoMoreGiven
  BY DEF TInv, TypeOK, NoMoreGiven, Gives

(* Starting an operation other than a deallocation releases nothing.       *)
LEMMA StartReleases ==
  ASSUME TInv, OInv, NEW c \in Client,
         \/ \E d \in Data : FromBinary(c, d)
         \/ \E g \in Graph : EnsureCompiled(c, g)
         \/ \E r \in RefId : ToBinary(c, r)
         \/ \E g \in Graph, r \in RefId : Eager(c, g, r)
         \/ \E e, r \in RefId, cmd \in UsesExecutable : RunOne(c, e, r, cmd)
  PROVE  OInv'
<1>1. ASSUME NEW d \in Data, FromBinary(c, d) PROVE OInv'
  <2> DEFINE m == [from |-> c, cmd |-> "upload", arg |-> NoRef,
                   exe |-> NoRef, val |-> d, ids |-> {}, seen |-> gen]
  <2>1. m \in Message /\ m.ids = {}
    BY DEF Message, Command, Value, TensorMaking, TInv, TypeOK
  <2>2. inbox' = Append(inbox, m)
    BY <1>1 DEF FromBinary
  <2>3. NoMoreGiven
    <3>1. [Idle EXCEPT !.at = "wait", !.cmd = "upload", !.val = d, !.seen = gen].at # "checked"
      BY DEF Idle
    <3> QED
      BY <1>1, <3>1, CallMoves DEF FromBinary, Begin
  <2>4. SameIds(0)
    BY <2>1, <2>2, InboxShapes
  <2> QED
    BY <1>1, <2>3, <2>4, NothingReleased DEF FromBinary
<1>2. ASSUME NEW g \in Graph, EnsureCompiled(c, g) PROVE OInv'
  <2>1. [Idle EXCEPT !.at = "checked", !.cmd = "compile",
                     !.val = g, !.seen = gen].cmd # "release"
    BY DEF Idle
  <2> QED
    BY <1>2, <2>1, CallMoves, InboxShapes, NothingReleased DEF EnsureCompiled, Begin
<1>3. ASSUME NEW r \in RefId, ToBinary(c, r) PROVE OInv'
  <2>1. [Idle EXCEPT !.at = "checked", !.cmd = "download",
                     !.arg = r, !.seen = gen].cmd # "release"
    BY DEF Idle
  <2> QED
    BY <1>3, <2>1, CallMoves, InboxShapes, NothingReleased DEF ToBinary, Begin
<1>4. ASSUME NEW g \in Graph, NEW r \in RefId, Eager(c, g, r) PROVE OInv'
  <2>1. [Idle EXCEPT !.at = "checked", !.cmd = "run_node",
                     !.val = g, !.arg = r, !.seen = gen].cmd # "release"
    BY DEF Idle
  <2> QED
    BY <1>4, <2>1, CallMoves, InboxShapes, NothingReleased DEF Eager, Begin
<1>5. ASSUME NEW e \in RefId, NEW r \in RefId, NEW cmd \in UsesExecutable,
             RunOne(c, e, r, cmd)
      PROVE  OInv'
  <2>1. [Idle EXCEPT !.at = "checked", !.cmd = cmd,
                     !.arg = r, !.exe = e, !.seen = gen].cmd # "release"
    BY DEF Idle, UsesExecutable
  <2> QED
    BY <1>5, <2>1, CallMoves, InboxShapes, NothingReleased DEF RunOne, Begin
<1> QED
  BY <1>1, <1>2, <1>3, <1>4, <1>5

(* take/1: the reference was live, so nothing releases it yet.             *)
LEMMA DeallocateReleases ==
  ASSUME TInv, OInv, NEW c \in Client, NEW r \in RefId, Deallocate(c, r)
  PROVE  OInv'
<1>1. /\ refs[r].state = "live"
      /\ refs'[r].state = "taken"
      /\ \A s \in RefId : s # r => refs'[s] = refs[s]
  BY DEF Deallocate, Unclaimed, TInv, TypeOK, Ref
<1>2. ~GivenUp(r)
  BY <1>1 DEF GivenUp
<1>3. \A s \in RefId : (GivenUp(s) => GivenUp(s)') /\ (s = r => GivenUp(s)')
  BY <1>1 DEF GivenUp
<1>4. UNCHANGED <<inbox, queue, reaper>> /\ SameIds(0)
  BY InboxShapes DEF Deallocate
<1>5. CASE CheckFresh(r)
  <2> DEFINE rec == [Idle EXCEPT !.at = "checked", !.cmd = "release", !.arg = r,
                               !.seen = gen]
  <2>1. rec.at = "checked" /\ rec.cmd = "release" /\ rec.arg = r
    BY DEF Idle
  <2>2. call[c].at = "idle" /\ call'[c] = rec /\ \A d \in Client : d # c => call'[d] = call[d]
    BY <1>5 DEF Deallocate, Begin, TInv, TypeOK
  <2>3. QueueApart' /\ EntriesApart' /\ ReaperApart' /\ SentApart'
    <3>1. QueueApart' /\ EntriesApart' /\ ReaperApart'
      BY <1>3, <1>4, ReleasedAreRefs DEF OInv, QueueApart, EntriesApart, ReaperApart
    <3>2. SentApart'
      BY <1>3, <1>4, ReleasedAreRefs DEF OInv, SentApart
    <3> QED
      BY <3>1, <3>2
  <2>4. TakenApart'
    <3>1. /\ r \notin queue /\ r \notin reaper.entries
          /\ \A i \in DOMAIN inbox : r \notin inbox[i].ids
          /\ \A d \in Client : Gives(d) => call[d].arg # r
      BY <1>2 DEF OInv, QueueApart, EntriesApart, SentApart, TakenApart
    <3>2. \A d \in Client : IF d = c THEN Gives(d)' /\ call'[d].arg = r
                                     ELSE (Gives(d)' <=> Gives(d)) /\ call'[d].arg = call[d].arg
      BY <2>1, <2>2 DEF Gives
    <3>3. \A d \in Client : Gives(d)' => GivenUp(call[d].arg)'
      <4> SUFFICES ASSUME NEW d \in Client, Gives(d)'
                   PROVE  GivenUp(call[d].arg)'
        OBVIOUS
      <4>1. PICK s \in RefId : s = call'[d].arg /\ GivenUp(s)'
        BY <1>3, <3>2, ReleasedAreRefs DEF OInv, TakenApart
      <4> QED
        BY <4>1 DEF GivenUp
    <3>4. \A d \in Client : d # c /\ Gives(d) =>
            /\ call[d].arg \notin queue
            /\ call[d].arg \notin reaper.entries
            /\ \A i \in DOMAIN inbox : call[d].arg \notin inbox[i].ids
            /\ \A e \in Client : Gives(e) /\ call[e].arg = call[d].arg => e = d
      BY DEF OInv, TakenApart
    <3> QED
      BY <1>4, <3>1, <3>2, <3>3, <3>4 DEF TakenApart
  <2> QED
    BY <2>3, <2>4 DEF OInv
<1>6. CASE ~CheckFresh(r)
  <2>1. NoMoreGiven
    <3>1. call' = [call EXCEPT ![c] = Idle]
      BY <1>6 DEF Deallocate, Begin
    <3> QED
      BY <3>1, CallMoves DEF Idle
  <2> QED
    BY <1>3, <1>4, <2>1, FewerReleases DEF OInv, ReaperApart
<1> QED
  BY <1>5, <1>6

(* A deallocation's request takes the release over from its client; other  *)
(* requests release nothing.                                               *)
LEMMA SendReleases ==
  ASSUME TInv, OInv, NEW c \in Client, Send(c)
  PROVE  OInv'
<1> DEFINE m == [from |-> c, cmd |-> call[c].cmd, arg |-> call[c].arg,
                 exe |-> call[c].exe, val |-> call[c].val,
                 ids |-> IF call[c].cmd = "release" THEN {call[c].arg} ELSE {},
                 seen |-> call[c].seen]
<1>1. /\ call[c] \in Call /\ call[c].at = "checked" /\ call[c].cmd # "none"
      /\ call'[c].at = "wait"
      /\ \A d \in Client : d # c => call'[d] = call[d]
  BY DEF Send, TInv, TypeOK, CallsSorted, CallSorted, Sorted, Call
<1>2. \A d \in Client : Gives(d)' <=> d # c /\ Gives(d)
  BY <1>1 DEF Gives
<1>3. m \in Message
  <2>1. m.ids \in SUBSET RefId
    BY <1>1, ReleasedAreRefs DEF Gives
  <2> QED
    BY <1>1, <2>1 DEF Call, Message
<1>4. inbox' = Append(inbox, m) /\ UNCHANGED <<refs, queue, reaper>>
  BY DEF Send
<1>5. CASE call[c].cmd # "release"
  <2>1. SameIds(0)
    BY <1>3, <1>4, <1>5, InboxShapes
  <2>2. NoMoreGiven
    BY <1>1, <1>2 DEF NoMoreGiven
  <2> QED
    BY <1>4, <2>1, <2>2, NothingReleased
<1>6. CASE call[c].cmd = "release"
  <2>1. PICK r \in RefId : r = call[c].arg
    BY <1>1, <1>6, ReleasedAreRefs DEF Gives
  <2>2. /\ GivenUp(r) /\ r \notin queue /\ r \notin reaper.entries
        /\ \A i \in DOMAIN inbox : r \notin inbox[i].ids
        /\ \A d \in Client : Gives(d) /\ call[d].arg = r => d = c
    BY <1>1, <1>6, <2>1 DEF OInv, TakenApart, Gives
  <2>3. m.ids = {r}
    BY <1>6, <2>1
  <2>4. \A i \in DOMAIN inbox' :
          \/ i \in DOMAIN inbox /\ inbox'[i] = inbox[i]
          \/ i = Len(inbox) + 1 /\ i \notin DOMAIN inbox /\ inbox'[i] = m
    BY <1>3, <1>4, ReleasedAreRefs, AppendFacts
  <2> HIDE DEF m
  <2>5. QueueApart' /\ EntriesApart' /\ ReaperApart'
    BY <1>4 DEF OInv, QueueApart, EntriesApart, ReaperApart, GivenUp
  <2>6. SentApart'
    <3>1. \A i \in DOMAIN inbox' : \A s \in inbox'[i].ids :
            GivenUp(s) /\ s \notin queue /\ s \notin reaper.entries
      BY <2>2, <2>3, <2>4 DEF OInv, SentApart
    <3>2. \A i, j \in DOMAIN inbox' : \A s \in inbox'[i].ids : s \in inbox'[j].ids => j = i
      BY <2>2, <2>3, <2>4 DEF OInv, SentApart
    <3> QED
      BY <1>4, <3>1, <3>2 DEF SentApart, GivenUp
  <2>7. TakenApart'
    <3>1. \A d \in Client : d # c => call'[d].arg = call[d].arg
      BY <1>1
    <3>2. \A d \in Client : d # c /\ Gives(d) =>
            /\ GivenUp(call[d].arg)
            /\ call[d].arg # r
            /\ call[d].arg \notin queue
            /\ call[d].arg \notin reaper.entries
            /\ \A i \in DOMAIN inbox : call[d].arg \notin inbox[i].ids
            /\ \A e \in Client : Gives(e) /\ call[e].arg = call[d].arg => e = d
      BY <2>2 DEF OInv, TakenApart
    <3>3. \A d \in Client : d # c /\ Gives(d) =>
            \A i \in DOMAIN inbox' : call[d].arg \notin inbox'[i].ids
      BY <2>3, <2>4, <3>2
    <3>4. \A d \in Client : d # c /\ Gives(d) => GivenUp(call[d].arg)'
      BY <1>1, <1>4, <3>2 DEF GivenUp
    <3> QED
      BY <1>2, <1>4, <3>1, <3>2, <3>3, <3>4 DEF TakenApart
  <2> QED
    BY <2>5, <2>6, <2>7 DEF OInv
<1> QED
  BY <1>5, <1>6

(* Wrapping a reply or a compiled graph, returning and exiting release     *)
(* nothing.                                                                *)
LEMMA EndReleases ==
  ASSUME TInv, OInv, NEW c \in Client,
         \/ \E r \in RefId : Build(c, r) \/ CompileEntry(c, r)
         \/ SendExits(c) \/ BuildExits(c) \/ Return(c) \/ Timeout(c)
  PROVE  OInv'
<1>1. NoMoreGiven
  <2>1. call' = [call EXCEPT ![c] = Idle]
    BY DEF Build, CompileEntry, SendExits, BuildExits, Return, Timeout
  <2> QED
    BY <2>1, CallMoves DEF Idle
<1>2. UNCHANGED <<queue, reaper>>
  BY DEF Build, CompileEntry, SendExits, BuildExits, Return, Timeout
<1>3. SameIds(0)
  <2>1. CASE Timeout(c)
    BY <2>1, InboxShapes DEF Timeout
  <2>2. CASE ~Timeout(c)
    <3>1. UNCHANGED inbox
      BY <2>2 DEF Build, CompileEntry, SendExits, BuildExits, Return
    <3> QED
      BY <3>1, InboxShapes
  <2> QED
    BY <2>1, <2>2
<1>4. \A s \in RefId : GivenUp(s) => GivenUp(s)'
  <2>1. CASE UNCHANGED refs
    BY <2>1 DEF GivenUp
  <2>2. ASSUME NEW r \in RefId, Build(c, r) \/ CompileEntry(c, r)
        PROVE  \A s \in RefId : GivenUp(s) => GivenUp(s)'
    BY <2>2 DEF Build, CompileEntry, Free, GivenUp, TInv, TypeOK
  <2> QED
    BY <2>1, <2>2 DEF SendExits, BuildExits, Return, Timeout
<1> QED
  BY <1>1, <1>2, <1>3, <1>4, FewerReleases DEF OInv, ReaperApart

(* Drop: the reference was live, so nothing releases it yet.               *)
LEMMA DropReleases ==
  ASSUME TInv, OInv, NEW r \in RefId, Drop(r)
  PROVE  OInv'
<1>1. /\ refs[r].state = "live"
      /\ refs'[r].state = "dropped"
      /\ \A s \in RefId : s # r => refs'[s] = refs[s]
  BY DEF Drop, Unclaimed, TInv, TypeOK, Ref
<1>2. ~GivenUp(r)
  BY <1>1 DEF GivenUp
<1>3. \A s \in RefId : (GivenUp(s) => GivenUp(s)') /\ (s = r => GivenUp(s)')
  BY <1>1 DEF GivenUp
<1>4. UNCHANGED <<inbox, call, reaper>> /\ queue' = queue \cup {r}
  BY DEF Drop, Push
<1>5. /\ r \notin reaper.entries
      /\ \A i \in DOMAIN inbox : r \notin inbox[i].ids
      /\ \A d \in Client : Gives(d) => call[d].arg # r
  BY <1>2 DEF OInv, EntriesApart, SentApart, TakenApart
<1>6. QueueApart' /\ EntriesApart' /\ ReaperApart'
  BY <1>3, <1>4, <1>5, ReleasedAreRefs DEF OInv, QueueApart, EntriesApart, ReaperApart
<1>7. SentApart'
  BY <1>3, <1>4, <1>5, ReleasedAreRefs DEF OInv, SentApart
<1>8. TakenApart'
  <2>1. \A d \in Client : Gives(d) => GivenUp(call[d].arg) /\ call[d].arg \in RefId
    BY ReleasedAreRefs DEF OInv, TakenApart
  <2>2. \A d \in Client : Gives(d) => GivenUp(call[d].arg)'
    BY <1>3, <1>4, <2>1 DEF GivenUp
  <2> QED
    BY <1>4, <1>5, <2>2 DEF OInv, TakenApart, Gives
<1> QED
  BY <1>6, <1>7, <1>8 DEF OInv

(* drain/0 takes over whatever the native queues held.                     *)
LEMMA DrainReleases ==
  ASSUME TInv, OInv, Drain
  PROVE  OInv'
<1>1. /\ UNCHANGED <<inbox, refs, call>>
      /\ queue' = {} /\ reaper'.entries = queue /\ reaper'.at # "send"
  BY DEF Drain, ReaperIdle
<1> QED
  BY <1>1
  DEF OInv, QueueApart, EntriesApart, SentApart, TakenApart, ReaperApart, GivenUp, Gives

(* What release_group/2 sends is no longer among its entries.              *)
LEMMA ReaperSendReleases ==
  ASSUME TInv, OInv, ReaperSend
  PROVE  OInv'
<1> DEFINE m == [from |-> Reaper, arg |-> NoRef, exe |-> NoRef, val |-> None,
                 cmd |-> IF reaper.phase = "tensor" THEN "release"
                                                    ELSE "release_executable",
                 ids |-> reaper.ids, seen |-> reaper.seen]
<1>1. m \in Message /\ m.ids = reaper.ids
  BY ReleasedAreRefs DEF Message, Command, Value, Releases, TInv, TypeOK
<1>2. /\ UNCHANGED <<refs, queue, call>> /\ inbox' = Append(inbox, m)
      /\ reaper.at = "send" /\ reaper'.at = "wait"
      /\ reaper'.entries = reaper.entries \ reaper.ids
  BY DEF ReaperSend, TInv, TypeOK
<1>3. \A i \in DOMAIN inbox' :
        \/ i \in DOMAIN inbox /\ inbox'[i] = inbox[i]
        \/ i = Len(inbox) + 1 /\ i \notin DOMAIN inbox /\ inbox'[i] = m
  BY <1>1, <1>2, ReleasedAreRefs, AppendFacts
<1> HIDE DEF m
<1>4. \A r \in reaper.ids :
        /\ r \in reaper.entries /\ GivenUp(r) /\ r \notin queue
        /\ \A i \in DOMAIN inbox : r \notin inbox[i].ids
        /\ \A d \in Client : Gives(d) => call[d].arg # r
  BY <1>2 DEF OInv, ReaperApart, EntriesApart, QueueApart, SentApart, TakenApart
<1>5. QueueApart' /\ EntriesApart' /\ ReaperApart'
  BY <1>2 DEF OInv, QueueApart, EntriesApart, ReaperApart, GivenUp
<1>6. SentApart'
  <2>1. \A i \in DOMAIN inbox' : \A s \in inbox'[i].ids :
          GivenUp(s) /\ s \notin queue /\ s \notin reaper'.entries
    BY <1>1, <1>2, <1>3, <1>4 DEF OInv, SentApart
  <2>2. \A i, j \in DOMAIN inbox' : \A s \in inbox'[i].ids : s \in inbox'[j].ids => j = i
    BY <1>1, <1>3, <1>4 DEF OInv, SentApart
  <2> QED
    BY <1>2, <2>1, <2>2 DEF SentApart, GivenUp
<1>7. TakenApart'
  <2>1. \A d \in Client : Gives(d) => \A i \in DOMAIN inbox' : call[d].arg \notin inbox'[i].ids
    BY <1>1, <1>3, <1>4 DEF OInv, TakenApart
  <2> QED
    BY <1>2, <2>1 DEF OInv, TakenApart, Gives, GivenUp
<1> QED
  BY <1>5, <1>6, <1>7 DEF OInv

(* The reaper's other steps only forget releases.                          *)
LEMMA ReaperReleases ==
  ASSUME TInv, OInv, ReleaseGroup \/ ReaperExits \/ ReaperTimeout
  PROVE  OInv'
<1>1. UNCHANGED <<refs, queue, call>>
  BY DEF ReleaseGroup, ReaperExits, ReaperTimeout
<1>2. SameIds(0)
  <2>1. CASE ReaperTimeout
    BY <2>1, InboxShapes DEF ReaperTimeout
  <2>2. CASE ReleaseGroup \/ ReaperExits
    BY <2>2, InboxShapes DEF ReleaseGroup, ReaperExits
  <2> QED
    BY <2>1, <2>2
<1>3. /\ reaper'.entries \subseteq reaper.entries
      /\ reaper'.at = "send" => reaper'.ids \subseteq reaper'.entries
  <2>1. CASE ReleaseGroup
    <3>1. CASE up /\ Current # {}
      BY <2>1, <3>1 DEF ReleaseGroup, Current, TInv, TypeOK
    <3>2. CASE ~(up /\ Current # {})
      BY <2>1, <3>2, NextPhaseFacts DEF ReleaseGroup
    <3> QED
      BY <3>1, <3>2
  <2>2. CASE ReaperExits
    BY <2>2 DEF ReaperExits, ReaperIdle
  <2>3. CASE ReaperTimeout
    BY <2>3, NextPhaseFacts DEF ReaperTimeout
  <2> QED
    BY <2>1, <2>2, <2>3
<1>4. NoMoreGiven /\ \A r \in RefId : GivenUp(r) => GivenUp(r)'
  BY <1>1 DEF NoMoreGiven, Gives, GivenUp
<1> QED
  BY <1>1, <1>2, <1>3, <1>4, FewerReleases

(* The worker takes a request off its inbox; a release is done with.       *)
LEMMA ServeReleases ==
  ASSUME TInv, OInv, Serve
  PROVE  OInv'
<1>1. inbox # <<>> /\ inbox' = Tail(inbox) /\ UNCHANGED <<refs, queue>>
  BY DEF Serve, Upload, CompileGraph, RunNode, Execute, Download, ExecuteHost,
         StaleReference, Release, Serving, Put, ReplyData
<1>2. SameIds(1)
  BY <1>1, InboxShapes
<1>3. reaper' = reaper \/ reaper' = NextPhase
  BY DEF Serve, Upload, CompileGraph, RunNode, Execute, Download, ExecuteHost,
         StaleReference, Release, Put, ReplyData
<1>4. NoMoreGiven
  <2>1. \A c \in Client : call'[c] = call[c] \/ call'[c].at \in {"idle", "replied"}
    <3>1. req.from \in Client => call[req.from] \in Call
      BY DEF TInv, TypeOK
    <3>2. CASE Upload \/ CompileGraph \/ RunNode \/ Execute
      BY SMTT(30), <3>1, <3>2 DEF Upload, CompileGraph, RunNode, Execute, Put, TInv, TypeOK, Call
    <3>3. CASE Download \/ ExecuteHost
      BY <3>1, <3>3 DEF Download, ExecuteHost, ReplyData, TInv, TypeOK, Call
    <3>4. CASE StaleReference \/ Release
      BY <3>4 DEF StaleReference, Release, Idle, TInv, TypeOK
    <3> QED
      BY <3>2, <3>3, <3>4 DEF Serve
  <2> QED
    BY <2>1 DEF NoMoreGiven, Gives
<1>5. /\ reaper'.entries \subseteq reaper.entries
      /\ reaper'.at = "send" => reaper'.ids \subseteq reaper'.entries
  BY <1>3, NextPhaseFacts DEF OInv, ReaperApart
<1> QED
  BY <1>1, <1>2, <1>4, <1>5, FewerReleases DEF GivenUp

(* A crash takes the requests with it; a restart brings none back.         *)
LEMMA CrashReleases ==
  ASSUME TInv, OInv, Crash \/ Start \/ Quiescent \/ UNCHANGED vars
  PROVE  OInv'
<1>1. CASE Crash
  <2>1. NoMoreGiven
    BY <1>1 DEF Crash, FailAll, Idle, NoMoreGiven, Gives, TInv, TypeOK
  <2>2. SameIds(0) /\ UNCHANGED <<refs, queue>>
    BY <1>1, InboxShapes DEF Crash
  <2>3. reaper' = reaper \/ reaper' = NextPhase
    BY <1>1 DEF Crash
  <2> QED
    BY <2>1, <2>2, <2>3, NextPhaseFacts, FewerReleases DEF GivenUp, OInv, ReaperApart
<1>2. CASE Start \/ Quiescent \/ UNCHANGED vars
  <2>1. UNCHANGED <<inbox, refs, queue, call, reaper>>
    BY <1>2 DEF Start, Quiescent, vars
  <2> QED
    BY <2>1, InboxShapes, NothingReleased DEF NoMoreGiven, Gives
<1> QED
  BY <1>1, <1>2

(* Nothing is released at the start.                                       *)
LEMMA InitReleases == Init => OInv
  BY DEF Init, OInv, QueueApart, EntriesApart, SentApart, TakenApart, ReaperApart,
         ReaperIdle, Idle, Gives

(* Every step keeps releases apart.                                        *)
LEMMA NextReleases == TInv /\ OInv /\ [Next]_vars => OInv'
<1> SUFFICES ASSUME TInv, OInv, [Next]_vars PROVE OInv'
  OBVIOUS
<1>1. ASSUME NEW c \in Client, ClientStart(c) PROVE OInv'
  BY <1>1, StartReleases, DeallocateReleases DEF ClientStart, UsesExecutable
<1>2. ASSUME NEW c \in Client, ClientContinue(c) \/ Timeout(c) PROVE OInv'
  BY <1>2, SendReleases, EndReleases DEF ClientContinue
<1>3. ASSUME NEW r \in RefId, Drop(r) PROVE OInv'
  BY <1>3, DropReleases
<1>4. CASE Reap \/ ReaperTimeout
  BY <1>4, DrainReleases, ReaperSendReleases, ReaperReleases DEF Reap
<1>5. CASE Serve
  BY <1>5, ServeReleases
<1>6. CASE Crash \/ Start \/ Quiescent \/ UNCHANGED vars
  BY <1>6, CrashReleases
<1> QED
  BY <1>1, <1>2, <1>3, <1>4, <1>5, <1>6 DEF Next

(* Nothing or one thing: as much as a set whose members are equal holds.   *)
LEMMA AtMostOne ==
  ASSUME NEW S, \A x, y \in S : x = y
  PROVE  Cardinality(S) = IF S = {} THEN 0 ELSE 1
<1>1. CASE S = {}
  BY <1>1, FS_EmptySet
<1>2. ASSUME NEW x \in S
      PROVE  Cardinality(S) = 1
  <2>1. S = {x}
    OBVIOUS
  <2> QED
    BY <2>1, FS_Singleton
<1> QED
  BY <1>1, <1>2

(* At most one release of a reference is outstanding, wherever it waits,   *)
(* and none while the program owns the reference: take/1 and Drop claim it *)
(* once, and the reaper hands on what it took.                             *)
THEOREM OneReleaseEach == Spec => []ReleasedOnce
<1>1. Spec => [](TInv /\ OInv)
  BY SortedAlways, InitReleases, NextReleases, PTL DEF Spec
<1>2. ASSUME TInv, OInv
      PROVE  ReleasedOnce
  <2> SUFFICES ASSUME NEW r \in RefId
               PROVE  /\ Cardinality({p \in {"queue"} : r \in queue})
                         + Cardinality({p \in {"reaper"} : r \in reaper.entries})
                         + Cardinality(ReleaseMessages(r)) + Cardinality(Deallocating(r)) <= 1
                      /\ refs[r].state = "live" => ~Releasing(r)
    BY DEF ReleasedOnce
  <2> DEFINE Q == {p \in {"queue"} : r \in queue}
             E == {p \in {"reaper"} : r \in reaper.entries}
             M == ReleaseMessages(r)
             D == Deallocating(r)
  <2>1. /\ \A p \in Q : p = "queue" /\ r \in queue
        /\ \A p \in E : p = "reaper" /\ r \in reaper.entries
        /\ \A i \in M : i \in DOMAIN inbox /\ r \in inbox[i].ids
        /\ \A c \in D : c \in Client /\ Gives(c) /\ call[c].arg = r
    BY DEF ReleaseMessages, Deallocating, Gives
  <2> HIDE DEF Q, E, M, D
  <2>2. /\ \A x, y \in Q : x = y
        /\ \A x, y \in E : x = y
        /\ \A x, y \in M : x = y
        /\ \A x, y \in D : x = y
    BY <1>2, <2>1 DEF OInv, SentApart, TakenApart
  <2>3. /\ Q # {} => E = {} /\ M = {} /\ D = {}
        /\ E # {} => M = {} /\ D = {}
        /\ M # {} => D = {}
    BY <1>2, <2>1 DEF OInv, QueueApart, SentApart, TakenApart
  <2>4. Q # {} \/ E # {} \/ M # {} \/ D # {} => GivenUp(r)
    BY <1>2, <2>1 DEF OInv, QueueApart, EntriesApart, SentApart, TakenApart
  <2>5. Cardinality(Q) + Cardinality(E) + Cardinality(M) + Cardinality(D) <= 1
    <3>1. /\ Cardinality(Q) = IF Q = {} THEN 0 ELSE 1
          /\ Cardinality(E) = IF E = {} THEN 0 ELSE 1
          /\ Cardinality(M) = IF M = {} THEN 0 ELSE 1
          /\ Cardinality(D) = IF D = {} THEN 0 ELSE 1
      BY <2>2, AtMostOne
    <3> QED
      BY <2>3, <3>1
  <2>6. Releasing(r) => Q # {} \/ E # {} \/ M # {} \/ D # {}
    BY DEF Releasing, Q, E, M, D
  <2> QED
    BY <2>4, <2>5, <2>6 DEF Q, E, M, D, GivenUp
<1> QED
  BY <1>1, <1>2, PTL

-----------------------------------------------------------------------------
(* Owners.  What the worker keeps is found again from the reference, the   *)
(* release or the reply that will free it: the invariant has to say that   *)
(* a release reaches the registry its references belong to, and that what  *)
(* the reaper discards belongs to an earlier incarnation.                  *)

(* What a release names is of the kind its command is about.               *)
KindsMatch ==
  /\ reaper.at = "send" => \A r \in reaper.ids : refs[r].kind = reaper.phase
  /\ reaper.phase = "executable" => \A r \in reaper.entries : refs[r].kind = "executable"
  /\ reaper.at = "idle" => reaper.entries = {}
  /\ \A i \in DOMAIN inbox : \A r \in inbox[i].ids :
       inbox[i].cmd \in Releases /\ refs[r].kind = ReleaseKind(inbox[i].cmd)

(* No label is of a generation to come.                                    *)
LabelsPast ==
  /\ \A r \in RefId : refs[r].gen <= gen
  /\ \A c \in Client : call[c].seen <= gen

(* What the reaper keeps back when it has chosen what to release is of     *)
(* the other kind, or stale for good.                                      *)
LeftOver ==
  reaper.at \in {"send", "wait"} =>
    \A r \in reaper.entries :
      r \in reaper.ids \/ refs[r].kind # reaper.phase \/ refs[r].gen # gen

(* The reaper waits for one request, a release, while it waits at all.     *)
Answered ==
  /\ reaper.at = "wait" => reaper.ids = {}
  /\ \A i \in DOMAIN inbox :
       inbox[i].from = Reaper =>
         /\ inbox[i].cmd \in Releases
         /\ reaper.at = "wait"
         /\ \A j \in DOMAIN inbox : inbox[j].from = Reaper => j = i

Keeps(r) == refs[r].state = "live" \/ Releasing(r) \/ refs[r].gen < refs[r].origin
RefOwns(r, k, h) ==
  /\ refs[r].state # "free"
  /\ refs[r].kind = k
  /\ refs[r].origin = gen
  /\ refs[r].handle = h
  /\ Keeps(r)
CallOwns(c, k, h) ==
  /\ Holds(c)
  /\ call[c].origin = gen
  /\ call[c].id = h
  /\ KindOf(call[c].cmd) = k
AllOwned ==
  \A k \in Kind, h \in 1 .. MaxId : table[k][h] # None =>
    /\ up
    /\ \/ \E r \in RefId : RefOwns(r, k, h)
       \/ \E c \in Client : CallOwns(c, k, h)
       \/ h \in lost[k]

LInv == KindsMatch /\ LabelsPast /\ LeftOver /\ Answered /\ AllOwned

(* What was made stays what it is, and what was given up stays given up.   *)
LEMMA RefsStable ==
  ASSUME TInv, [Next]_vars
  PROVE  Stable
<1>1. ASSUME NEW c \in Client, NEW r \in RefId, Deallocate(c, r) PROVE Stable
  BY <1>1 DEF Deallocate, Unclaimed, TInv, TypeOK, Ref, Stable, GivenUp
<1>2. ASSUME NEW c \in Client, NEW r \in RefId, Build(c, r) \/ CompileEntry(c, r)
      PROVE  Stable
  BY <1>2 DEF Build, CompileEntry, Free, TInv, TypeOK, Ref, Stable, GivenUp
<1>3. ASSUME NEW r \in RefId, Drop(r) PROVE Stable
  BY <1>3 DEF Drop, Unclaimed, TInv, TypeOK, Ref, Stable, GivenUp
<1>4. CASE UNCHANGED refs
  BY <1>4 DEF Stable, GivenUp
<1>5. ASSUME NEW c \in Client, ClientStart(c)
      PROVE  UNCHANGED refs \/ \E r \in RefId : Deallocate(c, r)
  BY <1>5 DEF ClientStart, FromBinary, EnsureCompiled, ToBinary, Eager, RunOne
<1>6. ASSUME NEW c \in Client, ClientContinue(c) \/ Timeout(c)
      PROVE  UNCHANGED refs \/ \E r \in RefId : Build(c, r) \/ CompileEntry(c, r)
  BY <1>6 DEF ClientContinue, Send, SendExits, BuildExits, Return, Timeout
<1>7. Reap \/ ReaperTimeout \/ Crash \/ Start \/ Quiescent \/ UNCHANGED vars
        => UNCHANGED refs
  BY DEF Reap, Drain, ReleaseGroup, ReaperSend, ReaperExits, ReaperTimeout, Crash, Start,
         Quiescent, vars
<1>8. Serve => UNCHANGED refs
  BY DEF Serve, Upload, CompileGraph, RunNode, Execute, Download, ExecuteHost,
         StaleReference, Release, Put, ReplyData
<1> QED
  BY <1>1, <1>2, <1>3, <1>4, <1>5, <1>6, <1>7, <1>8 DEF Next

(* What the reaper and the inbox hold stays of its kind and label.         *)
LEMMA ReleasedStay ==
  ASSUME TInv, OInv, Stable
  PROVE  /\ \A r \in reaper.entries : r \in RefId /\ refs'[r].kind = refs[r].kind
                                                  /\ refs'[r].gen = refs[r].gen
         /\ \A i \in DOMAIN inbox : \A r \in inbox[i].ids :
              r \in RefId /\ refs'[r].kind = refs[r].kind
         /\ reaper.at = "send" => reaper.ids \subseteq reaper.entries
<1>1. \A r \in RefId : GivenUp(r) =>
        refs'[r].kind = refs[r].kind /\ refs'[r].gen = refs[r].gen
  BY DEF Stable, GivenUp
<1> QED
  BY <1>1, ReleasedAreRefs DEF OInv, EntriesApart, SentApart, ReaperApart

(* What may become of the inbox in a step.                                 *)
SentByClient(m) ==
  /\ m.from \in Client
  /\ \/ m.ids = {}
     \/ m.cmd = "release" /\ \A r \in m.ids : IsMade("tensor", r)

LEMMA InboxSteps ==
  ASSUME TInv, [Next]_vars
  PROVE  \/ inbox' = inbox
         \/ inbox' = <<>>
         \/ inbox # <<>> /\ inbox' = Tail(inbox) /\ Serve
         \/ \E m \in Message : SentByClient(m) /\ inbox' = Append(inbox, m)
         \/ ReaperSend
         \/ \E c \in Client : Timeout(c)
         \/ ReaperTimeout
<1>1. ASSUME NEW c \in Client, NEW d \in Data, FromBinary(c, d)
      PROVE  \E m \in Message : SentByClient(m) /\ inbox' = Append(inbox, m)
  <2> DEFINE m == [from |-> c, cmd |-> "upload", arg |-> NoRef,
                   exe |-> NoRef, val |-> d, ids |-> {}, seen |-> gen]
  <2>1. m \in Message /\ SentByClient(m)
    BY DEF Message, Command, Value, TensorMaking, SentByClient, TInv, TypeOK
  <2> QED
    BY <1>1, <2>1 DEF FromBinary
<1>2. ASSUME NEW c \in Client, Send(c)
      PROVE  \E m \in Message : SentByClient(m) /\ inbox' = Append(inbox, m)
  <2> DEFINE m == [from |-> c, cmd |-> call[c].cmd, arg |-> call[c].arg,
                   exe |-> call[c].exe, val |-> call[c].val,
                   ids |-> IF call[c].cmd = "release" THEN {call[c].arg} ELSE {},
                   seen |-> call[c].seen]
  <2>1. call[c] \in Call /\ Sorted(call[c]) /\ AsCall(call[c])
    BY <1>2 DEF Send, TInv, TypeOK, CallsSorted, CallSorted
  <2>2. call[c].cmd = "release" => IsMade("tensor", call[c].arg)
    BY <2>1 DEF Sorted, AsCall
  <2>3. m.ids \in SUBSET RefId
    BY <2>2 DEF IsMade
  <2>4. m \in Message
    BY <2>1, <2>3 DEF Call, Message, Sorted
  <2>5. SentByClient(m)
    BY <2>2 DEF SentByClient
  <2> QED
    BY <1>2, <2>4, <2>5 DEF Send
<1>3. ASSUME NEW c \in Client, ClientStart(c)
      PROVE  inbox' = inbox \/ \E d \in Data : FromBinary(c, d)
  BY <1>3 DEF ClientStart, EnsureCompiled, ToBinary, Deallocate, Eager, RunOne
<1>4. ASSUME NEW c \in Client, ClientContinue(c)
      PROVE  inbox' = inbox \/ Send(c)
  BY <1>4 DEF ClientContinue, SendExits, Build, CompileEntry, BuildExits, Return
<1>5. Reap \/ Start \/ Quiescent \/ UNCHANGED vars => inbox' = inbox \/ ReaperSend
  BY DEF Reap, Drain, ReleaseGroup, ReaperExits, Start, Quiescent, vars
<1>6. ASSUME NEW r \in RefId, Drop(r) PROVE inbox' = inbox
  BY <1>6 DEF Drop
<1>7. Serve => inbox # <<>> /\ inbox' = Tail(inbox)
  BY DEF Serve, Upload, CompileGraph, RunNode, Execute, Download, ExecuteHost,
         StaleReference, Release, Serving
<1>8. Crash => inbox' = <<>>
  BY DEF Crash
<1> QED
  BY <1>1, <1>2, <1>3, <1>4, <1>5, <1>6, <1>7, <1>8 DEF Next

(* What may become of the reaper in a step.                                *)
LEMMA ReaperSteps ==
  ASSUME TInv, [Next]_vars
  PROVE  \/ reaper' = reaper /\ gen' = gen
         \/ reaper' = reaper /\ Start
         \/ Drain \/ ReleaseGroup \/ ReaperSend \/ ReaperExits
         \/ Release /\ req.from = Reaper /\ reaper' = NextPhase
         \/ Crash /\ reaper' = NextPhase
         \/ ReaperTimeout
<1>1. ASSUME NEW c \in Client, ClientStart(c) \/ ClientContinue(c) \/ Timeout(c)
      PROVE  reaper' = reaper /\ gen' = gen
  BY <1>1
  DEF ClientStart, FromBinary, EnsureCompiled, ToBinary, Deallocate, Eager, RunOne,
      ClientContinue, Send, SendExits, Build, CompileEntry, BuildExits, Return, Timeout,
      workerVars
<1>2. ASSUME NEW r \in RefId, Drop(r) PROVE reaper' = reaper /\ gen' = gen
  BY <1>2 DEF Drop, workerVars
<1>3. Serve => \/ reaper' = reaper /\ gen' = gen
               \/ Release /\ req.from = Reaper /\ reaper' = NextPhase
  BY DEF Serve, Upload, CompileGraph, RunNode, Execute, Download, ExecuteHost,
         StaleReference, Release, Put, ReplyData, workerVars
<1>4. Crash => (reaper' = reaper /\ gen' = gen) \/ reaper' = NextPhase
  BY DEF Crash
<1>5. (Quiescent \/ UNCHANGED vars) => (reaper' = reaper /\ gen' = gen)
  BY DEF Quiescent, vars
<1>6. Start => reaper' = reaper
  BY DEF Start
<1> QED
  BY <1>1, <1>2, <1>3, <1>4, <1>5, <1>6 DEF Next, Reap

(* A request whose caller gave up is still that request.                   *)
LEMMA OrphanRemains ==
  ASSUME TInv, NEW from, Orphan(from)
  PROVE  /\ DOMAIN inbox' = DOMAIN inbox
         /\ \A i \in DOMAIN inbox :
              /\ inbox'[i].ids = inbox[i].ids
              /\ inbox'[i].cmd = inbox[i].cmd
              /\ inbox'[i].from = IF inbox[i].from = from THEN Nobody ELSE inbox[i].from
<1> inbox \in Seq(Message)
  BY ReleasedAreRefs
<1>1. \A i \in DOMAIN inbox : inbox[i] \in Message
  OBVIOUS
<1>2. /\ DOMAIN inbox' = DOMAIN inbox
      /\ \A i \in DOMAIN inbox :
           inbox'[i] = IF inbox[i].from = from THEN [inbox[i] EXCEPT !.from = Nobody]
                                               ELSE inbox[i]
  BY DEF Orphan
<1> QED
  BY <1>1, <1>2 DEF Message

(* A release reaches the registry of its kind.                             *)
LEMMA KindsNext ==
  ASSUME TInv, OInv, KindsMatch, [Next]_vars
  PROVE  KindsMatch'
<1> inbox \in Seq(Message)
  BY ReleasedAreRefs
<1>1. Stable
  BY RefsStable
<1>2. \A r : IsMade("tensor", r) => refs'[r].kind = "tensor"
  BY <1>1 DEF Stable, IsMade
<1>3. \A i \in DOMAIN inbox' : \A r \in inbox'[i].ids :
        inbox'[i].cmd \in Releases /\ refs'[r].kind = ReleaseKind(inbox'[i].cmd)
  <2>1. \A i \in DOMAIN inbox : \A r \in inbox[i].ids :
          inbox[i].cmd \in Releases /\ refs'[r].kind = ReleaseKind(inbox[i].cmd)
    BY <1>1, ReleasedStay DEF KindsMatch
  <2>2. CASE inbox' = inbox \/ inbox' = <<>>
    BY <2>1, <2>2
  <2>3. CASE inbox # <<>> /\ inbox' = Tail(inbox)
    BY <2>1, <2>3, TailFacts
  <2>4. ASSUME NEW m \in Message, SentByClient(m), inbox' = Append(inbox, m)
        PROVE  \A i \in DOMAIN inbox' : \A r \in inbox'[i].ids :
                 inbox'[i].cmd \in Releases /\ refs'[r].kind = ReleaseKind(inbox'[i].cmd)
    <3>1. \A r \in m.ids : m.cmd \in Releases /\ refs'[r].kind = ReleaseKind(m.cmd)
      BY <1>2, <2>4 DEF SentByClient, ReleaseKind, Releases
    <3> QED
      BY <2>1, <2>4, <3>1, AppendFacts
  <2>5. CASE ReaperSend
    <3> DEFINE m == [from |-> Reaper, arg |-> NoRef, exe |-> NoRef, val |-> None,
                     cmd |-> IF reaper.phase = "tensor" THEN "release"
                                                        ELSE "release_executable",
                     ids |-> reaper.ids, seen |-> reaper.seen]
    <3>1. m \in Message /\ m.ids = reaper.ids
      BY ReleasedAreRefs DEF Message, Command, Value, Releases, TInv, TypeOK
    <3>2. m.cmd \in Releases /\ ReleaseKind(m.cmd) = reaper.phase
      BY DEF Releases, ReleaseKind, TInv, TypeOK, Kind
    <3>3. \A r \in reaper.ids : refs'[r].kind = reaper.phase
      BY <1>1, <2>5, ReleasedStay DEF ReaperSend, KindsMatch
    <3>4. inbox' = Append(inbox, m)
      BY <2>5 DEF ReaperSend
    <3> HIDE DEF m
    <3> QED
      BY <2>1, <3>1, <3>2, <3>3, <3>4, AppendFacts
  <2>6. ASSUME NEW from, Orphan(from)
        PROVE  \A i \in DOMAIN inbox' : \A r \in inbox'[i].ids :
                 inbox'[i].cmd \in Releases /\ refs'[r].kind = ReleaseKind(inbox'[i].cmd)
    BY <2>1, <2>6, OrphanRemains
  <2>7. ReaperTimeout \/ (\E c \in Client : Timeout(c)) => \E from : Orphan(from)
    BY DEF ReaperTimeout, Timeout
  <2> QED
    BY <2>2, <2>3, <2>4, <2>5, <2>6, <2>7, InboxSteps
<1>4. /\ reaper'.at = "send" => \A r \in reaper'.ids : refs'[r].kind = reaper'.phase
      /\ reaper'.phase = "executable" =>
           \A r \in reaper'.entries : refs'[r].kind = "executable"
      /\ reaper'.at = "idle" => reaper'.entries = {}
  <2>1. CASE reaper' = reaper
    BY <1>1, <2>1, ReleasedStay DEF KindsMatch
  <2>2. CASE reaper' = NextPhase \/ reaper' = ReaperIdle
    <3>1. /\ reaper'.at # "send"
          /\ reaper'.phase = "executable" =>
               \A r \in reaper'.entries : r \in reaper.entries /\ refs[r].kind = "executable"
          /\ reaper'.at = "idle" => reaper'.entries = {}
      BY <2>2 DEF NextPhase, ReaperIdle
    <3> QED
      BY <1>1, <3>1, ReleasedStay
  <2>3. CASE Drain
    BY <2>3 DEF Drain, ReaperIdle
  <2>4. CASE ReleaseGroup /\ up /\ Current # {}
    <3>1. /\ reaper'.at = "send" /\ reaper'.ids = Current
          /\ reaper'.phase = reaper.phase /\ reaper'.entries = reaper.entries
          /\ refs' = refs
      BY <2>4 DEF ReleaseGroup, TInv, TypeOK
    <3> QED
      BY <3>1 DEF Current, KindsMatch
  <2>5. CASE ReaperSend
    <3>1. /\ reaper'.at = "wait" /\ reaper'.phase = reaper.phase
          /\ reaper'.entries \subseteq reaper.entries /\ refs' = refs
      BY <2>5 DEF ReaperSend, TInv, TypeOK
    <3> QED
      BY <3>1 DEF KindsMatch
  <2>6. ReleaseGroup => (up /\ Current # {}) \/ reaper' = NextPhase
    BY DEF ReleaseGroup
  <2>7. /\ ReaperExits => reaper' = ReaperIdle
        /\ ReaperTimeout => reaper' = NextPhase
    BY DEF ReaperExits, ReaperTimeout
  <2> QED
    BY <2>1, <2>2, <2>3, <2>4, <2>5, <2>6, <2>7, ReaperSteps
<1> QED
  BY <1>3, <1>4 DEF KindsMatch

(* No label of a generation to come: labels are read from the counter,     *)
(* which only grows.                                                       *)
LEMMA LabelsNext ==
  ASSUME TInv, LabelsPast, [Next]_vars
  PROVE  LabelsPast'
<1> gen \in Nat /\ call \in [Client -> Call] /\ refs \in [RefId -> Ref]
  BY DEF TInv, TypeOK
<1>1. gen' = gen \/ (gen' = gen + 1 /\ refs' = refs /\ call' = call)
  <2>1. ASSUME NEW c \in Client, ClientStart(c) \/ ClientContinue(c) \/ Timeout(c)
        PROVE  gen' = gen
    BY <2>1
    DEF ClientStart, FromBinary, EnsureCompiled, ToBinary, Deallocate, Eager, RunOne,
        ClientContinue, Send, SendExits, Build, CompileEntry, BuildExits, Return, Timeout,
        workerVars
  <2>2. Serve => gen' = gen
    BY DEF Serve, Upload, CompileGraph, RunNode, Execute, Download, ExecuteHost,
           StaleReference, Release, Put, ReplyData, workerVars
  <2>3. ASSUME NEW r \in RefId, Drop(r) PROVE gen' = gen
    BY <2>3 DEF Drop, workerVars
  <2>4. Reap \/ ReaperTimeout \/ Crash \/ Quiescent \/ UNCHANGED vars => gen' = gen
    BY DEF Reap, Drain, ReleaseGroup, ReaperSend, ReaperExits, ReaperTimeout, Crash,
           Quiescent, vars, workerVars
  <2>5. Start => gen' = gen + 1 /\ refs' = refs /\ call' = call
    BY DEF Start, NextGeneration
  <2>6. gen' = gen \/ Start
    BY <2>1, <2>2, <2>3, <2>4 DEF Next
  <2> QED
    BY <2>5, <2>6
<1>2. \A c \in Client : call'[c].seen <= gen
  <2>1. \A c \in Client : call[c].seen \in Nat /\ call[c].seen <= gen
    BY DEF LabelsPast, Call
  <2>2. Idle.seen = 0
    BY DEF Idle
  <2>4. ASSUME NEW c \in Client, ClientStart(c)
        PROVE  \A d \in Client : call'[d].seen <= gen
    <3>1. ASSUME NEW x \in Data, FromBinary(c, x)
          PROVE  \A d \in Client : call'[d].seen <= gen
      <4> DEFINE rec == [Idle EXCEPT !.at = "wait", !.cmd = "upload", !.val = x,
                                 !.seen = gen]
      <4>1. rec.seen <= gen
        BY DEF Idle
      <4>2. \A d \in Client : call'[d] = IF d = c THEN rec ELSE call[d]
        BY <3>1 DEF FromBinary, Begin
      <4> HIDE DEF rec
      <4> QED
        BY <2>1, <4>1, <4>2
    <3>2. ASSUME NEW g \in Graph, EnsureCompiled(c, g)
          PROVE  \A d \in Client : call'[d].seen <= gen
      <4> DEFINE rec == [Idle EXCEPT !.at = "checked", !.cmd = "compile",
                                 !.val = g, !.seen = gen]
      <4>1. rec.seen <= gen
        BY DEF Idle
      <4>2. \A d \in Client : call'[d] = IF d = c THEN rec ELSE call[d]
        BY <3>2 DEF EnsureCompiled, Begin
      <4> HIDE DEF rec
      <4> QED
        BY <2>1, <4>1, <4>2
    <3>3. ASSUME NEW r \in RefId, ToBinary(c, r)
          PROVE  \A d \in Client : call'[d].seen <= gen
      <4> DEFINE rec == [Idle EXCEPT !.at = "checked", !.cmd = "download", !.arg = r,
                                 !.seen = gen]
      <4>1. rec.seen <= gen
        BY DEF Idle
      <4>2. \A d \in Client : call'[d] = IF d = c THEN rec ELSE call[d]
        BY <3>3 DEF ToBinary, Begin
      <4> HIDE DEF rec
      <4> QED
        BY <2>1, <4>1, <4>2
    <3>4. ASSUME NEW r \in RefId, Deallocate(c, r)
          PROVE  \A d \in Client : call'[d].seen <= gen
      <4> DEFINE rec == IF CheckFresh(r)
                      THEN [Idle EXCEPT !.at = "checked", !.cmd = "release", !.arg = r,
                                        !.seen = gen]
                      ELSE Idle
      <4>1. rec.seen <= gen
        BY DEF Idle
      <4>2. \A d \in Client : call'[d] = IF d = c THEN rec ELSE call[d]
        BY <3>4 DEF Deallocate, Begin
      <4> HIDE DEF rec
      <4> QED
        BY <2>1, <4>1, <4>2
    <3>5. ASSUME NEW g \in Graph, NEW r \in RefId, Eager(c, g, r)
          PROVE  \A d \in Client : call'[d].seen <= gen
      <4> DEFINE rec == [Idle EXCEPT !.at = "checked", !.cmd = "run_node",
                                 !.val = g, !.arg = r, !.seen = gen]
      <4>1. rec.seen <= gen
        BY DEF Idle
      <4>2. \A d \in Client : call'[d] = IF d = c THEN rec ELSE call[d]
        BY <3>5 DEF Eager, Begin
      <4> HIDE DEF rec
      <4> QED
        BY <2>1, <4>1, <4>2
    <3>6. ASSUME NEW e \in RefId, NEW r \in RefId, NEW cmd \in UsesExecutable,
                 RunOne(c, e, r, cmd)
          PROVE  \A d \in Client : call'[d].seen <= gen
      <4> DEFINE rec == [Idle EXCEPT !.at = "checked", !.cmd = cmd, !.arg = r, !.exe = e,
                                 !.seen = gen]
      <4>1. rec.seen <= gen
        BY DEF Idle
      <4>2. \A d \in Client : call'[d] = IF d = c THEN rec ELSE call[d]
        BY <3>6 DEF RunOne, Begin
      <4> HIDE DEF rec
      <4> QED
        BY <2>1, <4>1, <4>2
    <3> QED
      BY <2>4, <3>1, <3>2, <3>3, <3>4, <3>5, <3>6 DEF ClientStart, UsesExecutable
  <2>5. ASSUME NEW c \in Client, ClientContinue(c)
        PROVE  \A d \in Client : call'[d].seen <= gen
    <3>1. CASE Send(c)
      <4>1. [call[c] EXCEPT !.at = "wait"].seen = call[c].seen
        BY DEF Call
      <4> QED
        BY <2>1, <3>1, <4>1 DEF Send
    <3>2. CASE ~Send(c)
      <4>1. \A d \in Client : call'[d] = IF d = c THEN Idle ELSE call[d]
        BY <2>5, <3>2
        DEF ClientContinue, SendExits, Build, CompileEntry, BuildExits, Return
      <4> QED
        BY <2>1, <2>2, <4>1
    <3> QED
      BY <3>1, <3>2
  <2>6. CASE Serve
    <3>1. CASE Upload \/ CompileGraph \/ RunNode \/ Execute
      BY <2>1, <3>1 DEF Upload, CompileGraph, RunNode, Execute, Put, Call
    <3>2. CASE Download \/ ExecuteHost
      BY <2>1, <3>2 DEF Download, ExecuteHost, ReplyData, Call
    <3>3. CASE StaleReference \/ Release
      BY <2>1, <2>2, <3>3 DEF StaleReference, Release
    <3> QED
      BY <2>6, <3>1, <3>2, <3>3 DEF Serve
  <2>7. CASE Crash
    BY <2>1, <2>2, <2>7 DEF Crash, FailAll
  <2>8. CASE UNCHANGED call
    BY <2>1, <2>8
  <2>9. ASSUME NEW r \in RefId, Drop(r) PROVE UNCHANGED call
    BY <2>9 DEF Drop
  <2>10. Reap \/ ReaperTimeout \/ Start \/ Quiescent \/ UNCHANGED vars => UNCHANGED call
    BY DEF Reap, Drain, ReleaseGroup, ReaperSend, ReaperExits, ReaperTimeout, Start,
           Quiescent, vars
  <2>11. ASSUME NEW c \in Client, Timeout(c)
         PROVE  \A d \in Client : call'[d].seen <= gen
    <3>1. \A d \in Client : call'[d] = IF d = c THEN Idle ELSE call[d]
      BY <2>11 DEF Timeout
    <3> QED
      BY <2>1, <2>2, <3>1
  <2> QED
    BY <2>4, <2>5, <2>6, <2>7, <2>8, <2>9, <2>10, <2>11 DEF Next
<1>3. \A r \in RefId : refs'[r].gen <= gen
  <2>1. \A r \in RefId : refs[r].gen <= gen
    BY DEF LabelsPast
  <2>2. ASSUME NEW c \in Client, NEW r \in RefId, Build(c, r)
        PROVE  \A s \in RefId : refs'[s].gen <= gen
    BY <2>1, <2>2 DEF Build, BuildLabel
  <2>3. ASSUME NEW c \in Client, NEW r \in RefId, CompileEntry(c, r)
        PROVE  \A s \in RefId : refs'[s].gen <= gen
    BY <2>1, <2>3 DEF CompileEntry, CompileLabel, LabelsPast
  <2>4. ASSUME NEW c \in Client, NEW r \in RefId, Deallocate(c, r)
        PROVE  \A s \in RefId : refs'[s].gen <= gen
    BY <2>1, <2>4 DEF Deallocate, Ref
  <2>5. ASSUME NEW r \in RefId, Drop(r)
        PROVE  \A s \in RefId : refs'[s].gen <= gen
    BY <2>1, <2>5 DEF Drop, Ref
  <2>6. CASE UNCHANGED refs
    BY <2>1, <2>6
  <2>7. ASSUME NEW c \in Client, ClientStart(c) \/ ClientContinue(c) \/ Timeout(c)
        PROVE  \A s \in RefId : refs'[s].gen <= gen
    <3>1. \/ UNCHANGED refs
          \/ \E r \in RefId : Deallocate(c, r) \/ Build(c, r) \/ CompileEntry(c, r)
      BY <2>7 DEF ClientStart, FromBinary, EnsureCompiled, ToBinary, Eager, RunOne,
                  ClientContinue, Send, SendExits, BuildExits, Return, Timeout
    <3> QED
      BY <2>2, <2>3, <2>4, <2>6, <3>1
  <2>8. Reap \/ ReaperTimeout \/ Crash \/ Start \/ Quiescent \/ UNCHANGED vars
          => UNCHANGED refs
    BY DEF Reap, Drain, ReleaseGroup, ReaperSend, ReaperExits, ReaperTimeout, Crash, Start,
           Quiescent, vars
  <2>9. Serve => UNCHANGED refs
    BY DEF Serve, Upload, CompileGraph, RunNode, Execute, Download, ExecuteHost,
           StaleReference, Release, Put, ReplyData
  <2> QED
    BY <2>5, <2>6, <2>7, <2>8, <2>9 DEF Next
<1>4. \A c \in Client : call'[c].seen \in Nat
  BY NextTyped DEF TInv, TypeOK, Call
<1>5. \A r \in RefId : refs'[r].gen \in Nat
  BY NextTyped DEF TInv, TypeOK, Ref
<1> QED
  BY <1>1, <1>2, <1>3, <1>4, <1>5 DEF LabelsPast

(* What the reaper keeps back stays of the other kind or stale: it is of   *)
(* generations the counter has already given out.                          *)
LEMMA LeftOverNext ==
  ASSUME TInv, OInv, LabelsPast, LeftOver, [Next]_vars
  PROVE  LeftOver'
<1>1. Stable
  BY RefsStable
<1>2. \A r \in reaper.entries : /\ r \in RefId /\ refs'[r].kind = refs[r].kind
                                /\ refs'[r].gen = refs[r].gen
  BY <1>1, ReleasedStay
<1>3. CASE reaper' = reaper /\ gen' = gen
  BY <1>2, <1>3 DEF LeftOver
<1>4. CASE reaper' = reaper /\ Start
  <2>1. \A r \in reaper.entries : refs[r].gen \in Nat /\ refs[r].gen <= gen
    BY <1>2 DEF LabelsPast, TInv, TypeOK, Ref
  <2>2. gen \in Nat /\ gen' = gen + 1
    BY <1>4 DEF Start, NextGeneration, TInv, TypeOK
  <2>3. \A r \in reaper.entries : refs'[r].gen # gen'
    BY <1>2, <2>1, <2>2
  <2> QED
    BY <1>4, <2>3 DEF LeftOver
<1>5. CASE ReleaseGroup /\ up /\ Current # {}
  <2>1. /\ reaper'.ids = Current /\ reaper'.phase = reaper.phase
        /\ reaper'.entries = reaper.entries /\ refs' = refs /\ gen' = gen
    BY <1>5 DEF ReleaseGroup, TInv, TypeOK, workerVars
  <2> QED
    BY <2>1 DEF LeftOver, Current
<1>6. CASE ReaperSend
  <2>1. /\ reaper.at = "send" /\ reaper'.phase = reaper.phase
        /\ reaper'.entries = reaper.entries \ reaper.ids /\ refs' = refs /\ gen' = gen
    BY <1>6 DEF ReaperSend, TInv, TypeOK, workerVars
  <2> QED
    BY <2>1 DEF LeftOver
<1>7. CASE reaper' = NextPhase \/ reaper' = ReaperIdle \/ Drain
  <2>1. NextPhase.at \notin {"send", "wait"} /\ ReaperIdle.at \notin {"send", "wait"}
    BY DEF NextPhase, ReaperIdle
  <2>2. Drain => reaper'.at \notin {"send", "wait"}
    BY DEF Drain, ReaperIdle
  <2> QED
    BY <1>7, <2>1, <2>2 DEF LeftOver
<1>8. /\ ReleaseGroup => (up /\ Current # {}) \/ reaper' = NextPhase
      /\ ReaperExits => reaper' = ReaperIdle
      /\ ReaperTimeout => reaper' = NextPhase
  BY DEF ReleaseGroup, ReaperExits, ReaperTimeout
<1> QED
  BY <1>3, <1>4, <1>5, <1>6, <1>7, <1>8, ReaperSteps

(* A release from the reaper is the only one, and the reaper waits for it. *)
LEMMA AnsweredNext ==
  ASSUME TInv, Answered, [Next]_vars
  PROVE  Answered'
<1> inbox \in Seq(Message)
  BY ReleasedAreRefs
<1> DEFINE OneRelease ==
                           \A i \in DOMAIN inbox' :
                             inbox'[i].from = Reaper =>
                               /\ inbox'[i].cmd \in Releases
                               /\ \A j \in DOMAIN inbox' :
                                    inbox'[j].from = Reaper => j = i
<1>1. OneRelease
  <2>1. CASE inbox' = inbox \/ inbox' = <<>>
    BY <2>1 DEF Answered
  <2>2. CASE inbox # <<>> /\ inbox' = Tail(inbox)
    <3>1. \A i \in DOMAIN inbox' :
            i \in Nat /\ i + 1 \in DOMAIN inbox /\ inbox'[i] = inbox[i + 1]
      BY <2>2, TailFacts
    <3>2. \A i, j \in DOMAIN inbox' :
            inbox'[i].from = Reaper /\ inbox'[j].from = Reaper => j + 1 = i + 1
      BY <3>1 DEF Answered
    <3> QED
      BY <3>1, <3>2 DEF Answered
  <2>3. ASSUME NEW m \in Message, SentByClient(m), inbox' = Append(inbox, m)
        PROVE  OneRelease
    <3>1. m.from # Reaper
      BY <2>3, DistinctAssumption DEF SentByClient
    <3>2. \A i \in DOMAIN inbox' :
            \/ i \in DOMAIN inbox /\ inbox'[i] = inbox[i]
            \/ inbox'[i] = m
      BY <2>3, AppendFacts
    <3> QED
      BY <3>1, <3>2 DEF Answered
  <2>4. CASE ReaperSend
    <3> DEFINE m == [from |-> Reaper, arg |-> NoRef, exe |-> NoRef, val |-> None,
                     cmd |-> IF reaper.phase = "tensor" THEN "release"
                                                        ELSE "release_executable",
                     ids |-> reaper.ids, seen |-> reaper.seen]
    <3>1. m \in Message /\ m.from = Reaper /\ m.cmd \in Releases
      BY ReleasedAreRefs DEF Message, Command, Value, Releases, TInv, TypeOK
    <3>2. inbox' = Append(inbox, m)
      BY <2>4 DEF ReaperSend
    <3> HIDE DEF m
    <3>3. \A i \in DOMAIN inbox' :
            \/ i \in DOMAIN inbox /\ inbox'[i] = inbox[i]
            \/ i = Len(inbox) + 1 /\ inbox'[i] = m
      BY <3>1, <3>2, AppendFacts
    <3>4. \A i \in DOMAIN inbox : inbox[i].from # Reaper
      BY <2>4 DEF Answered, ReaperSend
    <3> QED
      BY <3>1, <3>3, <3>4 DEF Answered
  <2>5. ASSUME NEW from, Orphan(from) PROVE OneRelease
    <3>1. \A i \in DOMAIN inbox' :
            /\ i \in DOMAIN inbox /\ inbox'[i].cmd = inbox[i].cmd
            /\ inbox'[i].from = Reaper => inbox[i].from = Reaper
      BY <2>5, OrphanRemains, DistinctAssumption
    <3> QED
      BY <3>1 DEF Answered
  <2>6. ReaperTimeout \/ (\E c \in Client : Timeout(c)) => \E from : Orphan(from)
    BY DEF ReaperTimeout, Timeout
  <2> QED
    BY <2>1, <2>2, <2>3, <2>4, <2>5, <2>6, InboxSteps
<1>2. \A i \in DOMAIN inbox' : inbox'[i].from = Reaper => reaper'.at = "wait"
  <2>1. CASE ReaperSend
    BY <2>1 DEF ReaperSend, TInv, TypeOK
  <2>2. CASE ReaperTimeout
    BY <2>2, OrphanRemains, DistinctAssumption DEF ReaperTimeout
  <2>3. ASSUME NEW c \in Client, Timeout(c)
        PROVE  \A i \in DOMAIN inbox' : inbox'[i].from = Reaper => reaper'.at = "wait"
    <3>1. \A i \in DOMAIN inbox' :
            i \in DOMAIN inbox /\ (inbox'[i].from = Reaper => inbox[i].from = Reaper)
      BY <2>3, OrphanRemains, DistinctAssumption DEF Timeout
    <3>2. reaper' = reaper
      BY <2>3 DEF Timeout
    <3> QED
      BY <3>1, <3>2 DEF Answered
  <2>4. CASE ~ReaperSend /\ ~ReaperTimeout /\ ~\E c \in Client : Timeout(c)
    <3>1. ASSUME NEW i \in DOMAIN inbox', inbox'[i].from = Reaper
          PROVE  /\ reaper.at = "wait" /\ ~Crash
                 /\ ~(inbox # <<>> /\ inbox' = Tail(inbox) /\ req.from = Reaper)
      <4>1. CASE inbox' = inbox
        <5>1. reaper.at = "wait" /\ inbox' # <<>>
          BY <3>1, <4>1 DEF Answered
        <5>2. inbox # <<>> => Tail(inbox) # inbox
          <6> SUFFICES ASSUME inbox # <<>> PROVE Len(Tail(inbox)) # Len(inbox)
            OBVIOUS
          <6> QED
            OBVIOUS
        <5> QED
          BY <4>1, <5>1, <5>2 DEF Crash
      <4>2. CASE inbox' = <<>>
        BY <3>1, <4>2
      <4>3. CASE inbox # <<>> /\ inbox' = Tail(inbox)
        <5>1. /\ i \in Nat /\ i + 1 \in DOMAIN inbox /\ inbox[i + 1].from = Reaper
              /\ i + 1 # 1 /\ 1 \in DOMAIN inbox /\ req = inbox[1]
          BY <3>1, <4>3, TailFacts DEF req
        <5>2. req.from # Reaper /\ reaper.at = "wait"
          BY <5>1 DEF Answered
        <5>3. inbox' # <<>>
          BY <3>1
        <5> QED
          BY <5>2, <5>3 DEF Crash
      <4>4. ASSUME NEW m \in Message, SentByClient(m), inbox' = Append(inbox, m)
            PROVE  /\ reaper.at = "wait" /\ ~Crash
                   /\ ~(inbox # <<>> /\ inbox' = Tail(inbox) /\ req.from = Reaper)
        <5>1. m.from # Reaper
          BY <4>4, DistinctAssumption DEF SentByClient
        <5>2. i \in DOMAIN inbox /\ inbox[i].from = Reaper
          BY <3>1, <4>4, <5>1, AppendFacts
        <5>3. reaper.at = "wait"
          BY <5>2 DEF Answered
        <5>4. Len(inbox') = Len(inbox) + 1
          BY <4>4
        <5>5. inbox # <<>> => Len(Tail(inbox)) = Len(inbox) - 1
          OBVIOUS
        <5>6. inbox' # <<>> /\ (inbox # <<>> => inbox' # Tail(inbox))
          BY <5>4, <5>5
        <5> QED
          BY <5>3, <5>6 DEF Crash
      <4> QED
        BY <2>4, <4>1, <4>2, <4>3, <4>4, InboxSteps
    <3>2. ASSUME NEW i \in DOMAIN inbox', inbox'[i].from = Reaper
          PROVE  reaper' = reaper
      <4>1. Drain => reaper.at # "wait"
        BY DEF Drain
      <4>2. ReleaseGroup \/ ReaperExits => reaper.at # "wait"
        BY DEF ReleaseGroup, ReaperExits
      <4>3. Release => inbox # <<>> /\ inbox' = Tail(inbox)
        BY DEF Release, Serving
      <4> QED
        BY <2>4, <3>1, <3>2, <4>1, <4>2, <4>3, ReaperSteps
    <3> QED
      BY <3>1, <3>2
  <2> QED
    BY <2>1, <2>2, <2>3, <2>4
<1>3. reaper'.at = "wait" => reaper'.ids = {}
  <2>1. CASE reaper' = reaper
    <3>1. reaper.at = "wait" => reaper.ids = {}
      BY DEF Answered
    <3> QED
      BY <2>1, <3>1
  <2>2. CASE ReaperSend
    BY <2>2 DEF ReaperSend, TInv, TypeOK
  <2>3. CASE ReleaseGroup /\ up /\ Current # {}
    BY <2>3 DEF ReleaseGroup, TInv, TypeOK
  <2>4. CASE reaper' = NextPhase \/ reaper' = ReaperIdle \/ Drain
    <3>1. NextPhase.at # "wait" /\ ReaperIdle.at # "wait"
      BY DEF NextPhase, ReaperIdle
    <3>2. Drain => reaper'.at # "wait"
      BY DEF Drain, ReaperIdle
    <3> QED
      BY <2>4, <3>1, <3>2
  <2>5. /\ ReleaseGroup => (up /\ Current # {}) \/ reaper' = NextPhase
        /\ ReaperExits => reaper' = ReaperIdle
        /\ ReaperTimeout => reaper' = NextPhase
    BY DEF ReleaseGroup, ReaperExits, ReaperTimeout
  <2> QED
    BY <2>1, <2>2, <2>3, <2>4, <2>5, ReaperSteps
<1> QED
  BY <1>1, <1>2, <1>3 DEF Answered

(* The four places a release can be, in the state and in its successor.    *)
LEMMA ReleasingMeans ==
  ASSUME NEW r
  PROVE  /\ Releasing(r) <=> \/ r \in queue
                             \/ r \in reaper.entries
                             \/ \E i \in DOMAIN inbox : r \in inbox[i].ids
                             \/ \E c \in Client : Gives(c) /\ call[c].arg = r
         /\ Releasing(r)' <=> \/ r \in queue'
                              \/ r \in reaper'.entries
                              \/ \E i \in DOMAIN inbox' : r \in inbox'[i].ids
                              \/ \E c \in Client : Gives(c)' /\ call'[c].arg = r
  BY DEF Releasing, ReleaseMessages, Deallocating, Gives

(* What is kept stays owned if its owners stay, or hand it on.             *)
LEMMA OwnersStay ==
  ASSUME TInv, AllOwned, Stable, UNCHANGED <<gen, up>>,
         \A k \in Kind : lost[k] \subseteq lost'[k],
         \A k \in Kind, h \in 1 .. MaxId : table'[k][h] # None =>
           \/ table[k][h] # None
           \/ up /\ (h \in lost'[k] \/ \E c \in Client : CallOwns(c, k, h)'),
         \A r \in RefId : up /\ refs[r].state # "free" /\ refs[r].origin = gen /\ Keeps(r)
                          /\ table'[refs[r].kind][refs[r].handle] # None => Keeps(r)',
         \A c \in Client, k \in Kind, h \in 1 .. MaxId : up /\ CallOwns(c, k, h) =>
           CallOwns(c, k, h)' \/ \E r \in RefId : RefOwns(r, k, h)'
  PROVE  AllOwned'
<1> SUFFICES ASSUME NEW k \in Kind, NEW h \in 1 .. MaxId, table'[k][h] # None
             PROVE  /\ up'
                    /\ \/ \E r \in RefId : RefOwns(r, k, h)'
                       \/ \E c \in Client : CallOwns(c, k, h)'
                       \/ h \in lost'[k]
  BY DEF AllOwned
<1>1. CASE up /\ (h \in lost'[k] \/ \E c \in Client : CallOwns(c, k, h)')
  BY <1>1
<1>2. CASE table[k][h] # None
  <2>1. /\ up
        /\ \/ \E r \in RefId : RefOwns(r, k, h)
           \/ \E c \in Client : CallOwns(c, k, h)
           \/ h \in lost[k]
    BY <1>2 DEF AllOwned
  <2>2. ASSUME NEW r \in RefId, RefOwns(r, k, h)
        PROVE  RefOwns(r, k, h)'
    <3>1. Keeps(r)'
      BY <2>1, <2>2 DEF RefOwns
    <3> QED
      BY <2>2, <3>1 DEF RefOwns, Stable
  <2> QED
    BY <2>1, <2>2
<1> QED
  BY <1>1, <1>2

(* With the table as it is and replies at most wrapped, it is enough that  *)
(* releases stay.                                                          *)
LEMMA ReleasesStay ==
  ASSUME TInv, Stable, NEW r \in RefId, refs[r].state # "free", Keeps(r),
         refs'[r].state = refs[r].state,
         queue \subseteq queue', reaper.entries \subseteq reaper'.entries,
         \A i \in DOMAIN inbox : r \in inbox[i].ids =>
           \E j \in DOMAIN inbox' : r \in inbox'[j].ids,
         \A c \in Client : Gives(c) /\ call[c].arg = r =>
           \/ Gives(c)' /\ call'[c].arg = r
           \/ \E j \in DOMAIN inbox' : r \in inbox'[j].ids
  PROVE  Keeps(r)'
<1>1. CASE refs[r].state = "live"
  BY <1>1 DEF Keeps
<1>2. CASE refs[r].gen < refs[r].origin
  BY <1>2 DEF Keeps, Stable
<1>3. CASE Releasing(r)
  <2>1. Releasing(r)'
    BY <1>3, ReleasingMeans
  <2> QED
    BY <2>1 DEF Keeps
<1> QED
  BY <1>1, <1>2, <1>3 DEF Keeps

(* One client moves that wraps no reply, and a release it had to send is   *)
(* sent.                                                                   *)
LEMMA OneMoves ==
  ASSUME TInv, AllOwned, NEW c \in Client, ~Holds(c),
         \A d \in Client : d # c => call'[d] = call[d],
         inbox' = inbox \/ \E m \in Message : inbox' = Append(inbox, m),
         Gives(c) => \E j \in DOMAIN inbox' : call[c].arg \in inbox'[j].ids,
         UNCHANGED <<workerVars, refs, queue, reaper>>
  PROVE  AllOwned'
<1> inbox \in Seq(Message)
  BY ReleasedAreRefs
<1>1. UNCHANGED <<gen, up, table, lost>>
  BY DEF workerVars
<1>2. Stable
  BY DEF Stable, GivenUp
<1>3. \A i \in DOMAIN inbox : i \in DOMAIN inbox' /\ inbox'[i] = inbox[i]
  BY SMTT(30)
<1>4. ASSUME NEW r \in RefId, refs[r].state # "free", Keeps(r)
      PROVE  Keeps(r)'
  <2>1. \A d \in Client : Gives(d) /\ call[d].arg = r =>
          \/ Gives(d)' /\ call'[d].arg = r
          \/ \E j \in DOMAIN inbox' : r \in inbox'[j].ids
    BY DEF Gives
  <2>2. \A i \in DOMAIN inbox : r \in inbox[i].ids => \E j \in DOMAIN inbox' : r \in inbox'[j].ids
    BY <1>3
  <2> QED
    BY <1>2, <1>4, <2>1, <2>2, ReleasesStay
<1>5. \A d \in Client, k \in Kind, h \in 1 .. MaxId : CallOwns(d, k, h) => CallOwns(d, k, h)'
  BY <1>1 DEF CallOwns, Holds
<1> QED
  BY <1>1, <1>2, <1>4, <1>5, OwnersStay

(* Starting an operation, sending its request and returning bytes.         *)
LEMMA RequestsOwned ==
  ASSUME TInv, AllOwned, NEW c \in Client,
         \/ \E d \in Data : FromBinary(c, d)
         \/ \E g \in Graph : EnsureCompiled(c, g)
         \/ \E r \in RefId : ToBinary(c, r)
         \/ \E g \in Graph, r \in RefId : Eager(c, g, r)
         \/ \E e, r \in RefId, cmd \in UsesExecutable : RunOne(c, e, r, cmd)
         \/ Return(c)
  PROVE  AllOwned'
<1>1. ~Holds(c) /\ ~Gives(c)
  BY DEF FromBinary, EnsureCompiled, ToBinary, Eager, RunOne, Return, Begin, Holds, Gives,
         MakingCommand, TensorMaking, Reading
<1>2. \A d \in Client : d # c => call'[d] = call[d]
  BY DEF FromBinary, EnsureCompiled, ToBinary, Eager, RunOne, Return, Begin, TInv, TypeOK
<1>3. UNCHANGED <<workerVars, refs, queue, reaper>>
  BY DEF FromBinary, EnsureCompiled, ToBinary, Eager, RunOne, Return
<1>4. inbox' = inbox \/ \E m \in Message : inbox' = Append(inbox, m)
  <2>1. ASSUME NEW d \in Data, FromBinary(c, d)
        PROVE  \E m \in Message : inbox' = Append(inbox, m)
    <3> DEFINE m == [from |-> c, cmd |-> "upload", arg |-> NoRef,
                     exe |-> NoRef, val |-> d, ids |-> {}, seen |-> gen]
    <3>1. m \in Message
      BY DEF Message, Command, Value, TensorMaking, TInv, TypeOK
    <3> QED
      BY <2>1, <3>1 DEF FromBinary
  <2>2. inbox' = inbox \/ \E d \in Data : FromBinary(c, d)
    BY DEF EnsureCompiled, ToBinary, Eager, RunOne, Return
  <2> QED
    BY <2>1, <2>2
<1> QED
  BY <1>1, <1>2, <1>3, <1>4, OneMoves

(* A client that goes on from its check to its request keeps everything     *)
(* owned: what it is about to release is owned by the request instead.     *)
LEMMA SendOwned ==
  ASSUME TInv, AllOwned, NEW c \in Client, Send(c)
  PROVE  AllOwned'
<1> inbox \in Seq(Message)
  BY ReleasedAreRefs
<1> DEFINE m == [from |-> c, cmd |-> call[c].cmd, arg |-> call[c].arg,
                 exe |-> call[c].exe, val |-> call[c].val,
                 ids |-> IF call[c].cmd = "release" THEN {call[c].arg} ELSE {},
                   seen |-> call[c].seen]
<1>1. call[c] \in Call /\ call[c].at = "checked" /\ Sorted(call[c])
  BY DEF Send, TInv, TypeOK, CallsSorted, CallSorted
<1>2. m.ids \in SUBSET RefId /\ (Gives(c) => call[c].arg \in m.ids)
  BY <1>1, ReleasedAreRefs DEF Gives
<1>3. m \in Message
  BY <1>1, <1>2 DEF Call, Message, Sorted
<1>4. inbox' = Append(inbox, m)
  BY DEF Send
<1> HIDE DEF m
<1>5. Len(inbox) + 1 \in DOMAIN inbox' /\ inbox'[Len(inbox) + 1] = m
  BY <1>3, <1>4
<1>6. ~Holds(c)
  BY <1>1 DEF Holds
<1>7. /\ \A d \in Client : d # c => call'[d] = call[d]
      /\ UNCHANGED <<workerVars, refs, queue, reaper>>
  BY DEF Send, TInv, TypeOK
<1>8. Gives(c) => \E j \in DOMAIN inbox' : call[c].arg \in inbox'[j].ids
  BY <1>2, <1>5
<1> QED
  BY <1>3, <1>4, <1>6, <1>7, <1>8, OneMoves

(* A deallocated tensor is owned by its release, or of another incarnation.*)
LEMMA DeallocateOwned ==
  ASSUME TInv, LabelsPast, AllOwned, up, NEW c \in Client, NEW r \in RefId,
         Deallocate(c, r)
  PROVE  AllOwned'
<1>1. /\ call[c].at = "idle"
      /\ refs[r].state = "live"
      /\ \A s \in RefId : s # r => refs'[s] = refs[s]
      /\ \A d \in Client : d # c => call'[d] = call[d]
      /\ UNCHANGED <<gen, up, table, lost, inbox, queue, reaper>>
  BY DEF Deallocate, Unclaimed, Begin, TInv, TypeOK, workerVars
<1>2. Stable
  BY DEF Deallocate, Unclaimed, TInv, TypeOK, Ref, Stable, GivenUp
<1>3. ASSUME NEW s \in RefId, refs[s].state # "free", refs[s].origin = gen, Keeps(s)
      PROVE  Keeps(s)'
  <2>1. CASE s # r
    <3>1. \A d \in Client : Gives(d) /\ call[d].arg = s => Gives(d)' /\ call'[d].arg = s
      BY <1>1 DEF Gives
    <3> QED
      BY <1>1, <1>2, <1>3, <2>1, <3>1, ReleasesStay
  <2>2. CASE s = r /\ CheckFresh(r)
    <3>1. call'[c] = [Idle EXCEPT !.at = "checked", !.cmd = "release", !.arg = r,
                                  !.seen = gen]
      BY <2>2 DEF Deallocate, Begin, TInv, TypeOK
    <3>2. Gives(c)' /\ call'[c].arg = r
      BY <3>1 DEF Gives, Idle
    <3>3. Releasing(r)'
      BY <3>2, ReleasingMeans
    <3> QED
      BY <2>2, <3>3 DEF Keeps
  <2>3. CASE s = r /\ ~CheckFresh(r)
    <3>1. refs[r].gen < refs[r].origin
      BY <1>3, <2>3 DEF CheckFresh, LabelsPast, TInv, TypeOK, Ref
    <3> QED
      BY <1>2, <1>3, <2>3, <3>1 DEF Keeps, Stable
  <2> QED
    BY <2>1, <2>2, <2>3
<1>4. \A d \in Client, k \in Kind, h \in 1 .. MaxId : CallOwns(d, k, h) => CallOwns(d, k, h)'
  BY <1>1 DEF CallOwns, Holds
<1> QED
  BY <1>1, <1>2, <1>3, <1>4, OwnersStay

(* The reply's handle passes to the reference that wraps it.               *)
LEMMA WrapOwned ==
  ASSUME TInv, AllOwned, NEW c \in Client, NEW r \in RefId, Build(c, r) \/ CompileEntry(c, r)
  PROVE  AllOwned'
<1>1. /\ call[c].at = "replied" /\ call[c].cmd \in MakingCommand
      /\ refs[r].state = "free"
      /\ refs'[r].state = "live" /\ refs'[r].kind = KindOf(call[c].cmd)
      /\ refs'[r].origin = call[c].origin /\ refs'[r].handle = call[c].id
  BY DEF Build, CompileEntry, Free, MakingCommand, TensorMaking, KindOf, TInv, TypeOK
<1>2. /\ \A s \in RefId : s # r => refs'[s] = refs[s]
      /\ \A d \in Client : d # c => call'[d] = call[d]
      /\ UNCHANGED <<gen, up, table, lost, inbox, queue, reaper>>
  BY DEF Build, CompileEntry, TInv, TypeOK, workerVars
<1>3. Stable
  BY <1>1, <1>2 DEF Stable, GivenUp
<1>4. ASSUME NEW s \in RefId, refs[s].state # "free", Keeps(s)
      PROVE  Keeps(s)'
  <2>1. \A d \in Client : Gives(d) /\ call[d].arg = s => Gives(d)' /\ call'[d].arg = s
    BY <1>1, <1>2 DEF Gives
  <2> QED
    BY <1>1, <1>2, <1>3, <1>4, <2>1, ReleasesStay
<1>5. \A d \in Client, k \in Kind, h \in 1 .. MaxId : CallOwns(d, k, h) =>
        CallOwns(d, k, h)' \/ \E s \in RefId : RefOwns(s, k, h)'
  <2> SUFFICES ASSUME NEW d \in Client, NEW k \in Kind, NEW h \in 1 .. MaxId,
                      CallOwns(d, k, h)
               PROVE  CallOwns(d, k, h)' \/ RefOwns(r, k, h)'
    OBVIOUS
  <2>1. CASE d # c
    BY <1>2, <2>1 DEF CallOwns, Holds
  <2>2. CASE d = c
    BY <1>1, <1>2, <2>2 DEF CallOwns, RefOwns, Keeps
  <2> QED
    BY <2>1, <2>2
<1> QED
  BY <1>2, <1>3, <1>4, <1>5, OwnersStay

(* What the program drops is owned by the queue.                           *)
LEMMA DropOwned ==
  ASSUME TInv, AllOwned, NEW r \in RefId, Drop(r)
  PROVE  AllOwned'
<1>1. /\ \A s \in RefId : s # r => refs'[s] = refs[s]
      /\ UNCHANGED <<gen, up, table, lost, inbox, call, reaper>>
      /\ queue' = queue \cup {r}
  BY DEF Drop, Push, TInv, TypeOK, workerVars
<1>2. Stable
  BY DEF Drop, Unclaimed, TInv, TypeOK, Ref, Stable, GivenUp
<1>3. ASSUME NEW s \in RefId, refs[s].state # "free", Keeps(s)
      PROVE  Keeps(s)'
  <2>1. CASE s # r
    <3>1. \A d \in Client : Gives(d) /\ call[d].arg = s => Gives(d)' /\ call'[d].arg = s
      BY <1>1 DEF Gives
    <3> QED
      BY <1>1, <1>2, <1>3, <2>1, <3>1, ReleasesStay
  <2>2. CASE s = r
    BY <1>1, <2>2, ReleasingMeans DEF Keeps
  <2> QED
    BY <2>1, <2>2
<1>4. \A d \in Client, k \in Kind, h \in 1 .. MaxId : CallOwns(d, k, h) => CallOwns(d, k, h)'
  BY <1>1 DEF CallOwns, Holds
<1> QED
  BY <1>1, <1>2, <1>3, <1>4, OwnersStay

(* What the reaper does not take to its next phase is stale, once nothing  *)
(* of the present one is left.                                             *)
LEMMA LostAreStale ==
  ASSUME TInv, KindsMatch,
         \A r \in reaper.entries : refs[r].kind # reaper.phase \/ refs[r].gen # gen
  PROVE  \A r \in reaper.entries : r \in NextPhase.entries \/ refs[r].gen # gen
<1>1. \A r \in reaper.entries : refs[r].kind \in {"tensor", "executable"}
  BY ReleasedAreRefs DEF TInv, TypeOK, Ref, Kind
<1>2. CASE reaper.phase = "tensor"
  <2>1. NextPhase.entries = {r \in reaper.entries : refs[r].kind = "executable"}
    BY <1>2 DEF NextPhase
  <2> QED
    BY <1>1, <1>2, <2>1
<1>3. CASE reaper.phase = "executable"
  BY <1>3 DEF KindsMatch
<1> QED
  BY <1>2, <1>3 DEF TInv, TypeOK, Kind

(* The reaper hands on what it took, and discards only what is stale.      *)
LEMMA ReaperOwned ==
  ASSUME TInv, OInv, KindsMatch, LabelsPast, AllOwned, up, Reap
  PROVE  AllOwned'
<1> inbox \in Seq(Message)
  BY ReleasedAreRefs
<1>1. UNCHANGED <<gen, up, table, lost, refs, call>>
  BY DEF Reap, Drain, ReleaseGroup, ReaperSend, ReaperExits, workerVars
<1>2. Stable
  BY <1>1 DEF Stable, GivenUp
<1>3. \A r \in RefId : Releasing(r) => Releasing(r)' \/ refs[r].gen # gen
  <2>1. \A c \in Client : Gives(c) => Gives(c)' /\ call'[c].arg = call[c].arg
    BY <1>1 DEF Gives
  <2>2. CASE Drain
    <3>1. reaper.entries = {} /\ reaper'.entries = queue /\ inbox' = inbox
      BY <2>2 DEF Drain, KindsMatch, ReaperIdle
    <3> QED
      BY <2>1, <3>1, ReleasingMeans
  <2>3. CASE ReleaseGroup
    <3>1. inbox' = inbox /\ queue' = queue
      BY <2>3 DEF ReleaseGroup
    <3>2. CASE Current # {}
      <4>1. reaper'.entries = reaper.entries
        BY <2>3, <3>2 DEF ReleaseGroup, TInv, TypeOK
      <4> QED
        BY <2>1, <3>1, <4>1, ReleasingMeans
    <3>3. CASE Current = {}
      <4>1. \A r \in reaper.entries : refs[r].kind # reaper.phase \/ refs[r].gen # gen
        BY <3>3 DEF Current
      <4>2. reaper' = NextPhase
        BY <2>3, <3>3 DEF ReleaseGroup
      <4>3. \A r \in reaper.entries : r \in reaper'.entries \/ refs[r].gen # gen
        BY <4>1, <4>2, LostAreStale
      <4> QED
        BY <2>1, <3>1, <4>3, ReleasingMeans
    <3> QED
      BY <3>2, <3>3
  <2>4. CASE ReaperSend
    <3> DEFINE m == [from |-> Reaper, arg |-> NoRef, exe |-> NoRef, val |-> None,
                     cmd |-> IF reaper.phase = "tensor" THEN "release"
                                                        ELSE "release_executable",
                     ids |-> reaper.ids, seen |-> reaper.seen]
    <3>1. m \in Message /\ m.ids = reaper.ids
      BY ReleasedAreRefs DEF Message, Command, Value, Releases, TInv, TypeOK
    <3>2. /\ inbox' = Append(inbox, m) /\ queue' = queue
          /\ reaper'.entries = reaper.entries \ reaper.ids
      BY <2>4 DEF ReaperSend, TInv, TypeOK
    <3> HIDE DEF m
    <3>3. /\ Len(inbox) + 1 \in DOMAIN inbox' /\ inbox'[Len(inbox) + 1] = m
          /\ \A i \in DOMAIN inbox : i \in DOMAIN inbox' /\ inbox'[i] = inbox[i]
      BY <3>1, <3>2
    <3> QED
      BY <2>1, <3>1, <3>2, <3>3, ReleasingMeans
  <2> QED
    BY <2>2, <2>3, <2>4 DEF Reap, ReaperExits
<1>4. ASSUME NEW r \in RefId, refs[r].origin = gen, Keeps(r)
      PROVE  Keeps(r)'
  <2>1. refs[r].gen # gen => refs[r].gen < refs[r].origin
    BY <1>4 DEF LabelsPast, TInv, TypeOK, Ref
  <2> QED
    BY <1>1, <1>3, <1>4, <2>1 DEF Keeps
<1>5. \A c \in Client, k \in Kind, h \in 1 .. MaxId : CallOwns(c, k, h) => CallOwns(c, k, h)'
  BY <1>1 DEF CallOwns, Holds
<1> QED
  BY <1>1, <1>2, <1>4, <1>5, OwnersStay

(* The first request is served: whoever waited for it held nothing yet,    *)
(* and what the other requests release stays on its way.                   *)
LEMMA ServedOwned ==
  ASSUME TInv, inbox # <<>>, inbox' = Tail(inbox), UNCHANGED <<gen, refs, queue>>,
         \A c \in Client : call'[c] = call[c] \/ c = req.from
  PROVE  /\ Stable
         /\ \A c \in Client, k \in Kind, h \in 1 .. MaxId :
              CallOwns(c, k, h) => CallOwns(c, k, h)'
         /\ \A r \in RefId : Releasing(r) /\ r \notin req.ids =>
              Releasing(r)' \/ r \in reaper.entries \ reaper'.entries
<1> inbox \in Seq(Message)
  BY ReleasedAreRefs
<1>1. \A c \in Client : Holds(c) \/ Gives(c) => call'[c] = call[c]
  BY FirstRequest DEF Holds, Gives
<1>2. \A c \in Client, k \in Kind, h \in 1 .. MaxId : CallOwns(c, k, h) => CallOwns(c, k, h)'
  BY <1>1 DEF CallOwns, Holds
<1>3. ASSUME NEW i \in DOMAIN inbox, NEW r \in inbox[i].ids, r \notin req.ids
      PROVE  \E j \in DOMAIN inbox' : r \in inbox'[j].ids
  <2>1. i # 1 /\ i \in 1 .. Len(inbox)
    BY <1>3 DEF req
  <2>2. i - 1 \in DOMAIN inbox' /\ inbox'[i - 1] = inbox[i]
    BY <2>1
  <2> QED
    BY <2>2
<1>4. \A c \in Client : Gives(c) => Gives(c)' /\ call'[c].arg = call[c].arg
  BY <1>1 DEF Gives
<1>5. \A r \in RefId : Releasing(r) /\ r \notin req.ids =>
        Releasing(r)' \/ r \in reaper.entries \ reaper'.entries
  BY <1>3, <1>4, ReleasingMeans
<1>6. Stable
  BY DEF Stable, GivenUp
<1> QED
  BY <1>2, <1>5, <1>6

(* A request that releases nothing names nothing to release.               *)
LEMMA OthersReleaseNothing ==
  ASSUME TInv, KindsMatch, inbox # <<>>
  PROVE  /\ req.cmd \notin Releases => req.ids = {}
         /\ \A r \in req.ids : r \in RefId /\ refs[r].kind = ReleaseKind(req.cmd)
<1>1. 1 \in DOMAIN inbox /\ req = inbox[1]
  BY ReleasedAreRefs, TailFacts DEF req
<1> QED
  BY <1>1, ReleasedAreRefs DEF KindsMatch

(* A new content is owned by the client its id is replied to, and lost if  *)
(* that client has given up.                                               *)
LEMMA PutOwned ==
  ASSUME TInv, KindsMatch, AllOwned, up, inbox # <<>>, inbox' = Tail(inbox),
         NEW k \in Kind, NEW v, Put(k, v),
         req.cmd \in MakingCommand, KindOf(req.cmd) = k
  PROVE  AllOwned'
<1>1. /\ nextId[k] \in 1 .. MaxId
      /\ table' = [table EXCEPT ![k][nextId[k]] = v]
      /\ UNCHANGED <<gen, up, refs, queue, reaper>>
  BY BoundAssumption DEF Put, AllocateId, TInv, TypeOK
<1>2. req.cmd \notin Releases
  BY DEF MakingCommand, TensorMaking, Releases
<1>3. PICK h \in 1 .. MaxId : h = nextId[k]
  BY <1>1
<1>4. \A c \in Client : call'[c] = call[c] \/ c = req.from
  BY DEF Put, TInv, TypeOK
<1>5. h \in lost'[k] \/ \E c \in Client : CallOwns(c, k, h)'
  <2>1. CASE req.from \in Client
    <3>1. call[req.from] \in Call /\ call[req.from].cmd = req.cmd
      BY <2>1, FirstRequest DEF TInv, TypeOK
    <3>2. /\ call'[req.from].at = "replied" /\ call'[req.from].id = h
          /\ call'[req.from].origin = gen /\ call'[req.from].cmd = req.cmd
      BY <1>3, <2>1, <3>1 DEF Put, AllocateId, TInv, TypeOK, Call
    <3>3. PICK c \in Client : c = req.from
      BY <2>1
    <3>4. CallOwns(c, k, h)'
      BY <1>1, <3>2, <3>3 DEF CallOwns, Holds
    <3> QED
      BY <3>4
  <2>2. CASE req.from \notin Client
    BY <1>3, <2>2 DEF Put, AllocateId, TInv, TypeOK
  <2> QED
    BY <2>1, <2>2
<1>6. \A l \in Kind : lost[l] \subseteq lost'[l]
  BY DEF Put, TInv, TypeOK
<1>7. \A l \in Kind, i \in 1 .. MaxId : table'[l][i] # None =>
        table[l][i] # None \/ (l = k /\ i = h)
  BY <1>1, <1>3 DEF TInv, TypeOK
<1>8. /\ Stable
      /\ \A d \in Client, l \in Kind, i \in 1 .. MaxId : CallOwns(d, l, i) => CallOwns(d, l, i)'
      /\ \A r \in RefId : Releasing(r) => Releasing(r)'
  BY <1>1, <1>2, <1>4, ServedOwned, OthersReleaseNothing
<1>9. \A r \in RefId : Keeps(r) => Keeps(r)'
  BY <1>1, <1>8 DEF Keeps
<1> QED
  BY <1>1, <1>5, <1>6, <1>7, <1>8, <1>9, OwnersStay

(* The requests that make something.                                       *)
LEMMA MakingOwned ==
  ASSUME TInv, KindsMatch, AllOwned, Upload \/ CompileGraph \/ RunNode \/ Execute
  PROVE  AllOwned'
<1>1. /\ up /\ inbox # <<>> /\ inbox' = Tail(inbox)
      /\ \E k \in Kind : /\ \E v : Put(k, v)
                          /\ req.cmd \in MakingCommand /\ KindOf(req.cmd) = k
  BY DEF Upload, CompileGraph, RunNode, Execute, Serving, Kind, MakingCommand, TensorMaking,
         KindOf
<1> QED
  BY <1>1, PutOwned

(* The requests that make nothing and release nothing.                     *)
LEMMA OthersOwned ==
  ASSUME TInv, KindsMatch, AllOwned, Download \/ ExecuteHost \/ StaleReference
  PROVE  AllOwned'
<1>1. /\ up /\ inbox # <<>> /\ inbox' = Tail(inbox) /\ req.cmd \notin Releases
      /\ UNCHANGED <<gen, up, table, lost, refs, queue, reaper>>
  BY DEF Download, ExecuteHost, StaleReference, Serving, ReplyData, workerVars,
         TensorMaking, Reading, Releases
<1>2. \A c \in Client : call'[c] = call[c] \/ c = req.from
  BY DEF Download, ExecuteHost, StaleReference, ReplyData, TInv, TypeOK
<1>3. /\ Stable
      /\ \A c \in Client, k \in Kind, h \in 1 .. MaxId : CallOwns(c, k, h) => CallOwns(c, k, h)'
      /\ \A r \in RefId : Releasing(r) => Releasing(r)'
  BY <1>1, <1>2, ServedOwned, OthersReleaseNothing
<1>4. \A r \in RefId : Keeps(r) => Keeps(r)'
  BY <1>1, <1>3 DEF Keeps
<1> QED
  BY <1>1, <1>3, <1>4, OwnersStay

(* What a release names is gone from its registry; what the reaper had     *)
(* besides goes on or is stale.                                            *)
LEMMA ReleaseOwned ==
  ASSUME TInv, KindsMatch, LabelsPast, LeftOver, Answered, AllOwned, Release
  PROVE  AllOwned'
<1>1. /\ up /\ inbox # <<>> /\ inbox' = Tail(inbox) /\ req.cmd \in Releases
      /\ UNCHANGED <<gen, up, lost, refs, queue>>
  BY DEF Release, Serving
<1>2. \A c \in Client : call'[c] = call[c] \/ c = req.from
  BY DEF Release, TInv, TypeOK
<1>3. PICK k \in Kind : k = ReleaseKind(req.cmd)
  BY DEF ReleaseKind, Kind
<1>4. table' = [table EXCEPT ![k] = [h \in 1 .. MaxId |->
                  IF h \in {refs[r].handle : r \in req.ids} THEN None ELSE table[k][h]]]
  BY <1>3 DEF Release, ReleaseKind
<1>5. \A l \in Kind, h \in 1 .. MaxId : table'[l][h] # None => table[l][h] # None
  BY <1>4 DEF TInv, TypeOK
<1>6. \A r \in RefId : r \in req.ids /\ refs[r].state # "free" =>
        table'[refs[r].kind][refs[r].handle] = None
  <2> SUFFICES ASSUME NEW r \in RefId, r \in req.ids, refs[r].state # "free"
               PROVE  table'[refs[r].kind][refs[r].handle] = None
    OBVIOUS
  <2>1. refs[r].kind = k /\ refs[r].handle \in 1 .. MaxId
    BY <1>1, <1>3, OthersReleaseNothing DEF TInv, RefsSorted, RefSorted
  <2> QED
    BY <1>4, <2>1 DEF TInv, TypeOK
<1>7. \A r \in reaper.entries \ reaper'.entries : refs[r].gen # gen
  <2>1. CASE req.from # Reaper
    BY <2>1 DEF Release
  <2>2. CASE req.from = Reaper
    <3>1. 1 \in DOMAIN inbox /\ req = inbox[1]
      BY <1>1, ReleasedAreRefs, TailFacts DEF req
    <3>2. reaper.at = "wait" /\ reaper.ids = {}
      BY <2>2, <3>1 DEF Answered
    <3>3. \A r \in reaper.entries : refs[r].kind # reaper.phase \/ refs[r].gen # gen
      BY <3>2 DEF LeftOver
    <3>4. reaper' = NextPhase
      BY <2>2 DEF Release
    <3> QED
      BY <3>3, <3>4, LostAreStale
  <2> QED
    BY <2>1, <2>2
<1>8. /\ Stable
      /\ \A c \in Client, l \in Kind, h \in 1 .. MaxId : CallOwns(c, l, h) => CallOwns(c, l, h)'
      /\ \A r \in RefId : Releasing(r) /\ r \notin req.ids =>
           Releasing(r)' \/ r \in reaper.entries \ reaper'.entries
  BY <1>1, <1>2, ServedOwned
<1>9. ASSUME NEW r \in RefId, refs[r].state # "free", refs[r].origin = gen, Keeps(r),
             table'[refs[r].kind][refs[r].handle] # None
      PROVE  Keeps(r)'
  <2>1. r \notin req.ids
    BY <1>6, <1>9
  <2>2. Releasing(r) => Releasing(r)' \/ refs[r].gen # gen
    BY <1>7, <1>8, <2>1
  <2>3. refs[r].gen # gen => refs[r].gen < refs[r].origin
    BY <1>9 DEF LabelsPast, TInv, TypeOK, Ref
  <2> QED
    BY <1>1, <1>9, <2>2, <2>3 DEF Keeps
<1> QED
  BY <1>1, <1>5, <1>8, <1>9, OwnersStay

(* A caller that gives up leaves its request, with what it releases; it    *)
(* held nothing yet.                                                       *)
LEMMA OrphanOwned ==
  ASSUME TInv, AllOwned, NEW from, Orphan(from),
         UNCHANGED <<gen, up, table, lost, refs, queue>>,
         \A c \in Client : call'[c] = call[c] \/ call[c].at = "wait",
         \A r \in reaper.entries : r \in reaper'.entries \/ refs[r].gen < refs[r].origin
                                                         \/ refs[r].origin # gen
  PROVE  AllOwned'
<1>1. Stable
  BY DEF Stable, GivenUp
<1>2. \A c \in Client : Holds(c) \/ Gives(c) => call'[c] = call[c]
  BY DEF Holds, Gives
<1>3. \A c \in Client, k \in Kind, h \in 1 .. MaxId : CallOwns(c, k, h) => CallOwns(c, k, h)'
  BY <1>2 DEF CallOwns, Holds
<1>4. ASSUME NEW r \in RefId, refs[r].origin = gen, Keeps(r)
      PROVE  Keeps(r)'
  <2>1. \A c \in Client : Gives(c) => Gives(c)' /\ call'[c].arg = call[c].arg
    BY <1>2 DEF Gives
  <2>2. \A i \in DOMAIN inbox : i \in DOMAIN inbox' /\ inbox'[i].ids = inbox[i].ids
    BY OrphanRemains
  <2>3. Releasing(r) => Releasing(r)' \/ refs[r].gen < refs[r].origin
    BY <1>4, <2>1, <2>2, ReleasingMeans
  <2> QED
    BY <1>4, <2>3 DEF Keeps
<1> QED
  BY <1>1, <1>3, <1>4, OwnersStay

(* A client that gives up, and the reaper: what it had besides goes on or  *)
(* is stale.                                                               *)
LEMMA TimeoutOwned ==
  ASSUME TInv, AllOwned, NEW c \in Client, Timeout(c)
  PROVE  AllOwned'
<1>1. /\ Orphan(c) /\ UNCHANGED <<gen, up, table, lost, refs, queue, reaper>>
      /\ \A d \in Client : call'[d] = call[d] \/ call[d].at = "wait"
  BY DEF Timeout, workerVars, TInv, TypeOK
<1> QED
  BY <1>1, OrphanOwned

LEMMA ReaperTimeoutOwned ==
  ASSUME TInv, KindsMatch, LabelsPast, LeftOver, Answered, AllOwned, ReaperTimeout
  PROVE  AllOwned'
<1>1. /\ Orphan(Reaper) /\ UNCHANGED <<gen, up, table, lost, refs, queue, call>>
      /\ reaper.at = "wait" /\ reaper' = NextPhase
  BY DEF ReaperTimeout, workerVars
<1>2. \A r \in reaper.entries : refs[r].kind # reaper.phase \/ refs[r].gen # gen
  BY <1>1 DEF LeftOver, Answered
<1>3. \A r \in reaper.entries : r \in reaper'.entries \/ refs[r].gen # gen
  BY <1>1, <1>2, LostAreStale
<1>4. \A r \in reaper.entries : r \in reaper'.entries \/ refs[r].gen < refs[r].origin
                                                      \/ refs[r].origin # gen
  BY <1>3, ReleasedAreRefs DEF LabelsPast, TInv, TypeOK, Ref
<1> QED
  BY <1>1, <1>4, OrphanOwned

(* Every step leaves what the worker keeps with an owner.                  *)
LEMMA OwnedNext ==
  ASSUME TInv, OInv, KindsMatch, LabelsPast, LeftOver, Answered, AllOwned, [Next]_vars
  PROVE  AllOwned'
<1>1. CASE Crash
  BY <1>1 DEF Crash, Empty, AllOwned
<1>2. CASE UNCHANGED vars \/ Quiescent
  <2>1. UNCHANGED vars
    BY <1>2 DEF Quiescent
  <2>2. UNCHANGED <<gen, up, table, lost, inbox, refs, queue, call, reaper>>
    BY <2>1 DEF vars
  <2>3. AllOwned' <=> AllOwned
    BY <2>2
    DEF AllOwned, RefOwns, CallOwns, Holds, Keeps, Releasing, ReleaseMessages, Deallocating
  <2> QED
    BY <2>3
<1>3. CASE ~up
  <2>1. \A k \in Kind, h \in 1 .. MaxId : table[k][h] = None
    BY <1>3 DEF AllOwned
  <2>2. ASSUME NEW c \in Client, ClientStart(c) \/ ClientContinue(c) \/ Timeout(c)
        PROVE  table' = table
    BY <2>2
    DEF ClientStart, FromBinary, EnsureCompiled, ToBinary, Deallocate, Eager, RunOne,
        ClientContinue, Send, SendExits, Build, CompileEntry, BuildExits, Return, Timeout,
        workerVars
  <2>3. ~Serve /\ ~Crash
    BY <1>3 DEF Serve, Upload, CompileGraph, RunNode, Execute, Download, ExecuteHost,
                StaleReference, Release, Serving, Crash
  <2>4. ASSUME NEW r \in RefId, Drop(r) PROVE table' = table
    BY <2>4 DEF Drop, workerVars
  <2>5. Reap \/ ReaperTimeout \/ Start \/ Quiescent \/ UNCHANGED vars => table' = table
    BY DEF Reap, Drain, ReleaseGroup, ReaperSend, ReaperExits, ReaperTimeout, Start,
           Quiescent, vars, workerVars
  <2>6. table' = table
    BY <2>2, <2>3, <2>4, <2>5 DEF Next
  <2> QED
    BY <2>1, <2>6 DEF AllOwned
<1>4. CASE up /\ Next /\ ~Crash /\ ~Quiescent
  <2>1. ASSUME NEW c \in Client, ClientStart(c) PROVE AllOwned'
    BY <1>4, <2>1, RequestsOwned, DeallocateOwned DEF ClientStart, UsesExecutable
  <2>2. ASSUME NEW c \in Client, ClientContinue(c) PROVE AllOwned'
    BY <1>4, <2>2, RequestsOwned, SendOwned, WrapOwned
    DEF ClientContinue, SendExits, BuildExits
  <2>3. ASSUME NEW r \in RefId, Drop(r) PROVE AllOwned'
    BY <2>3, DropOwned
  <2>4. Reap => AllOwned'
    BY <1>4, ReaperOwned
  <2>5. Serve => AllOwned'
    BY MakingOwned, OthersOwned, ReleaseOwned DEF Serve
  <2>6. ~Start
    BY <1>4 DEF Start
  <2> QED
    BY <1>4, <2>1, <2>2, <2>3, <2>4, <2>5, <2>6, TimeoutOwned, ReaperTimeoutOwned DEF Next
<1> QED
  BY <1>1, <1>2, <1>3, <1>4

(* Nothing is kept at the start.                                           *)
LEMMA InitOwned == Init => LInv
  BY BoundAssumption
  DEF Init, LInv, KindsMatch, LabelsPast, LeftOver, Answered, AllOwned, Empty, FreeRef, Idle,
      ReaperIdle

(* Whatever the worker keeps is owned by a live reference, a release on    *)
(* its way or a reply about to be wrapped, whatever restarts, whatever is  *)
(* collected and whoever gives up; the exceptions are what was made for a  *)
(* caller that had given up, and what carries an older label than its      *)
(* maker's, whose release the reaper discards.                             *)
THEOREM OnlyTwoLeaks == Spec => []NothingLeaks
<1>1. Init => TInv /\ OInv /\ LInv
  BY InitSorted, InitReleases, InitOwned
<1>2. TInv /\ OInv /\ LInv /\ [Next]_vars => (TInv /\ OInv /\ LInv)'
  BY NextTyped, NextReleases, KindsNext, LabelsNext, LeftOverNext, AnsweredNext, OwnedNext
  DEF LInv
<1>3. TInv /\ LInv => NothingLeaks
  <2> SUFFICES ASSUME TInv, LInv, NEW k \in Kind, NEW h \in 1 .. MaxId, table[k][h] # None
               PROVE  Owned(k, h) \/ Unowned(k, h)
    BY DEF NothingLeaks
  <2>1. \/ \E r \in RefId : RefOwns(r, k, h)
        \/ \E c \in Client : CallOwns(c, k, h)
        \/ h \in lost[k]
    BY DEF LInv, AllOwned
  <2>2. ASSUME NEW r \in RefId, RefOwns(r, k, h) PROVE Owned(k, h) \/ Unowned(k, h)
    BY <2>2 DEF RefOwns, Keeps, Owned, Unowned, Made
  <2>3. ASSUME NEW c \in Client, CallOwns(c, k, h) PROVE Owned(k, h)
    <3>1. call[c].cmd \in IF k = "tensor" THEN TensorMaking ELSE {"compile"}
      BY <2>3 DEF CallOwns, Holds, KindOf, MakingCommand
    <3> QED
      BY <2>3, <3>1 DEF CallOwns, Holds, Owned
  <2>4. h \in lost[k] => Unowned(k, h)
    BY DEF Unowned
  <2> QED
    BY <2>1, <2>2, <2>3, <2>4
<1> QED
  BY <1>1, <1>2, <1>3, PTL DEF Spec
=============================================================================
