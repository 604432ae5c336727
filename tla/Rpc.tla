--------------------------------- MODULE Rpc ---------------------------------
(***************************************************************************)
(* What Worker.request/5 promises its callers, with no process, port or    *)
(* frame in sight.  A client makes one call at a time.  The worker carries *)
(* a call out at most once, perhaps after its caller gave up on it.  A     *)
(* call ends with the answer to that very call, which has then been        *)
(* carried out, or it fails: a worker error, a timeout, a crash, an exit.  *)
(***************************************************************************)
EXTENDS Naturals

CONSTANTS Client, MaxCalls, NoTag

VARIABLES
  calls,      \* calls each client has made
  state,      \* how its last call stands
  answer,     \* the call the answer of its last call was computed for
  executed    \* how often the worker has carried each call out

rpcVars == <<calls, state, answer, executed>>

Tag == Client \X (1 .. MaxCalls)
Current(c) == <<c, calls[c]>>

Init ==
  /\ calls = [c \in Client |-> 0]
  /\ state = [c \in Client |-> "none"]
  /\ answer = [c \in Client |-> NoTag]
  /\ executed = [t \in Tag |-> 0]

Call(c) ==
  /\ state[c] # "open"
  /\ calls[c] < MaxCalls
  /\ calls' = [calls EXCEPT ![c] = @ + 1]
  /\ state' = [state EXCEPT ![c] = "open"]
  /\ answer' = [answer EXCEPT ![c] = NoTag]
  /\ UNCHANGED executed

Execute(c, k) ==
  /\ k <= calls[c]
  /\ executed[<<c, k>>] = 0
  /\ executed' = [executed EXCEPT ![<<c, k>>] = 1]
  /\ UNCHANGED <<calls, state, answer>>

Return(c) ==
  /\ state[c] = "open"
  /\ executed[Current(c)] = 1
  /\ state' = [state EXCEPT ![c] = "ok"]
  /\ answer' = [answer EXCEPT ![c] = Current(c)]
  /\ UNCHANGED <<calls, executed>>

(* Several open calls may fail at once.                                    *)
Fail(C) ==
  /\ C # {}
  /\ \A c \in C : state[c] = "open"
  /\ \E how \in [C -> {"error", "exit"}] :
       state' = [c \in Client |-> IF c \in C THEN how[c] ELSE state[c]]
  /\ UNCHANGED <<calls, answer, executed>>

Next ==
  \/ \E c \in Client : Call(c) \/ Return(c) \/ \E k \in 1 .. MaxCalls : Execute(c, k)
  \/ \E C \in SUBSET Client : Fail(C)

Spec == Init /\ [][Next]_rpcVars

=============================================================================
