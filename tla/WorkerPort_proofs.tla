-------------------------- MODULE WorkerPort_proofs ---------------------------
(***************************************************************************)
(* Proofs about WorkerPort: an open call is always held by a living server *)
(* that will end it, a frame never answers another call than its own, and  *)
(* the whole machinery implements the call of Rpc.                         *)
(***************************************************************************)
EXTENDS WorkerPort, SequenceTheorems, TLAPS

(* What the mailbox, the pipe and Python hold, with no order between them. *)
Message == [kind : FromPort \cup {"call", "timeout"}, id : Nat, tag : Tag \cup {NoTag}]
Answers == {mailbox[i] : i \in {j \in DOMAIN mailbox : mailbox[j].kind \in {"data", "error"}}}
Written == {pipe[i] : i \in DOMAIN pipe}
Served == IF serving.busy THEN {serving} ELSE {}
Carried == Written \cup Served \cup Answers

TypeInv ==
  /\ calls \in [Client -> 0 .. MaxCalls]
  /\ state \in [Client -> {"none", "open", "ok", "error", "exit"}]
  /\ answer \in [Client -> Tag \cup {NoTag}]
  /\ executed \in [Tag -> {0, 1}]
  /\ server \in {"down", "init", "up"}
  /\ gen \in 0 .. MaxGen
  /\ nextReqId \in Nat \ {0}
  /\ pending \subseteq [id : Nat \ {0}, tag : Tag]
  /\ timers \subseteq Nat
  /\ mailbox \in Seq(Message)
  /\ port \in {"open", "closed"}
  /\ pipe \in Seq(Frame)
  /\ serving \in [id : Nat, tag : Tag \cup {NoTag}, busy : BOOLEAN]

(* A server that is not in its loop has given out no request id, and one   *)
(* that is not there has left nothing behind.                              *)
DownInv ==
  /\ server = "down" => mailbox = <<>> /\ port = "closed" /\ pipe = <<>> /\ serving = Idle
  /\ server # "up" => pending = {} /\ timers = {}
  /\ server = "init" => nextReqId = 1

(* A request id is given to one call of the incarnation, and every frame   *)
(* that carries it carries that call.                                      *)
IdsInv ==
  /\ \A f \in Carried : f.id < nextReqId
  /\ \A p \in pending : p.id < nextReqId
  /\ \A p, q \in pending : p.id = q.id => p = q
  /\ \A p \in pending : \A f \in Carried : f.id = p.id => f.tag = p.tag

Made(t) == t \in Tag /\ t[2] <= calls[t[1]]

(* A call is in the mailbox, in the pipe or carried out, once, and what    *)
(* Python works on or has answered is carried out.                         *)
PlaceInv ==
  /\ \A t \in Queued : /\ Made(t) /\ executed[t] = 0
                       /\ t \notin Tags(pending) /\ t \notin Tags(Written)
  /\ \A t \in Tags(Written) : t # NoTag => Made(t) /\ executed[t] = 0
  /\ \A t \in Tags(pending) : Made(t)
  /\ \A t \in Tag : executed[t] = 1 => Made(t)
  /\ \A t \in Tags(Served \cup Answers) : t # NoTag => executed[t] = 1

QueuedOnce ==
  \A i, j \in DOMAIN mailbox :
    mailbox[i].kind = "call" /\ mailbox[j].kind = "call" /\ mailbox[i].tag = mailbox[j].tag => i = j
WrittenOnce ==
  \A i, j \in DOMAIN pipe : pipe[i].tag # NoTag /\ pipe[i].tag = pipe[j].tag => i = j

IInv ==
  /\ TypeInv /\ DownInv /\ IdsInv /\ PlaceInv /\ QueuedOnce /\ WrittenOnce
  /\ EveryOpenCallIsHeld

-----------------------------------------------------------------------------
(* Sequences.                                                              *)

(* Where the j-th element of a sequence without its k-th comes from.       *)
From(j, k) == IF j < k THEN j ELSE j + 1

(* t is s without its k-th element.                                        *)
Without(s, t, k) ==
  /\ k \in DOMAIN s
  /\ \A j \in DOMAIN t : From(j, k) \in DOMAIN s /\ From(j, k) # k /\ t[j] = s[From(j, k)]
  /\ \A l \in DOMAIN s : l # k => \E j \in DOMAIN t : From(j, k) = l
  /\ \A i, j \in DOMAIN t : From(i, k) = From(j, k) => i = j

(* The rest of a sequence, after its first element is handled.             *)
LEMMA TailIsWithout ==
  ASSUME NEW S, NEW s \in Seq(S), s # <<>>
  PROVE  /\ Head(s) \in S /\ Head(s) = s[1] /\ Tail(s) \in Seq(S)
         /\ Without(s, Tail(s), 1)
<1>1. /\ Head(s) \in S /\ Head(s) = s[1] /\ Tail(s) \in Seq(S)
      /\ Len(s) \in Nat \ {0} /\ DOMAIN s = 1 .. Len(s)
      /\ DOMAIN Tail(s) = 1 .. Len(s) - 1
      /\ \A j \in 1 .. Len(s) - 1 : Tail(s)[j] = s[j + 1]
  OBVIOUS
<1>2. \A j \in DOMAIN Tail(s) : From(j, 1) = j + 1
  BY <1>1 DEF From
<1>3. \A l \in DOMAIN s : l # 1 => l - 1 \in DOMAIN Tail(s) /\ From(l - 1, 1) = l
  BY <1>1 DEF From
<1> QED
  BY <1>1, <1>2, <1>3 DEF Without

(* handshake/1 takes a message out of the middle of the mailbox.           *)
LEMMA RemoveIsWithout ==
  ASSUME NEW S, NEW s \in Seq(S), NEW k \in DOMAIN s,
         NEW t, t = SubSeq(s, 1, k - 1) \o SubSeq(s, k + 1, Len(s))
  PROVE  t \in Seq(S) /\ Without(s, t, k)
<1> DEFINE a == SubSeq(s, 1, k - 1)
           b == SubSeq(s, k + 1, Len(s))
<1>1. /\ Len(s) \in Nat /\ k \in 1 .. Len(s) /\ DOMAIN s = 1 .. Len(s)
      /\ \A j \in 1 .. Len(s) : s[j] \in S
  OBVIOUS
<1>2. /\ a \in Seq(S) /\ Len(a) = k - 1
      /\ \A j \in 1 .. k - 1 : a[j] = s[j]
  BY <1>1
<1>3. /\ b \in Seq(S) /\ Len(b) = Len(s) - k
      /\ \A j \in 1 .. Len(s) - k : b[j] = s[k + j]
  <2>1. PICK n \in Nat : n = Len(s)
    BY <1>1
  <2>2. k \in Int /\ k + 1 \in Int /\ n \in Int /\ k <= n /\ k >= 1
    BY <1>1, <2>1
  <2>3. \A i \in k + 1 .. n : s[i] \in S
    BY <1>1, <2>1, <2>2
  <2>4. /\ b \in Seq(S) /\ Len(b) = IF k + 1 <= n THEN n - (k + 1) + 1 ELSE 0
        /\ \A j \in 1 .. n - (k + 1) + 1 : b[j] = s[k + 1 + j - 1]
    BY <2>1, <2>2, <2>3, SubSeqProperties
  <2> HIDE DEF b
  <2>5. Len(b) = n - k /\ n - (k + 1) + 1 = n - k
    BY <2>2, <2>4
  <2>6. \A j \in 1 .. n - k : k + 1 + j - 1 = k + j
    BY <2>2
  <2> QED
    BY <2>1, <2>4, <2>5, <2>6
<1>4. /\ t \in Seq(S) /\ Len(t) = Len(s) - 1
      /\ \A j \in 1 .. Len(t) : t[j] = IF j <= Len(a) THEN a[j] ELSE b[j - Len(a)]
  <2> HIDE DEF a, b
  <2>1. t = a \o b
    BY DEF a, b
  <2>2. /\ t \in Seq(S) /\ Len(t) = Len(a) + Len(b)
        /\ \A j \in 1 .. Len(a) + Len(b) : t[j] = IF j <= Len(a) THEN a[j] ELSE b[j - Len(a)]
    <3>1. a \in Seq(S) /\ b \in Seq(S)
      BY <1>2, <1>3
    <3>2. /\ a \o b \in Seq(S) /\ Len(a \o b) = Len(a) + Len(b)
          /\ \A j \in 1 .. Len(a) + Len(b) :
               (a \o b)[j] = IF j <= Len(a) THEN a[j] ELSE b[j - Len(a)]
      BY <3>1, ConcatProperties
    <3> QED
      BY <2>1, <3>2, Zenon
  <2>3. Len(a) + Len(b) = Len(s) - 1
    BY <1>1, <1>2, <1>3
  <2> QED
    BY <2>2, <2>3
<1>5. \A j \in 1 .. Len(s) - 1 : From(j, k) \in 1 .. Len(s) /\ From(j, k) # k
  BY <1>1 DEF From
<1>6. \A j \in 1 .. Len(s) - 1 : t[j] = s[From(j, k)]
  <2> HIDE DEF a, b
  <2> SUFFICES ASSUME NEW n \in Nat, n = Len(s), NEW j \in 1 .. n - 1, k \in 1 .. n
               PROVE  t[j] = s[From(j, k)]
    BY <1>1
  <2>1. CASE j < k
    <3>1. j \in 1 .. k - 1 /\ j \in 1 .. Len(t)
      BY <1>4, <2>1
    <3> QED
      BY <1>2, <1>4, <2>1, <3>1 DEF From
  <2>2. CASE ~(j < k)
    <3>1. j - (k - 1) \in 1 .. n - k /\ k + (j - (k - 1)) = j + 1
      BY <2>2
    <3>2. t[j] = b[j - (k - 1)]
      <4>1. j \in 1 .. Len(t) /\ ~(j <= Len(a)) /\ j - Len(a) = j - (k - 1)
        BY <1>2, <1>4, <2>2
      <4> QED
        BY <1>4, <4>1, ZenonT(30)
    <3>3. b[j - (k - 1)] = s[j + 1]
      BY <1>3, <3>1
    <3> QED
      BY <2>2, <3>2, <3>3 DEF From
  <2> QED
    BY <2>1, <2>2
<1>7. \A l \in 1 .. Len(s) : l # k =>
        \E j \in 1 .. Len(s) - 1 : From(j, k) = l
  <2> SUFFICES ASSUME NEW l \in 1 .. Len(s), l # k
               PROVE  \E j \in 1 .. Len(s) - 1 : From(j, k) = l
    OBVIOUS
  <2> DEFINE j == IF l < k THEN l ELSE l - 1
  <2> j \in 1 .. Len(s) - 1 /\ From(j, k) = l
    BY <1>1 DEF From
  <2> QED
    OBVIOUS
<1>8. \A i, j \in 1 .. Len(s) - 1 : From(i, k) = From(j, k) => i = j
  BY <1>1 DEF From
<1>9. DOMAIN s = 1 .. Len(s) /\ DOMAIN t = 1 .. Len(s) - 1
  BY <1>1, <1>4
<1> HIDE DEF a, b
<1> QED
  BY <1>4, <1>5, <1>6, <1>7, <1>8, <1>9, Zenon DEF Without

(* No call goes by the name that stands for none.                          *)
LEMMA NoTagIsNone == NoTag \notin Tag
  BY PortAssumption DEF Tag

(* A message that comes in leaves those before it where they were.         *)
LEMMA AppendIs ==
  ASSUME NEW S, NEW s \in Seq(S), NEW m \in S
  PROVE  /\ Append(s, m) \in Seq(S)
         /\ \A i \in DOMAIN s : i \in DOMAIN Append(s, m) /\ Append(s, m)[i] = s[i]
         /\ \E n \in DOMAIN Append(s, m) :
              /\ n \notin DOMAIN s /\ Append(s, m)[n] = m
              /\ DOMAIN Append(s, m) = DOMAIN s \cup {n}
<1> DEFINE n == Len(s) + 1
<1>1. /\ Append(s, m) \in Seq(S) /\ Append(s, m)[n] = m
      /\ Len(s) \in Nat /\ DOMAIN s = 1 .. Len(s) /\ DOMAIN Append(s, m) = 1 .. n
      /\ \A i \in 1 .. Len(s) : Append(s, m)[i] = s[i]
  OBVIOUS
<1>2. n \in DOMAIN Append(s, m) /\ n \notin DOMAIN s /\ DOMAIN Append(s, m) = DOMAIN s \cup {n}
  BY <1>1
<1> QED
  BY <1>1, <1>2

-----------------------------------------------------------------------------
(* What the mailbox and the pipe hold after a step.                        *)

IsAnswer(m) == m.kind \in {"data", "error"}

(* A message that is sent to the server.                                   *)
LEMMA Mailed ==
  ASSUME TypeInv, QueuedOnce, NEW m \in Message, mailbox' = Append(mailbox, m),
         m.kind = "call" => m.tag \notin Queued
  PROVE  /\ mailbox' \in Seq(Message) /\ QueuedOnce'
         /\ Queued' = Queued \cup (IF m.kind = "call" THEN {m.tag} ELSE {})
         /\ Answers' = Answers \cup (IF IsAnswer(m) THEN {m} ELSE {})
<1>1. PICK n \in DOMAIN mailbox' :
         /\ n \notin DOMAIN mailbox /\ mailbox'[n] = m
         /\ DOMAIN mailbox' = DOMAIN mailbox \cup {n}
  BY SMTT(30), AppendIs DEF TypeInv
<1>2. mailbox' \in Seq(Message) /\ \A i \in DOMAIN mailbox : mailbox'[i] = mailbox[i]
  BY AppendIs DEF TypeInv
<1>3. Queued' = Queued \cup (IF m.kind = "call" THEN {m.tag} ELSE {})
  BY <1>1, <1>2 DEF Queued
<1>4. Answers' = Answers \cup (IF IsAnswer(m) THEN {m} ELSE {})
  BY <1>1, <1>2 DEF Answers, IsAnswer
<1>5. QueuedOnce'
  BY <1>1, <1>2 DEF QueuedOnce, Queued
<1> QED
  BY <1>2, <1>3, <1>4, <1>5

(* A message that the server takes out.                                    *)
LEMMA Unmailed ==
  ASSUME TypeInv, QueuedOnce, NEW k, Without(mailbox, mailbox', k)
  PROVE  /\ QueuedOnce' /\ Answers' \subseteq Answers
         /\ Queued' = Queued \ (IF mailbox[k].kind = "call" THEN {mailbox[k].tag} ELSE {})
         /\ mailbox[k].kind = "call" => mailbox[k].tag \in Queued
         /\ IsAnswer(mailbox[k]) => mailbox[k] \in Answers
<1>1. /\ k \in DOMAIN mailbox
      /\ \A j \in DOMAIN mailbox' : /\ From(j, k) \in DOMAIN mailbox /\ From(j, k) # k
                                    /\ mailbox'[j] = mailbox[From(j, k)]
      /\ \A l \in DOMAIN mailbox : l # k => \E j \in DOMAIN mailbox' : From(j, k) = l
      /\ \A i, j \in DOMAIN mailbox' : From(i, k) = From(j, k) => i = j
  BY DEF Without
<1>2. QueuedOnce'
  BY <1>1 DEF QueuedOnce
<1>3. Answers' \subseteq Answers /\ (IsAnswer(mailbox[k]) => mailbox[k] \in Answers)
  BY <1>1 DEF Answers, IsAnswer
<1>4. ASSUME NEW t \in Queued' PROVE t \in Queued
  BY <1>1, <1>4 DEF Queued
<1>5. ASSUME NEW t \in Queued', mailbox[k].kind = "call" PROVE t # mailbox[k].tag
  <2>1. PICK j \in DOMAIN mailbox' : mailbox'[j].kind = "call" /\ mailbox'[j].tag = t
    BY <1>5 DEF Queued
  <2> QED
    BY <1>1, <1>5, <2>1 DEF QueuedOnce
<1>6. ASSUME NEW t \in Queued, mailbox[k].kind = "call" => t # mailbox[k].tag
      PROVE  t \in Queued'
  <2>1. PICK l \in DOMAIN mailbox : mailbox[l].kind = "call" /\ mailbox[l].tag = t
    BY <1>6 DEF Queued
  <2>2. PICK j \in DOMAIN mailbox' : From(j, k) = l
    BY <1>1, <1>6, <2>1
  <2> QED
    BY <1>1, <2>1, <2>2 DEF Queued
<1>7. mailbox[k].kind = "call" => mailbox[k].tag \in Queued
  BY <1>1 DEF Queued
<1> QED
  BY <1>2, <1>3, <1>4, <1>5, <1>6, <1>7

(* The mailbox stays as it is.                                             *)
LEMMA MailKept ==
  ASSUME QueuedOnce, UNCHANGED mailbox
  PROVE  QueuedOnce' /\ Queued' = Queued /\ Answers' = Answers
  BY DEF QueuedOnce, Queued, Answers

(* A frame is written to the pipe.                                         *)
LEMMA FrameWritten ==
  ASSUME TypeInv, WrittenOnce, NEW f \in Frame, pipe' = Append(pipe, f),
         f.tag # NoTag => f.tag \notin Tags(Written)
  PROVE  pipe' \in Seq(Frame) /\ WrittenOnce' /\ Written' = Written \cup {f}
<1>5. pipe \in Seq(Frame)
  BY DEF TypeInv
<1>1. PICK n \in DOMAIN pipe' :
         /\ n \notin DOMAIN pipe /\ pipe'[n] = f /\ DOMAIN pipe' = DOMAIN pipe \cup {n}
  BY <1>5, AppendIs
<1>2. pipe' \in Seq(Frame) /\ \A i \in DOMAIN pipe : pipe'[i] = pipe[i]
  BY AppendIs DEF TypeInv
<1>3. Written' = Written \cup {f}
  BY <1>1, <1>2 DEF Written
<1>4. WrittenOnce'
  BY <1>1, <1>2 DEF WrittenOnce, Written, Tags
<1> QED
  BY <1>2, <1>3, <1>4

(* Python takes the first frame out of the pipe: its call was in it once.  *)
LEMMA FrameRead ==
  ASSUME TypeInv, WrittenOnce, pipe # <<>>, pipe' = Tail(pipe)
  PROVE  /\ pipe' \in Seq(Frame) /\ WrittenOnce' /\ Written' \subseteq Written
         /\ Head(pipe) \in Written /\ Head(pipe) \in Frame
         /\ Head(pipe).tag # NoTag => Head(pipe).tag \notin Tags(Written')
<1>1. /\ Head(pipe) \in Frame /\ Head(pipe) = pipe[1] /\ pipe' \in Seq(Frame)
      /\ Without(pipe, pipe', 1)
  BY TailIsWithout DEF TypeInv
<1>2. /\ 1 \in DOMAIN pipe
      /\ \A j \in DOMAIN pipe' : /\ From(j, 1) \in DOMAIN pipe /\ From(j, 1) # 1
                                 /\ pipe'[j] = pipe[From(j, 1)]
      /\ \A i, j \in DOMAIN pipe' : From(i, 1) = From(j, 1) => i = j
  BY <1>1 DEF Without
<1>3. WrittenOnce' /\ Written' \subseteq Written /\ Head(pipe) \in Written
  BY <1>1, <1>2 DEF WrittenOnce, Written
<1>4. Head(pipe).tag # NoTag => Head(pipe).tag \notin Tags(Written')
  BY <1>1, <1>2 DEF WrittenOnce, Written, Tags
<1> QED
  BY <1>1, <1>3, <1>4

-----------------------------------------------------------------------------
(* The invariant.                                                          *)

USE PortAssumption

(* Before the first start there is nothing anywhere.                       *)
LEMMA InitIInv == Init => IInv
<1> SUFFICES ASSUME Init PROVE IInv
  OBVIOUS
<1>1. /\ Queued = {} /\ Answers = {} /\ Written = {} /\ Served = {}
      /\ QueuedOnce /\ WrittenOnce
  BY DEF Init, Queued, Answers, Written, Served, Idle, QueuedOnce, WrittenOnce
<1>2. TypeInv
  BY DEF Init, TypeInv, Idle
<1>3. DownInv
  BY DEF Init, DownInv
<1>4. IdsInv
  BY <1>1 DEF Init, IdsInv, Carried
<1>5. PlaceInv
  BY <1>1 DEF Init, PlaceInv, Tags
<1>6. EveryOpenCallIsHeld
  BY DEF Init, EveryOpenCallIsHeld
<1> QED
  BY <1>1, <1>2, <1>3, <1>4, <1>5, <1>6 DEF IInv

(* A client's own calls are told apart by their number.                    *)
LEMMA CurrentIsMade ==
  ASSUME TypeInv, NEW c \in Client
  PROVE  /\ calls[c] \in Nat /\ calls[c] <= MaxCalls
         /\ \A k \in 1 .. MaxCalls : Made(<<c, k>>) <=> k <= calls[c]
  BY DEF TypeInv, Made, Tag

(* A new call is in the mailbox and nowhere else.                          *)
LEMMA RequestKeeps ==
  ASSUME IInv, NEW c \in Client, Request(c)
  PROVE  IInv'
<1> USE DEF IInv
<1> PICK new : new = <<c, calls[c] + 1>>
  OBVIOUS
<1> DEFINE m == [kind |-> "call", id |-> 0, tag |-> new]
<1>1. /\ new \in Tag /\ ~Made(new) /\ m \in Message
      /\ calls[c] + 1 \in 0 .. MaxCalls
  BY CurrentIsMade DEF Request, Tag, Made, TypeInv, Message
<1>2. /\ new \notin Queued /\ new \notin Tags(pending) /\ new \notin Tags(Written)
      /\ executed[new] = 0
  <2>1. new # NoTag
    BY <1>1 DEF Tag
  <2>2. executed[new] \in {0, 1}
    BY <1>1 DEF TypeInv
  <2> QED
    BY <1>1, <2>1, <2>2 DEF PlaceInv
<1>3. /\ mailbox' = Append(mailbox, m) /\ server # "down"
      /\ calls' = [calls EXCEPT ![c] = calls[c] + 1] /\ state' = [state EXCEPT ![c] = "open"]
      /\ UNCHANGED <<answer, executed, server, gen, nextReqId, pending, timers,
                     port, pipe, serving>>
  BY DEF Request, serverVars, portVars
<1>4. /\ mailbox' \in Seq(Message) /\ QueuedOnce'
      /\ Queued' = Queued \cup {new} /\ Answers' = Answers
  <2>1. m.kind = "call" /\ m.tag = new /\ ~IsAnswer(m)
    BY DEF IsAnswer
  <2> HIDE DEF m
  <2> QED
    BY <1>1, <1>2, <1>3, <2>1, Mailed
<1>5. Written' = Written /\ Served' = Served /\ WrittenOnce'
  BY <1>3 DEF Written, Served, WrittenOnce
<1>6. \A t : Made(t) => Made(t)'
  <2> SUFFICES ASSUME NEW t, Made(t) PROVE Made(t)'
    OBVIOUS
  <2>1. t \in Tag /\ t[2] \in Nat /\ t[1] \in Client /\ t[2] <= calls[t[1]]
    BY DEF Made, Tag
  <2>2. calls[t[1]] <= calls'[t[1]]
    BY <1>3, <2>1, CurrentIsMade DEF TypeInv
  <2>3. calls[t[1]] \in Nat /\ calls'[t[1]] \in Nat
    BY <1>1, <1>3, <2>1 DEF TypeInv
  <2> QED
    BY <2>1, <2>2, <2>3 DEF Made
<1>7. Made(new)'
  BY <1>1, <1>3 DEF Made, TypeInv
<1>8. TypeInv'
  BY <1>1, <1>3, <1>4 DEF TypeInv
<1>9. DownInv'
  BY <1>3 DEF DownInv
<1>10. IdsInv'
  BY <1>3, <1>4, <1>5 DEF IdsInv, Carried
<1>11. PlaceInv'
  <2>1. Tags(Served \cup Answers)' = Tags(Served \cup Answers)
        /\ Tags(Written)' = Tags(Written) /\ Tags(pending)' = Tags(pending)
    BY <1>3, <1>4, <1>5 DEF Tags
  <2> QED
    BY <1>2, <1>3, <1>4, <1>6, <1>7, <2>1 DEF PlaceInv
<1>12. EveryOpenCallIsHeld'
  <2> SUFFICES ASSUME NEW d \in Client, state'[d] = "open"
               PROVE  (Current(d)' \in Queued') # (Current(d)' \in Tags(pending'))
    BY <1>3 DEF EveryOpenCallIsHeld
  <2>1. CASE d = c
    <3>1. Current(d)' = new
      BY <1>3, <2>1 DEF Current, TypeInv
    <3> QED
      BY <1>2, <1>3, <1>4, <3>1
  <2>2. CASE d # c
    <3>1. Current(d)' = Current(d) /\ Current(d) # new /\ state[d] = "open"
      BY <1>3, <2>2 DEF Current, TypeInv
    <3> QED
      BY <1>3, <1>4, <3>1 DEF EveryOpenCallIsHeld
  <2> QED
    BY <2>1, <2>2
<1> QED
  BY <1>4, <1>5, <1>8, <1>9, <1>10, <1>11, <1>12

(* A step that makes no call, gives out no id and carries nothing out only *)
(* takes calls and frames away.                                            *)
LEMMA FewerKeeps ==
  ASSUME IInv, UNCHANGED <<calls, executed, nextReqId>>,
         pending' \subseteq pending, Queued' \subseteq Queued, Written' \subseteq Written,
         \A f \in (Served \cup Answers)' :
           \E g \in Served \cup Answers : f.id = g.id /\ f.tag = g.tag
  PROVE  IdsInv' /\ PlaceInv'
<1> USE DEF IInv
<1>1. \A f \in Carried' : \E g \in Carried : f.id = g.id /\ f.tag = g.tag
  BY DEF Carried
<1>2. IdsInv'
  BY <1>1 DEF IdsInv
<1>3. /\ Tags(pending)' \subseteq Tags(pending) /\ Tags(Written)' \subseteq Tags(Written)
      /\ Tags(Served \cup Answers)' \subseteq Tags(Served \cup Answers)
  BY DEF Tags
<1>4. \A t : Made(t) => Made(t)'
  BY DEF Made
<1>5. PlaceInv'
  BY <1>3, <1>4 DEF PlaceInv
<1> QED
  BY <1>2, <1>5

(* Calls that stay open stay where they are held.                          *)
LEMMA HeldKept ==
  ASSUME EveryOpenCallIsHeld, server' # "down", UNCHANGED calls,
         \A c \in Client : state'[c] = "open" =>
           /\ state[c] = "open"
           /\ (Current(c) \in Queued) <=> (Current(c) \in Queued')
           /\ (Current(c) \in Tags(pending)) <=> (Current(c) \in Tags(pending'))
  PROVE  EveryOpenCallIsHeld'
<1>1. \A c : Current(c)' = Current(c)
  BY DEF Current
<1>2. Tags(pending)' = Tags(pending')
  BY DEF Tags
<1> QED
  BY <1>1, <1>2 DEF EveryOpenCallIsHeld

(* A step of the server process or of Python leaves every call as it is,   *)
(* or ends some that were open.                                            *)
Ends(hows) ==
  /\ state' \in [Client -> {"none", "open", "ok", "error", "exit"}]
  /\ \A c \in Client : \/ state'[c] = state[c]
                       \/ state[c] = "open" /\ state'[c] \in hows
Fails == Ends({"error", "exit"}) /\ UNCHANGED <<calls, answer, executed>>

(* Settle ends the open calls it is given and no others.                   *)
LEMMA SettleEnds ==
  ASSUME TypeInv, NEW tags, NEW how \in {"ok", "error", "exit"}, state' = Settle(tags, how)
  PROVE  /\ Ends({how})
         /\ \A c \in Client : state[c] = "open" /\ Current(c) \in tags => state'[c] = how
         /\ \A c \in Client : Current(c) \notin tags => state'[c] = state[c]
  BY DEF TypeInv, Settle, Ends

(* Every way in which the server ends ends all open calls with it.         *)
LEMMA AllSettled ==
  ASSUME IInv, Stop, state' = ExitAll \/ state' = FailAll
  PROVE  Fails /\ \A c \in Client : state'[c] # "open"
<1>1. UNCHANGED <<calls, answer, executed>>
  BY DEF Stop
<1>2. \A c \in Client : state[c] = "open" => Current(c) \in Queued \cup Tags(pending)
  BY DEF IInv, EveryOpenCallIsHeld
<1>3. CASE state' = ExitAll
  <2>1. TypeInv /\ state' = Settle(Queued \cup Tags(pending), "exit")
    BY <1>3 DEF ExitAll, IInv
  <2>2. /\ Ends({"exit"})
        /\ \A c \in Client : state[c] = "open" => state'[c] = "exit"
    BY <1>2, <2>1, SettleEnds
  <2> QED
    BY <1>1, <2>2 DEF Ends, Fails
<1>4. CASE state' = FailAll
  <2>1. /\ \A c \in Client : state'[c] =
             IF state[c] = "open" /\ Current(c) \in Tags(pending) THEN "error"
             ELSE IF state[c] = "open" /\ Current(c) \in Queued THEN "exit" ELSE state[c]
        /\ state' \in [Client -> {"none", "open", "ok", "error", "exit"}]
    BY <1>4 DEF FailAll, Settle, IInv, TypeInv
  <2> QED
    BY <1>1, <1>2, <2>1 DEF Fails, Ends
<1> QED
  BY <1>3, <1>4

(* The server is gone, and with it all that was on its way.                *)
LEMMA StopKeeps ==
  ASSUME IInv, Stop, state' = ExitAll \/ state' = FailAll
  PROVE  IInv'
<1>1. Fails /\ \A c \in Client : state'[c] # "open"
  BY AllSettled
<1>2. /\ server' = "down" /\ pending' = {} /\ timers' = {} /\ mailbox' = <<>>
      /\ port' = "closed" /\ pipe' = <<>> /\ serving' = Idle
      /\ UNCHANGED <<calls, answer, executed, gen, nextReqId>>
  BY DEF Stop
<1>3. /\ Queued' = {} /\ Answers' = {} /\ Written' = {} /\ Served' = {}
      /\ QueuedOnce' /\ WrittenOnce'
  BY <1>2 DEF Queued, Answers, Written, Served, Idle, QueuedOnce, WrittenOnce
<1>4. TypeInv'
  BY <1>1, <1>2 DEF TypeInv, IInv, Fails, Ends, Idle
<1>5. DownInv'
  BY <1>2 DEF DownInv
<1>6. IdsInv' /\ PlaceInv'
  BY <1>2, <1>3, FewerKeeps
<1>7. EveryOpenCallIsHeld'
  BY <1>1 DEF EveryOpenCallIsHeld
<1> QED
  BY <1>3, <1>4, <1>5, <1>6, <1>7 DEF IInv

(* A new incarnation begins with hello in its pipe and nothing else.       *)
LEMMA StartKeeps ==
  ASSUME IInv, Start
  PROVE  IInv'
<1> USE DEF IInv
<1>1. /\ server = "down" /\ gen < MaxGen /\ server' = "init" /\ gen' = gen + 1
      /\ nextReqId' = 1 /\ port' = "open" /\ pipe' = <<Hello>>
      /\ UNCHANGED <<calls, state, answer, executed, pending, timers, mailbox, serving>>
  BY DEF Start, NextGeneration, clientVars
<1>2. /\ pending = {} /\ timers = {} /\ mailbox = <<>> /\ serving = Idle
      /\ \A c \in Client : state[c] # "open"
  BY <1>1 DEF DownInv, EveryOpenCallIsHeld
<1>3. /\ Queued' = {} /\ Answers' = {} /\ Served' = {} /\ Written' = {Hello}
      /\ QueuedOnce' /\ WrittenOnce'
  BY <1>1, <1>2 DEF Queued, Answers, Written, Served, Idle, QueuedOnce, WrittenOnce
<1>4. TypeInv'
  <2>1. Hello \in Frame
    BY DEF Hello, Frame
  <2>2. gen + 1 \in 0 .. MaxGen
    BY <1>1 DEF TypeInv
  <2> QED
    BY <1>1, <2>1, <2>2 DEF TypeInv
<1>5. DownInv'
  BY <1>1, <1>2 DEF DownInv
<1>6. IdsInv'
  BY <1>1, <1>2, <1>3 DEF IdsInv, Carried, Hello
<1>7. PlaceInv'
  <2>1. \A t : Made(t) => Made(t)'
    BY <1>1 DEF Made
  <2>2. /\ Tags(Written)' = {NoTag} /\ Tags(pending)' = {}
        /\ Tags(Served \cup Answers)' = {}
    BY <1>1, <1>2, <1>3 DEF Tags, Hello
  <2> QED
    BY <1>1, <1>3, <2>1, <2>2 DEF PlaceInv
<1>8. EveryOpenCallIsHeld'
  BY <1>1, <1>2 DEF EveryOpenCallIsHeld
<1> QED
  BY <1>3, <1>4, <1>5, <1>6, <1>7, <1>8

(* The handshake takes hello's answer out of the mailbox.                  *)
LEMMA HandshakeOkKeeps ==
  ASSUME IInv, HandshakeOk
  PROVE  IInv'
<1> USE DEF IInv
<1>1. /\ server = "init" /\ server' = "up"
      /\ UNCHANGED <<calls, state, answer, executed, gen, nextReqId, pending, timers,
                     port, pipe, serving>>
  BY DEF HandshakeOk, clientVars, portVars
<1>2. PICK i \in DOMAIN mailbox : mailbox[i].kind = "data" /\ mailbox' = Remove(i)
  BY DEF HandshakeOk, FirstOfPort
<1>3. mailbox' \in Seq(Message) /\ Without(mailbox, mailbox', i)
  BY <1>2, RemoveIsWithout DEF Remove, TypeInv
<1>4. QueuedOnce' /\ Queued' = Queued /\ Answers' \subseteq Answers
  BY <1>2, <1>3, Unmailed
<1>5. Written' = Written /\ Served' = Served /\ WrittenOnce'
  BY <1>1 DEF Written, Served, WrittenOnce
<1>6. TypeInv'
  BY <1>1, <1>3 DEF TypeInv
<1>7. DownInv'
  BY <1>1 DEF DownInv
<1>8. IdsInv' /\ PlaceInv'
  BY <1>1, <1>4, <1>5, FewerKeeps
<1>9. EveryOpenCallIsHeld'
  BY <1>1, <1>4, HeldKept
<1> QED
  BY <1>4, <1>5, <1>6, <1>7, <1>8, <1>9

(* handle_call moves the call from the mailbox to the pending map and, in  *)
(* a frame with a new id, to the pipe.                                     *)
LEMMA HandleRequestKeeps ==
  ASSUME IInv, HandleRequest
  PROVE  IInv'
<1> USE DEF IInv
<1> PICK t : t = head.tag
  OBVIOUS
<1> PICK f : f = [id |-> nextReqId, tag |-> t]
  OBVIOUS
<1>1. /\ server = "up" /\ mailbox # <<>> /\ head.kind = "call" /\ port = "open"
      /\ pipe' = Append(pipe, f) /\ nextReqId' = nextReqId + 1
      /\ pending' = {p \in pending : p.id # nextReqId} \cup {f}
      /\ timers' = timers \cup {nextReqId} /\ mailbox' = Tail(mailbox)
      /\ UNCHANGED <<calls, state, answer, executed, server, gen, port, serving>>
  BY DEF HandleRequest, Handling, PortCommand, SendAfter, BumpReqId, clientVars
<1>2. /\ mailbox' \in Seq(Message) /\ Without(mailbox, mailbox', 1) /\ head = mailbox[1]
  BY <1>1, TailIsWithout DEF head, TypeInv
<1>3. /\ QueuedOnce' /\ Queued' = Queued \ {t} /\ t \in Queued /\ Answers' \subseteq Answers
  BY <1>1, <1>2, Unmailed
<1>4. Made(t) /\ t \in Tag /\ executed[t] = 0 /\ t \notin Tags(pending) /\ t \notin Tags(Written)
  BY <1>3 DEF PlaceInv, Made
<1>5. /\ f \in Frame /\ f.id = nextReqId /\ f.tag = t
      /\ f \in [id : Nat \ {0}, tag : Tag] /\ t # NoTag
  BY <1>4 DEF TypeInv, Frame, Tag
<1>6. pipe' \in Seq(Frame) /\ WrittenOnce' /\ Written' = Written \cup {f}
  BY <1>1, <1>4, <1>5, FrameWritten
<1>7. Served' = Served /\ pending' = pending \cup {f}
  BY <1>1 DEF Served, IdsInv, TypeInv
<1>8. TypeInv'
  <2>1. /\ nextReqId' \in Nat \ {0}
        /\ timers' \subseteq Nat
    <3>1. nextReqId \in Nat /\ nextReqId' = nextReqId + 1
      BY <1>1 DEF TypeInv
    <3>2. timers \subseteq Nat /\ timers' = timers \cup {nextReqId}
      BY <1>1 DEF TypeInv
    <3>3. nextReqId' \in Nat \ {0}
      BY <3>1
    <3> QED
      BY <3>1, <3>2, <3>3, Zenon
  <2>2. pending' \subseteq [id : Nat \ {0}, tag : Tag]
    BY <1>5, <1>7 DEF TypeInv
  <2> QED
    BY <1>1, <1>2, <1>6, <2>1, <2>2 DEF TypeInv
<1>9. DownInv'
  BY <1>1 DEF DownInv
<1>10. IdsInv'
  <2>1. nextReqId \in Nat /\ Carried' \subseteq Carried \cup {f}
    BY <1>3, <1>6, <1>7 DEF Carried, TypeInv
  <2>2. (\A g \in Carried : g.id \in Nat) /\ (\A p \in pending : p.id \in Nat)
    <3>1. \A m \in Answers \cup Written \cup Served : m.id \in Nat
      <4>1. \A i \in DOMAIN mailbox : mailbox[i] \in Message
        BY DEF TypeInv
      <4>2. \A i \in DOMAIN pipe : pipe[i] \in Frame
        BY DEF TypeInv
      <4> QED
        BY <4>1, <4>2 DEF Answers, Written, Served, Message, Frame, TypeInv
    <3> QED
      BY <3>1 DEF Carried, TypeInv
  <2>3. \A g \in Carried \cup pending : g.id < nextReqId /\ g.id # f.id /\ g.id < nextReqId + 1
    BY <1>5, <2>1, <2>2 DEF IdsInv
  <2>4. \A g \in Carried' : g.id < nextReqId'
    BY <1>1, <1>5, <2>1, <2>3
  <2>5. \A p \in pending' : p.id < nextReqId'
    BY <1>1, <1>5, <1>7, <2>1, <2>3
  <2>6. \A p, q \in pending' : p.id = q.id => p = q
    BY <1>7, <2>3 DEF IdsInv
  <2>7. \A p \in pending' : \A g \in Carried' : g.id = p.id => g.tag = p.tag
    BY <1>7, <2>1, <2>3 DEF IdsInv
  <2> QED
    BY <2>4, <2>5, <2>6, <2>7 DEF IdsInv
<1>11. PlaceInv'
  <2>1. /\ Tags(pending)' = Tags(pending) \cup {t}
        /\ Tags(Written)' = Tags(Written) \cup {t}
        /\ Tags(Served \cup Answers)' \subseteq Tags(Served \cup Answers)
    BY <1>3, <1>5, <1>6, <1>7 DEF Tags
  <2>2. \A s : Made(s) <=> Made(s)'
    BY <1>1 DEF Made
  <2> QED
    BY <1>1, <1>3, <1>4, <2>1, <2>2 DEF PlaceInv
<1>12. EveryOpenCallIsHeld'
  <2>1. Tags(pending') = Tags(pending) \cup {t}
    BY <1>5, <1>7 DEF Tags
  <2>2. \A c : Current(c)' = Current(c)
    BY <1>1 DEF Current
  <2>3. Tags(pending)' = Tags(pending')
    BY DEF Tags
  <2> QED
    BY <1>1, <1>3, <1>4, <2>1, <2>2, <2>3 DEF EveryOpenCallIsHeld
<1> QED
  BY <1>3, <1>6, <1>8, <1>9, <1>10, <1>11, <1>12

(* The head of the mailbox is handled and the entry of its id popped.      *)
LEMMA HandledIs ==
  ASSUME IInv, mailbox # <<>>, mailbox' = Tail(mailbox), head.kind # "call"
  PROVE  /\ mailbox' \in Seq(Message) /\ QueuedOnce'
         /\ Queued' = Queued /\ Answers' \subseteq Answers
         /\ head \in Message /\ (IsAnswer(head) => head \in Answers)
<1>1. /\ mailbox' \in Seq(Message) /\ Without(mailbox, mailbox', 1)
      /\ head = mailbox[1] /\ head \in Message
  BY TailIsWithout DEF head, IInv, TypeInv
<1> QED
  BY <1>1, Unmailed DEF IInv

(* Popping an entry leaves the other calls pending.                        *)
LEMMA PoppedIs ==
  ASSUME IInv, NEW id
  PROVE  /\ pending \ Entry(id) \subseteq pending
         /\ Tags(pending) \ Tags(Entry(id)) \subseteq Tags(pending \ Entry(id))
         /\ Tags(pending \ Entry(id)) \subseteq Tags(pending)
         /\ pending \ (pending \ Entry(id)) = Entry(id)
  BY DEF Entry, Tags

(* An entry is popped and its caller, if it still waits, is told; the      *)
(* message that made it so is gone.                                        *)
LEMMA PopKeeps ==
  ASSUME IInv, server = "up", mailbox # <<>>, mailbox' = Tail(mailbox), head.kind # "call",
         NEW how \in {"ok", "error"},
         pending' = pending \ Entry(head.id), state' = Settle(Tags(Entry(head.id)), how),
         answer' \in [Client -> Tag \cup {NoTag}], timers' \subseteq timers,
         UNCHANGED <<calls, executed, server, gen, nextReqId, port, pipe, serving>>
  PROVE  IInv'
<1>1. /\ mailbox' \in Seq(Message) /\ QueuedOnce' /\ Queued' = Queued /\ Answers' \subseteq Answers
  BY HandledIs
<1>2. /\ pending' \subseteq pending
      /\ Tags(pending) \ Tags(Entry(head.id)) \subseteq Tags(pending')
      /\ Tags(pending') \subseteq Tags(pending)
  BY PoppedIs
<1>3. /\ Ends({how})
      /\ \A c \in Client : state[c] = "open" /\ Current(c) \in Tags(Entry(head.id))
                             => state'[c] = how
      /\ \A c \in Client : Current(c) \notin Tags(Entry(head.id)) => state'[c] = state[c]
  BY SettleEnds DEF IInv
<1>4. Written' = Written /\ Served' = Served /\ WrittenOnce'
  BY DEF Written, Served, WrittenOnce, IInv
<1>5. TypeInv'
  BY <1>1, <1>2, <1>3 DEF TypeInv, IInv, Ends
<1>6. DownInv'
  BY DEF DownInv
<1>7. IdsInv' /\ PlaceInv'
  BY <1>1, <1>2, <1>4, FewerKeeps
<1>8. \A c \in Client : state'[c] = "open" =>
        state[c] = "open" /\ Current(c) \notin Tags(Entry(head.id))
  BY <1>3 DEF Ends
<1>9. EveryOpenCallIsHeld'
  BY <1>1, <1>2, <1>8, HeldKept DEF IInv
<1> QED
  BY <1>1, <1>4, <1>5, <1>6, <1>7, <1>9 DEF IInv

(* deliver/4 as one of the steps that pop an entry.                        *)
LEMMA DeliverIs ==
  ASSUME IInv, Deliver
  PROVE  /\ server = "up" /\ mailbox # <<>> /\ mailbox' = Tail(mailbox)
         /\ head.kind # "call" /\ IsAnswer(head)
         /\ pending' = pending \ Entry(head.id)
         /\ state' = Settle(Tags(Entry(head.id)), IF head.kind = "data" THEN "ok" ELSE "error")
         /\ \A c \in Client : answer'[c] =
              IF head.kind = "data" /\ state[c] = "open" /\ Current(c) \in Tags(Entry(head.id))
              THEN head.tag ELSE answer[c]
         /\ answer' \in [Client -> Tag \cup {NoTag}] /\ timers' \subseteq timers
         /\ UNCHANGED <<calls, executed, server, gen, nextReqId, port, pipe, serving>>
<1>1. /\ server = "up" /\ mailbox # <<>> /\ head.kind \in {"data", "error"}
      /\ mailbox' = Tail(mailbox)
      /\ pending' = pending \ Entry(head.id)
      /\ timers' = (IF Entry(head.id) = {} THEN timers ELSE timers \ {head.id})
      /\ state' = Settle(Tags(Entry(head.id)), IF head.kind = "data" THEN "ok" ELSE "error")
      /\ answer' = [c \in Client |->
                      IF /\ head.kind = "data"
                         /\ state[c] = "open" /\ Current(c) \in Tags(Entry(head.id))
                      THEN head.tag ELSE answer[c]]
      /\ UNCHANGED <<calls, executed, server, gen, nextReqId, port, pipe, serving>>
  BY DEF Deliver, Handling, portVars
<1>2. head.kind # "call" /\ IsAnswer(head)
  BY <1>1 DEF IsAnswer
<1>3. head \in Message
  BY <1>1, <1>2, HandledIs
<1>4. head.tag \in Tag \cup {NoTag} /\ answer \in [Client -> Tag \cup {NoTag}]
  BY <1>3 DEF Message, IInv, TypeInv
<1>5. answer' \in [Client -> Tag \cup {NoTag}]
  BY <1>1, <1>4
<1>6. timers' \subseteq timers
  BY <1>1
<1> QED
  BY <1>1, <1>2, <1>5, <1>6

(* deliver/4 keeps the invariant.                                          *)
LEMMA DeliverKeeps ==
  ASSUME IInv, Deliver
  PROVE  IInv'
<1>1. (IF head.kind = "data" THEN "ok" ELSE "error") \in {"ok", "error"}
  OBVIOUS
<1> QED
  BY <1>1, DeliverIs, PopKeeps

(* handle_info {:request_timeout, id} pops as deliver/4 does.              *)
LEMMA HandleTimeoutIs ==
  ASSUME IInv, HandleTimeout
  PROVE  /\ server = "up" /\ mailbox # <<>> /\ mailbox' = Tail(mailbox)
         /\ head.kind # "call"
         /\ pending' = pending \ Entry(head.id)
         /\ state' = Settle(Tags(Entry(head.id)), "error")
         /\ UNCHANGED <<calls, answer, executed, server, gen, nextReqId, timers,
                        port, pipe, serving>>
<1>1. pending \ (pending \ Entry(head.id)) = Entry(head.id)
  BY PoppedIs
<1> QED
  BY <1>1 DEF HandleTimeout, Handling, PopPending, portVars

(* A timeout keeps the invariant.                                          *)
LEMMA HandleTimeoutKeeps ==
  ASSUME IInv, HandleTimeout
  PROVE  IInv'
<1>1. answer' \in [Client -> Tag \cup {NoTag}] /\ timers' \subseteq timers
  BY HandleTimeoutIs DEF IInv, TypeInv
<1> QED
  BY <1>1, HandleTimeoutIs, PopKeeps

(* A message reaches the server that is no call; what it says was served,  *)
(* unless it is no answer.                                                 *)
LEMMA MailedKeeps ==
  ASSUME IInv, server # "down", NEW m \in Message, m.kind # "call", mailbox' = Append(mailbox, m),
         UNCHANGED <<calls, state, answer, executed, server, gen, nextReqId, pending>>,
         timers' \subseteq timers, port' \in {"open", "closed"},
         pipe' = pipe \/ pipe' = <<>>, serving' = serving \/ serving' = Idle,
         IsAnswer(m) => serving.busy /\ m.id = serving.id /\ m.tag = serving.tag
  PROVE  IInv'
<1> USE DEF IInv
<1>1. /\ mailbox' \in Seq(Message) /\ QueuedOnce' /\ Queued' = Queued
      /\ Answers' = Answers \cup (IF IsAnswer(m) THEN {m} ELSE {})
  BY Mailed
<1>2. pipe' \in Seq(Frame) /\ WrittenOnce' /\ Written' \subseteq Written
  <2>1. CASE pipe' = pipe
    BY <2>1 DEF TypeInv, WrittenOnce, Written
  <2>2. CASE pipe' = <<>>
    BY <2>2 DEF WrittenOnce, Written
  <2> QED
    BY <2>1, <2>2
<1>3. Served' \subseteq Served
  BY DEF Served, Idle
<1>4. \A f \in (Served \cup Answers)' :
        \E g \in Served \cup Answers : f.id = g.id /\ f.tag = g.tag
  <2>1. IsAnswer(m) => serving \in Served
    BY DEF Served
  <2> QED
    BY <1>1, <1>3, <2>1
<1>5. serving' \in [id : Nat, tag : Tag \cup {NoTag}, busy : BOOLEAN]
  <2>1. Idle \in [id : Nat, tag : Tag \cup {NoTag}, busy : BOOLEAN]
    BY DEF Idle
  <2> QED
    BY <2>1 DEF TypeInv
<1>6. TypeInv'
  BY <1>1, <1>2, <1>5 DEF TypeInv
<1>7. DownInv'
  BY DEF DownInv
<1>8. IdsInv' /\ PlaceInv'
  BY <1>1, <1>2, <1>4, FewerKeeps
<1>9. EveryOpenCallIsHeld'
  BY <1>1, HeldKept
<1> QED
  BY <1>1, <1>2, <1>6, <1>7, <1>8, <1>9

(* A timer expires.                                                        *)
LEMMA TimerFiresKeeps ==
  ASSUME IInv, NEW id \in timers, TimerFires(id)
  PROVE  IInv'
<1> PICK m : m = [kind |-> "timeout", id |-> id, tag |-> NoTag]
  OBVIOUS
<1>1. m \in Message /\ m.kind # "call" /\ ~IsAnswer(m)
  BY DEF Message, IsAnswer, IInv, TypeInv
<1>2. server # "down"
  BY DEF IInv, DownInv
<1>3. /\ mailbox' = Append(mailbox, m) /\ timers' \subseteq timers
      /\ UNCHANGED <<calls, state, answer, executed, server, gen, nextReqId, pending,
                     port, pipe, serving>>
  BY DEF TimerFires, clientVars, portVars
<1>4. port' \in {"open", "closed"}
  BY <1>3 DEF IInv, TypeInv
<1> QED
  BY <1>1, <1>2, <1>3, <1>4, MailedKeeps

(* A port is open only while its owner lives.                              *)
LEMMA PortHasOwner == IInv /\ port = "open" => server # "down"
  BY DEF IInv, DownInv

(* Python answers the frame it works on.                                   *)
LEMMA WriteFrameKeeps ==
  ASSUME IInv, NEW kind \in {"data", "error"}, WriteFrame(kind)
  PROVE  IInv'
<1> PICK m : m = [kind |-> kind, id |-> serving.id, tag |-> serving.tag]
  OBVIOUS
<1>1. m \in Message /\ m.kind # "call" /\ m.id = serving.id /\ m.tag = serving.tag
  BY DEF Message, FromPort, IInv, TypeInv
<1>2. /\ mailbox' = Append(mailbox, m) /\ serving.busy /\ serving' = Idle /\ port = "open"
      /\ UNCHANGED <<calls, state, answer, executed, server, gen, nextReqId, pending, timers,
                     port, pipe>>
  BY DEF WriteFrame, clientVars, serverVars
<1> QED
  BY <1>1, <1>2, PortHasOwner, MailedKeeps

(* Python writes something that is no frame.                               *)
LEMMA StrayBytesKeeps ==
  ASSUME IInv, StrayBytes
  PROVE  IInv'
<1> PICK m : m = [kind |-> "bad", id |-> 0, tag |-> NoTag]
  OBVIOUS
<1>1. m \in Message /\ m.kind # "call" /\ ~IsAnswer(m)
  BY DEF Message, FromPort, IsAnswer
<1>2. /\ mailbox' = Append(mailbox, m) /\ serving' = Idle /\ port = "open"
      /\ UNCHANGED <<calls, state, answer, executed, server, gen, nextReqId, pending, timers,
                     port, pipe>>
  BY DEF StrayBytes, clientVars, serverVars
<1> QED
  BY <1>1, <1>2, PortHasOwner, MailedKeeps

(* The Python process ends and what was in its pipe is lost.               *)
LEMMA PythonDiesKeeps ==
  ASSUME IInv, PythonDies
  PROVE  IInv'
<1> PICK m : m = [kind |-> "exit", id |-> 0, tag |-> NoTag]
  OBVIOUS
<1>1. m \in Message /\ m.kind # "call" /\ ~IsAnswer(m)
  BY DEF Message, FromPort, IsAnswer
<1>2. /\ mailbox' = Append(mailbox, m) /\ serving' = Idle /\ port = "open"
      /\ port' = "closed" /\ pipe' = <<>>
      /\ UNCHANGED <<calls, state, answer, executed, server, gen, nextReqId, pending, timers>>
  BY DEF PythonDies, clientVars, serverVars
<1> QED
  BY <1>1, <1>2, PortHasOwner, MailedKeeps

(* Python takes a frame out of the pipe and carries its call out.          *)
LEMMA ReadFrameKeeps ==
  ASSUME IInv, ReadFrame
  PROVE  IInv'
<1> USE DEF IInv
<1> PICK f : f = Head(pipe)
  OBVIOUS
<1>1. /\ port = "open" /\ ~serving.busy /\ pipe # <<>> /\ pipe' = Tail(pipe)
      /\ serving' = [id |-> f.id, tag |-> f.tag, busy |-> TRUE]
      /\ executed' = [t \in Tag |-> IF t = f.tag THEN executed[t] + 1 ELSE executed[t]]
      /\ UNCHANGED <<calls, state, answer, server, gen, nextReqId, pending, timers,
                     mailbox, port>>
  BY DEF ReadFrame, clientVars, serverVars
<1>2. /\ pipe' \in Seq(Frame) /\ WrittenOnce' /\ Written' \subseteq Written
      /\ f \in Written /\ f \in Frame /\ (f.tag # NoTag => f.tag \notin Tags(Written'))
  BY <1>1, FrameRead
<1>3. /\ QueuedOnce' /\ Queued' = Queued /\ Answers' = Answers
  BY <1>1, MailKept
<1>4. Served = {} /\ Served' = {serving'} /\ serving'.id = f.id /\ serving'.tag = f.tag
  BY <1>1 DEF Served
<1>5. f.tag # NoTag => /\ Made(f.tag) /\ f.tag \in Tag /\ f.tag \notin Queued
                       /\ executed[f.tag] = 0
  <2>1. f.tag \in Tags(Written)
    BY <1>2 DEF Tags
  <2> QED
    BY <2>1 DEF PlaceInv, Made
<1>11. \A u \in Tag : executed'[u] = IF u = f.tag THEN executed[u] + 1 ELSE executed[u]
  BY <1>1
<1>12. \A u \in Tag : /\ executed[u] \in {0, 1}
                      /\ u # f.tag => executed'[u] = executed[u]
                      /\ u = f.tag => executed'[u] = 1
  <2> SUFFICES ASSUME NEW u \in Tag
               PROVE  /\ executed[u] \in {0, 1}
                      /\ u # f.tag => executed'[u] = executed[u]
                      /\ u = f.tag => executed'[u] = 1
    OBVIOUS
  <2>1. executed[u] \in {0, 1} /\ u # NoTag
    BY NoTagIsNone DEF TypeInv
  <2> QED
    BY <1>5, <1>11, <2>1
<1>6. TypeInv'
  <2>1. executed' \in [Tag -> {0, 1}]
    <3>1. \A u \in Tag : executed'[u] \in {0, 1}
      BY <1>12
    <3> QED
      BY <1>1, <3>1
  <2>2. serving' \in [id : Nat, tag : Tag \cup {NoTag}, busy : BOOLEAN]
    BY <1>1, <1>2 DEF Frame
  <2> QED
    BY <1>1, <1>2, <2>1, <2>2 DEF TypeInv
<1>7. DownInv'
  BY <1>1, PortHasOwner DEF DownInv
<1>8. IdsInv'
  <2>1. \A g \in Carried' : \E h \in Carried : g.id = h.id /\ g.tag = h.tag
    BY <1>2, <1>3, <1>4 DEF Carried
  <2> QED
    BY <1>1, <2>1 DEF IdsInv
<1>9. PlaceInv'
  <2>1. \A t : Made(t) <=> Made(t)'
    BY <1>1 DEF Made
  <2>2. /\ Tags(pending)' = Tags(pending)
        /\ Tags(Written)' \subseteq Tags(Written)
        /\ Tags(Served \cup Answers)' \subseteq Tags(Served \cup Answers) \cup {f.tag}
        /\ f.tag # NoTag => f.tag \notin Tags(Written)'
    BY <1>1, <1>2, <1>3, <1>4 DEF Tags
  <2>7. \A t : Made(t) => t \in Tag
    BY DEF Made
  <2>3. \A t \in Queued' : /\ Made(t)' /\ executed'[t] = 0 /\ t \notin Tags(pending)'
                           /\ t \notin Tags(Written)'
    <3> SUFFICES ASSUME NEW t \in Queued
                 PROVE  /\ Made(t)' /\ executed'[t] = 0 /\ t \notin Tags(pending)'
                        /\ t \notin Tags(Written)'
      BY <1>3
    <3>1. /\ Made(t) /\ t \in Tag /\ executed[t] = 0
          /\ t \notin Tags(pending) /\ t \notin Tags(Written)
      BY <2>7 DEF PlaceInv
    <3>2. t # f.tag
      BY <1>5, <3>1, NoTagIsNone
    <3> QED
      BY <1>12, <2>1, <2>2, <3>1, <3>2
  <2>4. \A t \in Tags(Written)' : t # NoTag => Made(t)' /\ executed'[t] = 0
    <3> SUFFICES ASSUME NEW t \in Tags(Written)', t # NoTag
                 PROVE  Made(t)' /\ executed'[t] = 0
      OBVIOUS
    <3>1. Made(t) /\ t \in Tag /\ executed[t] = 0
      BY <2>2, <2>7 DEF PlaceInv
    <3>2. t # f.tag
      BY <2>2
    <3> QED
      BY <1>12, <2>1, <3>1, <3>2
  <2>5. /\ \A t \in Tags(pending)' : Made(t)'
        /\ \A t \in Tag : executed'[t] = 1 => Made(t)'
    <3>1. \A t \in Tag : executed'[t] = 1 => Made(t)
      <4> SUFFICES ASSUME NEW t \in Tag, executed'[t] = 1 PROVE Made(t)
        OBVIOUS
      <4>1. CASE t = f.tag
        BY <1>5, <4>1, NoTagIsNone
      <4>2. CASE t # f.tag
        BY <1>12, <4>2 DEF PlaceInv
      <4> QED
        BY <4>1, <4>2
    <3> QED
      BY <1>1, <2>1, <2>2, <3>1 DEF PlaceInv
  <2>6. \A t \in Tags(Served \cup Answers)' : t # NoTag => executed'[t] = 1
    <3> SUFFICES ASSUME NEW t \in Tags(Served \cup Answers)', t # NoTag
                 PROVE  executed'[t] = 1
      OBVIOUS
    <3>1. CASE t = f.tag
      BY <1>5, <1>12, <3>1
    <3>2. CASE t # f.tag
      <4>1. t \in Tags(Served \cup Answers)
        BY <2>2, <3>2
      <4>2. executed[t] = 1
        BY <4>1 DEF PlaceInv
      <4>3. PICK m \in Answers : m.tag = t
        BY <1>4, <4>1 DEF Tags
      <4>4. \A l \in DOMAIN mailbox : mailbox[l] \in Message
        BY DEF TypeInv
      <4>5. m.tag \in Tag \cup {NoTag}
        BY <4>3, <4>4 DEF Answers, Message
      <4> QED
        BY <1>12, <3>2, <4>2, <4>3, <4>5
    <3> QED
      BY <3>1, <3>2
  <2> QED
    BY <2>3, <2>4, <2>5, <2>6 DEF PlaceInv
<1>10. EveryOpenCallIsHeld'
  BY <1>1, <1>3, PortHasOwner, HeldKept
<1> QED
  BY <1>2, <1>3, <1>6, <1>7, <1>8, <1>9, <1>10

(* A step in which nothing happens.                                        *)
LEMMA StutterKeeps ==
  ASSUME IInv, UNCHANGED vars
  PROVE  IInv'
<1> USE DEF IInv
<1>1. UNCHANGED <<calls, state, answer, executed, server, gen, nextReqId, pending, timers,
                  mailbox, port, pipe, serving>>
  BY DEF vars, clientVars, serverVars, portVars
<1>2. /\ QueuedOnce' /\ Queued' = Queued /\ Answers' = Answers
      /\ Written' = Written /\ Served' = Served /\ WrittenOnce'
  BY <1>1, MailKept DEF Written, Served, WrittenOnce
<1>3. TypeInv'
  BY <1>1 DEF TypeInv
<1>4. DownInv'
  BY <1>1 DEF DownInv
<1>5. IdsInv' /\ PlaceInv'
  BY <1>1, <1>2, FewerKeeps
<1>6. EveryOpenCallIsHeld'
  BY <1>1, <1>2 DEF EveryOpenCallIsHeld, Current, Tags
<1> QED
  BY <1>2, <1>3, <1>4, <1>5, <1>6

(* Every step keeps the invariant.                                         *)
LEMMA NextKeeps == IInv /\ [Next]_vars => IInv'
<1> SUFFICES ASSUME IInv, [Next]_vars PROVE IInv'
  OBVIOUS
<1>1. ASSUME NEW c \in Client, Request(c) PROVE IInv'
  BY <1>1, RequestKeeps
<1>2. CASE Start
  BY <1>2, StartKeeps
<1>3. CASE ServerStep
  <2>1. CASE HandshakeOk
    BY <2>1, HandshakeOkKeeps
  <2>2. CASE HandshakeFails \/ CommandRaises \/ HandleExit
    BY <2>2, StopKeeps DEF HandshakeFails, CommandRaises, HandleExit
  <2>3. CASE HandleRequest
    BY <2>3, HandleRequestKeeps
  <2>4. CASE Deliver
    BY <2>4, DeliverKeeps
  <2>5. CASE HandleTimeout
    BY <2>5, HandleTimeoutKeeps
  <2> QED
    BY <1>3, <2>1, <2>2, <2>3, <2>4, <2>5 DEF ServerStep
<1>4. ASSUME NEW id \in timers, TimerFires(id) PROVE IInv'
  BY <1>4, TimerFiresKeeps
<1>5. CASE Killed
  BY <1>5, StopKeeps DEF Killed
<1>6. CASE PythonStep
  BY <1>6, ReadFrameKeeps, WriteFrameKeeps DEF PythonStep
<1>7. CASE StrayBytes
  BY <1>7, StrayBytesKeeps
<1>8. CASE PythonDies
  BY <1>8, PythonDiesKeeps
<1>9. CASE Done \/ UNCHANGED vars
  BY <1>9, StutterKeeps DEF Done
<1> QED
  BY <1>1, <1>2, <1>3, <1>4, <1>5, <1>6, <1>7, <1>8, <1>9 DEF Next

(* The invariant of the worker's server.                                   *)
LEMMA Invariant == Spec => []IInv
  BY InitIInv, NextKeeps, PTL DEF Spec

-----------------------------------------------------------------------------
(* Theorems.                                                               *)

(* Nobody waits in vain: whatever dies, hangs or is late, an open call is  *)
(* in the mailbox of a living server or in its pending map, and in one of  *)
(* them only (worker.ex: handle_call, fail_all, terminate).                *)
THEOREM OpenCallsAreHeld == Spec => []EveryOpenCallIsHeld
<1>1. IInv => EveryOpenCallIsHeld
  BY DEF IInv
<1> QED
  BY <1>1, Invariant, PTL

(* A frame with a pending id was computed for the call of that entry: an   *)
(* id is not given out again while a frame with it is under way            *)
(* (worker.ex: next_req_id in handle_call, deliver).                       *)
THEOREM FramesAreTheirCalls == Spec => []FramesMatch
<1>1. IInv => FramesMatch
  <2> SUFFICES ASSUME IInv, NEW p \in pending
               PROVE  /\ \A i \in DOMAIN pipe : pipe[i].id = p.id => pipe[i].tag = p.tag
                      /\ serving.busy /\ serving.id = p.id => serving.tag = p.tag
                      /\ \A i \in DOMAIN mailbox :
                           mailbox[i].kind \in {"data", "error"} /\ mailbox[i].id = p.id
                             => mailbox[i].tag = p.tag
    BY DEF FramesMatch
  <2>1. \A f \in Written \cup Served \cup Answers : f.id = p.id => f.tag = p.tag
    BY DEF IInv, IdsInv, Carried
  <2> QED
    BY <2>1 DEF Written, Served, Answers
<1> QED
  BY <1>1, Invariant, PTL

-----------------------------------------------------------------------------
(* The refinement of Rpc.                                                  *)

(* What a client knows: the answer of its last call, if it succeeded.      *)
Known == [c \in Client |-> IF state[c] = "ok" THEN answer[c] ELSE NoTag]

(* At the start no client has called.                                      *)
LEMMA InitRefines == Init => R!Init
<1> SUFFICES ASSUME Init PROVE R!Init
  OBVIOUS
<1>1. \A c \in Client : state[c] = "none"
  BY DEF Init
<1>2. R!Tag = Tag
  BY DEF R!Tag, Tag
<1> QED
  BY <1>1, <1>2 DEF Init, R!Init

(* The clients and what was carried out are as they were.                  *)
LEMMA QuietRefines ==
  ASSUME UNCHANGED <<calls, state, answer, executed>>
  PROVE  [R!Next]_R!rpcVars
  BY DEF R!rpcVars

(* A step that ends calls without an answer is their failure.              *)
LEMMA FailsRefines ==
  ASSUME TypeInv, Fails
  PROVE  [R!Next]_R!rpcVars
<1> DEFINE C == {c \in Client : state'[c] # state[c]}
<1>1. /\ \A c \in Client : \/ state'[c] = state[c]
                           \/ state[c] = "open" /\ state'[c] \in {"error", "exit"}
      /\ UNCHANGED <<calls, answer, executed>>
      /\ state \in [Client -> {"none", "open", "ok", "error", "exit"}]
      /\ state' \in [Client -> {"none", "open", "ok", "error", "exit"}]
  BY DEF Fails, Ends, TypeInv
<1>2. Known' = Known
  BY <1>1 DEF Known
<1>3. CASE C = {}
  <2>1. state' = state
    BY <1>1, <1>3
  <2> QED
    BY <1>1, <2>1, QuietRefines
<1>4. CASE C # {}
  <2>1. C \in SUBSET Client /\ \A c \in C : state[c] = "open"
    BY <1>1
  <2>2. PICK how : how = [c \in C |-> state'[c]]
    OBVIOUS
  <2>3. how \in [C -> {"error", "exit"}]
    BY <1>1, <2>2
  <2>4. state' = [c \in Client |-> IF c \in C THEN how[c] ELSE state[c]]
    BY <1>1, <2>2
  <2>5. R!Fail(C)
    BY <1>1, <1>2, <1>4, <2>1, <2>3, <2>4 DEF R!Fail, Known
  <2> QED
    BY <2>1, <2>5 DEF R!Next
<1> QED
  BY <1>3, <1>4

(* Worker.request/5 is the call.                                           *)
LEMMA RequestRefines ==
  ASSUME TypeInv, NEW c \in Client, Request(c)
  PROVE  R!Call(c)
<1>1. /\ state[c] # "open" /\ calls[c] < MaxCalls
      /\ calls' = [calls EXCEPT ![c] = calls[c] + 1] /\ state' = [state EXCEPT ![c] = "open"]
      /\ UNCHANGED <<answer, executed>>
  BY DEF Request
<1>2. Known' = [Known EXCEPT ![c] = NoTag]
  BY <1>1 DEF Known, TypeInv
<1> QED
  BY <1>1, <1>2 DEF R!Call, Known

(* Python carries a call out when it reads its frame.                      *)
LEMMA ReadFrameRefines ==
  ASSUME IInv, ReadFrame
  PROVE  [R!Next]_R!rpcVars
<1> PICK t : t = Head(pipe).tag
  OBVIOUS
<1>1. /\ pipe # <<>> /\ pipe' = Tail(pipe) /\ UNCHANGED <<calls, state, answer>>
      /\ executed' = [u \in Tag |-> IF u = t THEN executed[u] + 1 ELSE executed[u]]
  BY DEF ReadFrame, clientVars
<1>2. t \in Tags(Written)
  BY <1>1, FrameRead DEF IInv, Tags
<1>3. CASE t = NoTag
  <2>1. \A u \in Tag : executed'[u] = executed[u]
    BY <1>1, <1>3, NoTagIsNone
  <2>2. executed' = executed
    BY <1>1, <2>1 DEF IInv, TypeInv
  <2> QED
    BY <1>1, <2>2, QuietRefines
<1>4. CASE t # NoTag
  <2>1. Made(t) /\ executed[t] = 0
    BY <1>2, <1>4 DEF IInv, PlaceInv
  <2>2. PICK c \in Client, k \in 1 .. MaxCalls : t = <<c, k>>
    BY <2>1 DEF Made, Tag
  <2>3. k <= calls[c]
    BY <2>1, <2>2 DEF Made
  <2>4. executed' = [executed EXCEPT ![<<c, k>>] = 1]
    <3>1. t \in Tag /\ executed \in [Tag -> {0, 1}]
      BY <2>1 DEF Made, IInv, TypeInv
    <3>2. \A u \in Tag : executed'[u] = IF u = t THEN 1 ELSE executed[u]
      BY <1>1, <2>1
    <3>3. executed' = [executed EXCEPT ![t] = 1]
      BY <1>1, <3>1, <3>2
    <3> QED
      BY <2>2, <3>3
  <2>5. R!Execute(c, k)
    BY <1>1, <2>1, <2>2, <2>3, <2>4 DEF R!Execute
  <2> QED
    BY <2>2, <2>5 DEF R!Next
<1> QED
  BY <1>3, <1>4

(* An answer that finds its entry is the return of that call, which Python *)
(* has carried out; one that finds none changes nothing for the clients.   *)
LEMMA DeliverRefines ==
  ASSUME IInv, Deliver
  PROVE  [R!Next]_R!rpcVars
<1>1. /\ mailbox # <<>> /\ mailbox' = Tail(mailbox) /\ head.kind # "call" /\ IsAnswer(head)
      /\ state' = Settle(Tags(Entry(head.id)), IF head.kind = "data" THEN "ok" ELSE "error")
      /\ \A c \in Client : answer'[c] =
           IF head.kind = "data" /\ state[c] = "open" /\ Current(c) \in Tags(Entry(head.id))
           THEN head.tag ELSE answer[c]
      /\ answer' \in [Client -> Tag \cup {NoTag}] /\ answer \in [Client -> Tag \cup {NoTag}]
      /\ UNCHANGED <<calls, executed>>
  BY DeliverIs DEF IInv, TypeInv
<1>2. head \in Answers
  BY <1>1, HandledIs
<1>3. CASE head.kind # "data"
  <2>1. state' = Settle(Tags(Entry(head.id)), "error") /\ answer' = answer
    BY <1>1, <1>3
  <2>2. Ends({"error"})
    BY <2>1, SettleEnds DEF IInv
  <2>3. Fails
    BY <1>1, <2>1, <2>2 DEF Fails, Ends
  <2> QED
    BY <2>3, FailsRefines DEF IInv
<1>4. CASE /\ head.kind = "data"
           /\ \A c \in Client : state[c] = "open" => Current(c) \notin Tags(Entry(head.id))
  <2>1. state' = state
    BY <1>1, <1>4 DEF Settle, IInv, TypeInv
  <2>2. answer' = answer
    BY <1>1, <1>4
  <2> QED
    BY <1>1, <2>1, <2>2, QuietRefines
<1>5. ASSUME head.kind = "data", NEW c \in Client, state[c] = "open",
             Current(c) \in Tags(Entry(head.id))
      PROVE  R!Return(c)
  <2>1. PICK p \in pending : p.id = head.id /\ p.tag = Current(c)
    BY <1>5 DEF Tags, Entry
  <2>2. Tags(Entry(head.id)) = {Current(c)}
    BY <2>1 DEF Tags, Entry, IInv, IdsInv
  <2>3. head.tag = Current(c)
    BY <1>2, <2>1 DEF IInv, IdsInv, Carried
  <2>4. executed[Current(c)] = 1
    <3>1. head.tag = NoTag \/ executed[head.tag] = 1
      BY <1>2 DEF IInv, PlaceInv, Tags
    <3>2. p.tag \in Tag
      BY DEF IInv, TypeInv
    <3>3. p.tag # NoTag
      BY <3>2 DEF Tag
    <3> QED
      BY <2>1, <2>3, <3>1, <3>3
  <2>5. \A d \in Client : d # c => Current(d) # Current(c)
    BY DEF Current
  <2>6. state' = [state EXCEPT ![c] = "ok"]
    BY <1>1, <1>5, <2>2, <2>5 DEF Settle, IInv, TypeInv
  <2>7. Known' = [Known EXCEPT ![c] = Current(c)]
    <3>1. \A d \in Client : answer'[d] = IF d = c THEN Current(c) ELSE answer[d]
      BY <1>1, <1>5, <2>2, <2>3, <2>5
    <3> QED
      BY <2>6, <3>1 DEF Known, IInv, TypeInv
  <2>8. R!Current(c) = Current(c)
    BY DEF Current, R!Current
  <2> QED
    BY <1>1, <1>5, <2>4, <2>6, <2>7, <2>8 DEF R!Return, Known
<1> QED
  BY <1>3, <1>4, <1>5 DEF R!Next

(* Every step of the machinery is a step of the call or none of it.        *)
LEMMA NextRefines == IInv /\ [Next]_vars => [R!Next]_R!rpcVars
<1> SUFFICES ASSUME IInv, [Next]_vars PROVE [R!Next]_R!rpcVars
  OBVIOUS
<1> TypeInv
  BY DEF IInv
<1>1. ASSUME NEW c \in Client, Request(c) PROVE [R!Next]_R!rpcVars
  BY <1>1, RequestRefines DEF R!Next
<1>2. CASE Start \/ HandshakeOk \/ HandleRequest
  <2>1. UNCHANGED <<calls, state, answer, executed>>
    BY <1>2 DEF Start, HandshakeOk, HandleRequest, clientVars
  <2> QED
    BY <2>1, QuietRefines
<1>3. CASE HandshakeFails \/ CommandRaises \/ HandleExit \/ Killed
  <2>1. Fails
    BY <1>3, AllSettled DEF HandshakeFails, CommandRaises, HandleExit, Killed
  <2> QED
    BY <2>1, FailsRefines
<1>4. CASE Deliver
  BY <1>4, DeliverRefines
<1>5. CASE HandleTimeout
  <2>1. Ends({"error"}) /\ UNCHANGED <<calls, answer, executed>>
    BY <1>5, HandleTimeoutIs, SettleEnds
  <2>2. Fails
    BY <2>1 DEF Fails, Ends
  <2> QED
    BY <2>2, FailsRefines
<1>6. ASSUME NEW id \in timers, TimerFires(id) PROVE [R!Next]_R!rpcVars
  BY <1>6, QuietRefines DEF TimerFires, clientVars
<1>7. CASE ReadFrame
  BY <1>7, ReadFrameRefines
<1>8. CASE WriteFrame("data") \/ WriteFrame("error") \/ StrayBytes \/ PythonDies
  BY <1>8, QuietRefines DEF WriteFrame, StrayBytes, PythonDies, clientVars
<1>9. CASE Done \/ UNCHANGED vars
  BY <1>9, QuietRefines DEF Done, vars, clientVars
<1> QED
  BY <1>1, <1>2, <1>3, <1>4, <1>5, <1>6, <1>7, <1>8, <1>9
  DEF Next, ServerStep, PythonStep

(* The whole machinery implements the abstract call: a client that gets an *)
(* answer gets the one computed for its own, current call, which has been  *)
(* carried out, and no call is carried out twice, whatever dies, hangs or  *)
(* is late (worker.ex: request, handle_call, deliver, fail_all).           *)
THEOREM PortImplementsRpc == Spec => ImplementsRpc
  BY Invariant, InitRefines, NextRefines, PTL DEF Spec, ImplementsRpc, R!Spec

=============================================================================
