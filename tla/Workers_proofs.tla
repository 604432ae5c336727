--------------------------- MODULE Workers_proofs ---------------------------
(***************************************************************************)
(* Proofs about Workers: one id per worker name, and that a buffer nobody   *)
(* can release any more is one whose release was lost by an exit or between *)
(* the two rows of its worker's id.                                         *)
(***************************************************************************)
EXTENDS Workers, TLAPS

Buffer == [name : Names, gen : Nat, handle : Nat]
Reference == [id : Nat, buffer : Buffer]

TypeInv ==
  /\ children \subseteq Names
  /\ worker \in [Names -> [state : {"none", "starting", "running", "dead"},
                           gen : Nat, next : Nat]]
  /\ nextGen \in Nat /\ nextId \in Nat
  /\ resident \subseteq Buffer
  /\ proc \in [Procs -> [pc : {"free", "built", "label", "assign", "taken"}, id : Nat, buffer : Buffer]]
  /\ live \subseteq Reference /\ queue \subseteq Reference
  /\ reaper \in [stage : {"asleep", "next", "ask", "send"}, group : SUBSET Reference,
                 pending : SUBSET Reference, current : Nat]

\* A row of a name was made from the counter, and the row of an id is its converse.
RowsInv ==
  /\ \A n \in DOMAIN idOf : n \in Names /\ idOf[n] \in Nat /\ idOf[n] < nextId
  /\ \A n, m \in DOMAIN idOf : idOf[n] = idOf[m] => n = m
  /\ \A id \in DOMAIN nameOf : nameOf[id] \in DOMAIN idOf /\ idOf[nameOf[id]] = id

\* The reference r carries its worker's id.
Labelled(r) == r.buffer.name \in DOMAIN idOf /\ r.id = idOf[r.buffer.name]
RefsInv ==
  /\ \A r \in live \cup queue : Labelled(r)
  /\ \A r \in reaper.pending \cup reaper.group : Labelled(r)

\* The server half through an assignment has the first row of its name in the table.
AssigningInv ==
  \A p \in Procs : assigning = p =>
    proc[p].pc = "assign" /\ Labelled([id |-> proc[p].id, buffer |-> proc[p].buffer])

\* An incarnation is never newer than its worker, which is older than the next one;
\* a worker that holds buffers runs, and they are all of its incarnation.
Known(b) == b.gen <= worker[b.name].gen
GensInv ==
  /\ \A n \in Names : worker[n].gen < nextGen /\ (Running(n) => n \in children)
  /\ \A b \in resident : Running(b.name) /\ b.gen = worker[b.name].gen
  /\ \A r \in live \cup queue : Known(r.buffer)
  /\ \A r \in reaper.pending \cup reaper.group : Known(r.buffer)
  /\ \A p \in Procs : Known(proc[p].buffer)

\* What the reaper works on is one worker's, and no newer than the generation it was told.
ReaperInv ==
  /\ reaper.stage \in {"asleep", "next"} => reaper.group = {}
  /\ reaper.stage = "asleep" => reaper.pending = {}
  /\ reaper.stage \in {"ask", "send"} => reaper.group # {}
  /\ \A r, q \in reaper.group : r.id = q.id /\ r.id \in DOMAIN nameOf
  /\ reaper.stage = "send" => \A r \in reaper.group :
       r.buffer.gen <= reaper.current /\ reaper.current <= worker[r.buffer.name].gen

\* Somebody still has the buffer to release.
InHand(b) ==
  \/ \E r \in live \cup queue : r.buffer = b
  \/ \E r \in reaper.pending \cup reaper.group : r.buffer = b
  \/ \E p \in Procs : proc[p].pc # "free" /\ proc[p].buffer = b
KeptInv == \A b \in resident : b \in lost \/ InHand(b)

IdInv == TypeInv /\ RowsInv /\ RefsInv /\ AssigningInv
IInv == IdInv /\ GensInv /\ ReaperInv /\ KeptInv

USE NamesAndProcs


\* Before any worker is started every part of the invariant holds.
LEMMA InitIInv == Init => IInv
<1> SUFFICES ASSUME Init PROVE IInv
  OBVIOUS
<1> USE DEF Init
<1>1. Free \in [pc : {"free", "built", "label", "assign", "taken"}, id : Nat, buffer : Buffer]
  BY DEF Free, Buffer
<1>2. TypeInv
  BY <1>1 DEF TypeInv, Asleep
<1>3. RowsInv /\ RefsInv /\ ReaperInv /\ KeptInv
  BY DEF RowsInv, RefsInv, ReaperInv, KeptInv, Asleep
<1>4. AssigningInv
  BY DEF AssigningInv
<1>5. GensInv
  BY <1>1 DEF GensInv, Asleep, Running, Known, Free
<1> QED
  BY <1>2, <1>3, <1>4, <1>5 DEF IInv, IdInv

-----------------------------------------------------------------------------
(* Types *)

\* A process between two operations is well-typed.
LEMMA FreeType == Free \in [pc : {"free", "built", "label", "assign", "taken"}, id : Nat, buffer : Buffer]
  BY DEF Free, Buffer

\* What a process becomes the owner of is a reference.
LEMMA OwnType ==
  ASSUME TypeInv, NEW p \in Procs, NEW id \in Nat, Own(p, id)
  PROVE  /\ live' \subseteq Reference
         /\ proc' \in [Procs -> [pc : {"free", "built", "label", "assign", "taken"}, id : Nat,
                                 buffer : Buffer]]
<1>1. [id |-> id, buffer |-> proc[p].buffer] \in Reference
  BY DEF TypeInv, Reference
<1> QED
  BY <1>1, FreeType DEF TypeInv, Own

\* The group the reaper works on has a worker's name, and its ids are that name's.
LEMMA GroupNameIs ==
  ASSUME TypeInv, RowsInv, ReaperInv, reaper.stage \in {"ask", "send"}
  PROVE  /\ GroupName \in DOMAIN idOf /\ GroupName \in Names
         /\ \A r \in reaper.group : r.id = idOf[GroupName]
<1>1. (CHOOSE r \in reaper.group : TRUE) \in reaper.group
  BY DEF ReaperInv
<1> QED
  BY <1>1 DEF GroupName, ReaperInv, RowsInv

\* What release_group does with the references of the lowest id.
LEMMA NextGroupIs ==
  ASSUME TypeInv, NextGroup
  PROVE  /\ reaper.stage = "next"
         /\ reaper' \in [stage : {"ask", "next"}, group : SUBSET Reference,
                         pending : SUBSET Reference, current : Nat]
         /\ reaper'.pending = reaper.pending \ First
         /\ reaper'.stage = "next" => reaper'.group = {}
         /\ \E one \in First :
              IF one.id \in DOMAIN nameOf
              THEN /\ lost' = lost
                   /\ \/ reaper'.stage = "ask" /\ reaper'.group = First
                      \/ reaper'.stage = "next" /\ ~Registered(nameOf[one.id])
              ELSE /\ lost' = (lost \cup Buffers(First)) \cap resident
                   /\ reaper'.stage = "next"
<1>1. First \subseteq reaper.pending /\ reaper.pending \subseteq Reference
  BY DEF First, TypeInv
<1>2. PICK one \in First :
        LET found == one.id \in DOMAIN nameOf /\ Registered(nameOf[one.id])
        IN  /\ reaper.stage = "next"
            /\ reaper' = [reaper EXCEPT !.stage = IF found THEN "ask" ELSE "next",
                                        !.group = IF found THEN First ELSE {},
                                        !.pending = reaper.pending \ First]
            /\ lost' = IF one.id \in DOMAIN nameOf THEN lost
                       ELSE (lost \cup Buffers(First)) \cap resident
  BY <1>1 DEF NextGroup, Group, TypeInv
<1> HIDE DEF First
<1>3. CASE one.id \in DOMAIN nameOf /\ Registered(nameOf[one.id])
  BY <1>1, <1>2, <1>3 DEF TypeInv
<1>4. CASE ~(one.id \in DOMAIN nameOf /\ Registered(nameOf[one.id]))
  BY <1>1, <1>2, <1>4 DEF TypeInv
<1> QED
  BY <1>3, <1>4

\* Every step keeps the types.
LEMMA TypeStep == TypeInv /\ RowsInv /\ ReaperInv /\ [Next]_vars => TypeInv'
<1> SUFFICES ASSUME TypeInv, RowsInv, ReaperInv, [Next]_vars PROVE TypeInv'
  OBVIOUS
<1> USE DEF TypeInv, supervisorVars, bufferVars, idVars, refVars
<1>1. ASSUME NEW n \in Names, StartWorker(n) \/ Restart(n) PROVE TypeInv'
  BY <1>1 DEF StartWorker, Restart, Start
<1>2. ASSUME NEW n \in Names, HandshakeEnds(n) \/ Crash(n) PROVE TypeInv'
  BY <1>2 DEF HandshakeEnds, Crash, Without
<1>3. CASE PeriodPasses \/ GiveUp
  BY <1>3 DEF PeriodPasses, GiveUp
<1>4. ASSUME NEW p \in Procs, NEW n \in Names, Upload(p, n) PROVE TypeInv'
  <2> DEFINE b == [name |-> n, gen |-> worker[n].gen, handle |-> worker[n].next]
  <2>1. b \in Buffer
    BY DEF Buffer
  <2>2. [Free EXCEPT !.pc = "built", !.buffer = b]
          \in [pc : {"free", "built", "label", "assign", "taken"}, id : Nat, buffer : Buffer]
    BY <2>1, FreeType
  <2> HIDE DEF b
  <2> QED
    BY <1>4, <2>1, <2>2 DEF Upload, b
<1>5. ASSUME NEW p \in Procs, LookUp(p) PROVE TypeInv'
  BY SMTT(30), <1>5, OwnType DEF LookUp, RowsInv
<1>6. ASSUME NEW p \in Procs, Assign(p) PROVE TypeInv'
  <2>1. CASE proc[p].buffer.name \in DOMAIN idOf
    BY <1>6, <2>1, OwnType DEF Assign, RowsInv
  <2>2. CASE FirstRow(p)
    BY <1>6, <2>2 DEF Assign, FirstRow
  <2> QED
    BY <1>6, <2>1, <2>2 DEF Assign
<1>7. ASSUME NEW p \in Procs, SecondRow(p) PROVE TypeInv'
  BY <1>7, OwnType DEF SecondRow
<1>8. ASSUME NEW r \in live, Drop(r) PROVE TypeInv'
  BY <1>8 DEF Drop
<1>9. ASSUME NEW p \in Procs, NEW r \in live, Deallocate(p, r) PROVE TypeInv'
  BY <1>9 DEF Deallocate, Reference
<1>10. ASSUME NEW p \in Procs, DeallocateEnds(p) PROVE TypeInv'
  BY <1>10, FreeType DEF DeallocateEnds
<1>17. ASSUME NEW p \in Procs, Build(p) PROVE TypeInv'
  BY SMTT(30), <1>17, FreeType DEF Build
<1>11. CASE Tick
  BY <1>11 DEF Tick, Asleep
<1>12. CASE NextGroup
  BY <1>12, NextGroupIs DEF NextGroup, Group
<1>13. CASE Ask
  <2>1. GroupName \in Names
    BY <1>13, GroupNameIs DEF Ask
  <2> QED
    BY <1>13, <2>1 DEF Ask
<1>14. CASE Send
  BY <1>14 DEF Send
<1>15. CASE Done \/ ReaperExits
  BY <1>15 DEF Done, ReaperExits, Asleep
<1>16. CASE UNCHANGED vars
  BY <1>16 DEF vars
<1> QED
  BY <1>1, <1>2, <1>3, <1>4, <1>5, <1>6, <1>7, <1>8, <1>9, <1>10, <1>11, <1>12, <1>13, <1>14,
     <1>15, <1>16, <1>17 DEF Next

-----------------------------------------------------------------------------
(* The id table *)

\* Actions that leave the table alone keep every label.
LEMMA TableAlone ==
  ASSUME IdInv, UNCHANGED idVars
  PROVE  RowsInv' /\ (\A r : Labelled(r) => Labelled(r)')
  BY DEF IdInv, RowsInv, idVars, Labelled

\* A new row of a name keeps the others.
LEMMA FirstRowIs ==
  ASSUME IdInv, NEW p \in Procs, FirstRow(p), proc[p].buffer.name \notin DOMAIN idOf
  PROVE  /\ RowsInv'
         /\ \A r : Labelled(r) => Labelled(r)'
         /\ proc[p].buffer.name \in DOMAIN idOf' /\ idOf'[proc[p].buffer.name] = nextId
         /\ proc'[p] = [proc[p] EXCEPT !.id = nextId]
<1>1. proc[p].buffer.name \in Names
  BY DEF IdInv, TypeInv, Buffer
<1>2. /\ DOMAIN idOf' = DOMAIN idOf \cup {proc[p].buffer.name}
      /\ \A n \in DOMAIN idOf : idOf'[n] = idOf[n]
      /\ idOf'[proc[p].buffer.name] = nextId
  BY DEF FirstRow, Inserted
<1>3. RowsInv'
  BY <1>1, <1>2 DEF FirstRow, IdInv, RowsInv, TypeInv
<1>4. proc'[p] = [proc[p] EXCEPT !.id = nextId]
  BY DEF FirstRow, IdInv, TypeInv
<1> QED
  BY <1>2, <1>3, <1>4 DEF Labelled

\* The row of the id is the converse of the row its server inserted before.
LEMMA SecondRowIs ==
  ASSUME IdInv, NEW p \in Procs, SecondRow(p)
  PROVE  RowsInv' /\ (\A r : Labelled(r) => Labelled(r)')
<1>1. /\ proc[p].buffer.name \in DOMAIN idOf
      /\ proc[p].id = idOf[proc[p].buffer.name]
  BY DEF SecondRow, IdInv, AssigningInv, Labelled
<1>2. /\ DOMAIN nameOf' = DOMAIN nameOf \cup {proc[p].id}
      /\ \A id \in DOMAIN nameOf' :
           nameOf'[id] = IF id = proc[p].id THEN proc[p].buffer.name ELSE nameOf[id]
  BY DEF SecondRow, Inserted
<1> QED
  BY <1>1, <1>2 DEF SecondRow, IdInv, RowsInv, Labelled

\* The process that takes ownership adds one labelled reference.
LEMMA OwnLabelled ==
  ASSUME IdInv, NEW p \in Procs, NEW id, Own(p, id),
         Labelled([id |-> id, buffer |-> proc[p].buffer]),
         \A r : Labelled(r) => Labelled(r)', queue' = queue
  PROVE  \A r \in live' \cup queue' : Labelled(r)'
  BY DEF IdInv, RefsInv, Own

\* The reaper works on references it had or took from the queue.
ReaperKeeps ==
  /\ queue' \subseteq queue
  /\ reaper'.pending \subseteq reaper.pending \cup queue
  /\ reaper'.group \subseteq reaper.pending \cup reaper.group

\* What the reaper holds after a step it had before, or drained.
LEMMA ReaperMoves ==
  ASSUME IdInv, Tick \/ NextGroup \/ Ask \/ Send \/ Done \/ ReaperExits
  PROVE  ReaperKeeps
<1> USE DEF refVars, ReaperKeeps
<1>1. CASE NextGroup
  <2>1. \/ reaper'.group = {} \/ reaper'.group = First
    BY <1>1, NextGroupIs DEF IdInv
  <2>2. First \subseteq reaper.pending /\ reaper'.pending = reaper.pending \ First
    BY <1>1, NextGroupIs DEF IdInv, First
  <2>3. queue' = queue
    BY <1>1 DEF NextGroup, Group
  <2> QED
    BY <2>1, <2>2, <2>3
<1>2. CASE Tick
  <2>1. reaper'.pending = queue /\ reaper'.group = {} /\ queue' = {}
    BY <1>2 DEF Tick, Asleep
  <2> QED
    BY <2>1
<1>3. CASE Done \/ ReaperExits
  <2>1. reaper'.pending = {} /\ reaper'.group = {} /\ queue' = queue
    BY <1>3 DEF Done, ReaperExits, Asleep
  <2> QED
    BY <2>1
<1>4. CASE Ask \/ Send
  BY <1>4 DEF Ask, Send, IdInv, TypeInv
<1> QED
  BY <1>1, <1>2, <1>3, <1>4

\* Every step keeps the table one-to-one and the references labelled.
LEMMA IdsStep == IdInv /\ ReaperInv /\ [Next]_vars => IdInv'
<1> SUFFICES ASSUME IdInv, ReaperInv, [Next]_vars PROVE RowsInv' /\ RefsInv' /\ AssigningInv'
  BY TypeStep DEF IdInv
<1> USE DEF supervisorVars, bufferVars, refVars
<1>1. CASE \/ \E n \in Names : StartWorker(n) \/ HandshakeEnds(n) \/ Crash(n) \/ Restart(n)
           \/ PeriodPasses \/ GiveUp \/ UNCHANGED vars
  <2>1. UNCHANGED <<idVars, refVars, reaper>>
    BY <1>1 DEF StartWorker, HandshakeEnds, Crash, Restart, PeriodPasses, GiveUp, vars
  <2> QED
    BY <2>1, TableAlone DEF IdInv, RefsInv, AssigningInv, idVars
<1>2. ASSUME NEW p \in Procs, NEW n \in Names, Upload(p, n) PROVE RowsInv' /\ RefsInv' /\ AssigningInv'
  <2>1. UNCHANGED <<idVars, live, queue, reaper>> /\ \A q \in Procs \ {p} : proc'[q] = proc[q]
    BY <1>2 DEF Upload, IdInv, TypeInv
  <2>2. assigning # p
    BY <1>2 DEF Upload, IdInv, AssigningInv
  <2> QED
    BY <2>1, <2>2, TableAlone DEF IdInv, RefsInv, AssigningInv, idVars
<1>3. ASSUME NEW p \in Procs, LookUp(p) PROVE RowsInv' /\ RefsInv' /\ AssigningInv'
  <2>1. /\ UNCHANGED <<idVars, queue, reaper>> /\ \A q \in Procs \ {p} : proc'[q] = proc[q]
        /\ assigning # p
    BY <1>3 DEF LookUp, Own, IdInv, TypeInv, AssigningInv
  <2>2. RowsInv' /\ AssigningInv' /\ \A r : Labelled(r) => Labelled(r)'
    BY <2>1, TableAlone DEF IdInv, AssigningInv, idVars
  <2>3. \A r \in live' \cup queue' : Labelled(r)'
    <3>1. CASE proc[p].buffer.name \in DOMAIN idOf
      BY <1>3, <2>1, <2>2, <3>1, OwnLabelled DEF LookUp, Labelled
    <3>2. CASE proc[p].buffer.name \notin DOMAIN idOf
      BY <1>3, <2>1, <2>2, <3>2 DEF LookUp, IdInv, RefsInv
    <3> QED
      BY <3>1, <3>2
  <2> QED
    BY <2>1, <2>2, <2>3 DEF IdInv, RefsInv
<1>4. ASSUME NEW p \in Procs, Assign(p) PROVE RowsInv' /\ RefsInv' /\ AssigningInv'
  <2>1. CASE proc[p].buffer.name \in DOMAIN idOf
    <3>1. /\ Own(p, idOf[proc[p].buffer.name]) /\ UNCHANGED <<idVars, queue, reaper>>
          /\ assigning' \notin Procs
      BY <1>4, <2>1 DEF Assign, idVars
    <3>2. RowsInv' /\ AssigningInv' /\ \A r : Labelled(r) => Labelled(r)'
      BY <3>1, TableAlone DEF AssigningInv
    <3>3. \A r \in live' \cup queue' : Labelled(r)'
      BY <2>1, <3>1, <3>2, OwnLabelled DEF Labelled
    <3> QED
      BY <3>1, <3>2, <3>3 DEF IdInv, RefsInv
  <2>2. CASE proc[p].buffer.name \notin DOMAIN idOf
    <3>1. FirstRow(p) /\ UNCHANGED <<queue, reaper>>
      BY <1>4, <2>2 DEF Assign
    <3>2. /\ RowsInv' /\ \A r : Labelled(r) => Labelled(r)'
          /\ proc[p].buffer.name \in DOMAIN idOf' /\ idOf'[proc[p].buffer.name] = nextId
          /\ proc'[p] = [proc[p] EXCEPT !.id = nextId]
      BY <2>2, <3>1, FirstRowIs
    <3>3. AssigningInv'
      <4> SUFFICES proc'[p].pc = "assign"
                   /\ Labelled([id |-> proc[p].id, buffer |-> proc[p].buffer])'
        BY <3>1 DEF AssigningInv, FirstRow
      <4> QED
        BY <1>4, <3>2 DEF IdInv, TypeInv, Assign, Labelled
    <3> QED
      BY <3>1, <3>2, <3>3 DEF IdInv, RefsInv, FirstRow
  <2> QED
    BY <2>1, <2>2
<1>5. ASSUME NEW p \in Procs, SecondRow(p) PROVE RowsInv' /\ RefsInv' /\ AssigningInv'
  <2>1. RowsInv' /\ \A r : Labelled(r) => Labelled(r)'
    BY <1>5, SecondRowIs
  <2>2. Own(p, proc[p].id) /\ Labelled([id |-> proc[p].id, buffer |-> proc[p].buffer])
    BY <1>5 DEF SecondRow, IdInv, AssigningInv
  <2>3. UNCHANGED <<queue, reaper>> /\ AssigningInv'
    BY <1>5 DEF SecondRow, AssigningInv
  <2>4. \A r \in live' \cup queue' : Labelled(r)'
    BY <2>1, <2>2, <2>3, OwnLabelled
  <2> QED
    BY <2>1, <2>3, <2>4 DEF IdInv, RefsInv
<1>6. ASSUME NEW r \in live, Drop(r) PROVE RowsInv' /\ RefsInv' /\ AssigningInv'
  BY <1>6, TableAlone DEF Drop, IdInv, RefsInv, AssigningInv, idVars
<1>7. ASSUME NEW p \in Procs, NEW r \in live, Deallocate(p, r)
      PROVE RowsInv' /\ RefsInv' /\ AssigningInv'
  <2>1. /\ UNCHANGED <<idVars, queue, reaper>> /\ live' \subseteq live /\ assigning # p
        /\ \A q \in Procs \ {p} : proc'[q] = proc[q]
    BY <1>7 DEF Deallocate, IdInv, TypeInv, AssigningInv
  <2> QED
    BY <2>1, TableAlone DEF IdInv, RefsInv, AssigningInv, idVars
<1>8. ASSUME NEW p \in Procs, DeallocateEnds(p) \/ Build(p)
      PROVE RowsInv' /\ RefsInv' /\ AssigningInv'
  <2>1. /\ UNCHANGED <<idVars, live, queue, reaper>> /\ assigning # p
        /\ \A q \in Procs \ {p} : proc'[q] = proc[q]
    BY <1>8 DEF DeallocateEnds, Build, IdInv, TypeInv, AssigningInv
  <2> QED
    BY <2>1, TableAlone DEF IdInv, RefsInv, AssigningInv, idVars
<1>9. CASE Tick \/ NextGroup \/ Ask \/ Send \/ Done \/ ReaperExits
  <2>1. UNCHANGED <<idVars, proc, live>> /\ queue' \subseteq queue
    BY <1>9 DEF Tick, NextGroup, Group, Ask, Send, Done, ReaperExits
  <2>2. ReaperKeeps
    BY <1>9, ReaperMoves
  <2> QED
    BY <2>1, <2>2, TableAlone DEF IdInv, RefsInv, AssigningInv, idVars, ReaperKeeps
<1> QED
  BY <1>1, <1>2, <1>3, <1>4, <1>5, <1>6, <1>7, <1>8, <1>9 DEF Next

-----------------------------------------------------------------------------
(* Incarnations *)

\* A worker that is started again is newer than all there was and holds nothing.
LEMMA StartKeepsGens ==
  ASSUME IdInv, GensInv, NEW n \in Names, Start(n), ~Running(n),
         UNCHANGED <<children, resident, proc, live, queue, reaper>>
  PROVE  GensInv' /\ \A b \in Buffer : Known(b) => Known(b)'
<1>1. /\ worker' \in [Names -> [state : {"none", "starting", "running", "dead"},
                                gen : Nat, next : Nat]]
      /\ worker'[n].gen = nextGen /\ worker'[n].state = "starting" /\ nextGen' = nextGen + 1
      /\ \A m \in Names \ {n} : worker'[m] = worker[m]
      /\ nextGen \in Nat
  BY DEF Start, IdInv, TypeInv
<1>2. \A m \in Names : worker[m].gen <= worker'[m].gen /\ worker[m].gen \in Nat
  BY <1>1 DEF IdInv, TypeInv, GensInv
<1>3. \A b \in Buffer : Known(b) => Known(b)'
  BY <1>1, <1>2 DEF Known, Buffer
<1>4. \A m \in Names : worker'[m].gen < nextGen' /\ (Running(m)' => m \in children')
  BY <1>1 DEF GensInv, Running, IdInv, TypeInv
<1>5. \A b \in resident' : Running(b.name)' /\ b.gen = worker'[b.name].gen
  BY <1>1 DEF GensInv, Running, IdInv, TypeInv, Buffer
<1> QED
  BY <1>3, <1>4, <1>5 DEF GensInv, IdInv, TypeInv, Reference

\* A name's worker is never replaced by an older incarnation.
LEMMA OlderNever ==
  ASSUME IdInv, GensInv, [Next]_vars
  PROVE  \A n \in Names : /\ worker[n].gen \in Nat /\ worker'[n].gen \in Nat
                          /\ worker[n].gen <= worker'[n].gen
<1> USE DEF supervisorVars
<1>1. /\ nextGen \in Nat
      /\ worker \in [Names -> [state : {"none", "starting", "running", "dead"},
                               gen : Nat, next : Nat]]
      /\ \A n \in Names : worker[n].gen \in Nat /\ worker[n].gen < nextGen
  BY DEF GensInv, IdInv, TypeInv
<1>2. ASSUME NEW n \in Names, Start(n)
      PROVE  \A m \in Names : worker'[m].gen = IF m = n THEN nextGen ELSE worker[m].gen
  BY <1>1, <1>2 DEF Start
<1>3. CASE \E n \in Names : Start(n)
  BY <1>1, <1>2, <1>3
<1>4. ASSUME NEW n \in Names, HandshakeEnds(n)
      PROVE  \A m \in Names : worker'[m].gen = worker[m].gen
  <2>1. \E state : worker' = [worker EXCEPT ![n].state = state]
    BY <1>4 DEF HandshakeEnds
  <2> QED
    BY <1>1, <2>1
<1>5. ASSUME NEW n \in Names, Crash(n)
      PROVE  \A m \in Names : worker'[m].gen = worker[m].gen
  <2>1. worker' = [worker EXCEPT ![n].state = "dead"]
    BY <1>5 DEF Crash
  <2> QED
    BY <1>1, <2>1
<1>6. ASSUME NEW p \in Procs, NEW n \in Names, Upload(p, n)
      PROVE  \A m \in Names : worker'[m].gen = worker[m].gen
  <2>1. worker' = [worker EXCEPT ![n].next = @ + 1]
    BY <1>6 DEF Upload
  <2> QED
    BY <1>1, <2>1
<1>7. ASSUME GiveUp
      PROVE  \A m \in Names : worker'[m].gen = worker[m].gen
  <2>1. worker' = [m \in Names |-> [worker[m] EXCEPT !.state = "none"]]
    BY <1>7 DEF GiveUp
  <2> QED
    BY <1>1, <2>1
<1>8. CASE worker' = worker
  BY <1>1, <1>8
<1>9. CASE \A m \in Names : worker'[m].gen = worker[m].gen
  BY <1>1, <1>9
<1>10. \/ \E n \in Names : Start(n) \/ HandshakeEnds(n) \/ Crash(n)
       \/ \E p \in Procs, n \in Names : Upload(p, n)
       \/ GiveUp \/ worker' = worker
  <2>1. ASSUME NEW n \in Names, StartWorker(n) \/ Restart(n) PROVE Start(n)
    BY <2>1 DEF StartWorker, Restart
  <2>2. ASSUME NEW p \in Procs, Build(p) \/ LookUp(p) \/ Assign(p) \/ SecondRow(p)
                               \/ DeallocateEnds(p)
        PROVE  worker' = worker
    BY <2>2 DEF Build, LookUp, Assign, SecondRow, DeallocateEnds
  <2>3. ASSUME NEW r \in live, Drop(r) \/ \E p \in Procs : Deallocate(p, r)
        PROVE  worker' = worker
    BY <2>3 DEF Drop, Deallocate
  <2>4. CASE PeriodPasses \/ Tick \/ NextGroup \/ Ask \/ Send \/ Done \/ ReaperExits
    BY <2>4 DEF PeriodPasses, Tick, NextGroup, Group, Ask, Send, Done, ReaperExits
  <2>5. CASE UNCHANGED vars
    BY <2>5 DEF vars
  <2> QED
    BY <2>1, <2>2, <2>3, <2>4, <2>5 DEF Next
<1> QED
  BY <1>3, <1>4, <1>5, <1>6, <1>7, <1>8, <1>9, <1>10

\* Every step keeps incarnations in order and the workers' buffers their own.
LEMMA GensStep == IdInv /\ GensInv /\ ReaperInv /\ [Next]_vars => GensInv'
<1> SUFFICES ASSUME IdInv, GensInv, ReaperInv, [Next]_vars PROVE GensInv'
  OBVIOUS
<1> USE DEF supervisorVars, bufferVars, idVars, refVars
<1>1. ASSUME NEW n \in Names, StartWorker(n) PROVE GensInv'
  BY <1>1, StartKeepsGens DEF StartWorker, GensInv
<1>2. ASSUME NEW n \in Names, Restart(n) PROVE GensInv'
  BY <1>2, StartKeepsGens DEF Restart, Running
<1>3. ASSUME NEW n \in Names, HandshakeEnds(n) \/ Crash(n) PROVE GensInv'
  <2>1. /\ \A m \in Names \ {n} : worker'[m] = worker[m]
        /\ worker'[n].gen = worker[n].gen
        /\ worker'[n].state = "running" => n \in children'
        /\ children \subseteq children'
        /\ resident' \subseteq resident
        /\ UNCHANGED <<nextGen, proc, live, queue, reaper>>
    BY <1>3 DEF HandshakeEnds, Crash, IdInv, TypeInv, Without
  <2>2. \A b \in resident' : b.name # n
    BY <1>3 DEF HandshakeEnds, Crash, GensInv, Running, Without
  <2>3. \A b \in Buffer : Known(b) => Known(b)'
    BY <2>1 DEF Known, Buffer
  <2>4. \A m \in Names : worker'[m].gen < nextGen' /\ (Running(m)' => m \in children')
    BY <2>1 DEF GensInv, Running
  <2>5. \A b \in resident' : Running(b.name)' /\ b.gen = worker'[b.name].gen
    BY <2>1, <2>2 DEF GensInv, Running, IdInv, TypeInv, Buffer
  <2> QED
    BY <2>1, <2>3, <2>4, <2>5 DEF GensInv, IdInv, TypeInv, Reference
<1>4. CASE GiveUp
  <2>1. /\ \A m \in Names : worker'[m].gen = worker[m].gen /\ worker'[m].state = "none"
        /\ resident' = {} /\ UNCHANGED <<nextGen, proc, live, queue, reaper>>
    BY <1>4 DEF GiveUp, IdInv, TypeInv
  <2>2. \A b \in Buffer : Known(b) => Known(b)'
    BY <2>1 DEF Known, Buffer
  <2> QED
    BY <2>1, <2>2 DEF GensInv, Running, IdInv, TypeInv, Reference
<1>5. ASSUME NEW p \in Procs, NEW n \in Names, Upload(p, n) PROVE GensInv'
  <2> DEFINE b == [name |-> n, gen |-> worker[n].gen, handle |-> worker[n].next]
  <2>1. /\ \A m \in Names : worker'[m].gen = worker[m].gen /\ worker'[m].state = worker[m].state
        /\ resident' = resident \cup {b} /\ proc'[p].buffer = b /\ Running(n)
        /\ \A q \in Procs \ {p} : proc'[q] = proc[q]
        /\ UNCHANGED <<children, nextGen, live, queue, reaper>>
    BY <1>5 DEF Upload, IdInv, TypeInv, Free
  <2>2. b \in Buffer /\ worker[n].gen \in Nat
    BY DEF IdInv, TypeInv, Buffer
  <2>3. \A c \in Buffer : Known(c) => Known(c)'
    BY <2>1 DEF Known, Buffer
  <2>4. \A c \in resident' : Running(c.name)' /\ c.gen = worker'[c.name].gen
    BY <2>1, <2>2 DEF GensInv, Running, IdInv, TypeInv, Buffer
  <2>5. \A q \in Procs : Known(proc[q].buffer)'
    BY <2>1, <2>2, <2>3 DEF GensInv, Known, IdInv, TypeInv
  <2>6. \A m \in Names : worker'[m].gen < nextGen' /\ (Running(m)' => m \in children')
    BY <2>1 DEF GensInv, Running
  <2> QED
    BY <2>1, <2>3, <2>4, <2>5, <2>6 DEF GensInv, IdInv, TypeInv, Reference
<1>6. ASSUME NEW p \in Procs,
             \/ LookUp(p) \/ Assign(p) \/ SecondRow(p)
             \/ \E r \in live : Deallocate(p, r)
      PROVE GensInv'
  <2>1. UNCHANGED <<children, worker, nextGen, resident, queue, reaper>>
    BY <1>6 DEF LookUp, Assign, FirstRow, SecondRow, Deallocate
  <2>2. /\ \A r \in live' : r \in live \/ r.buffer = proc[p].buffer
        /\ \A q \in Procs : \/ proc'[q].buffer = proc[q].buffer \/ proc'[q] = Free
                            \/ \E r \in live : proc'[q].buffer = r.buffer
    BY <1>6 DEF LookUp, Assign, FirstRow, SecondRow, Deallocate, Own, IdInv, TypeInv
  <2>3. Known(Free.buffer)
    BY DEF Known, Free, IdInv, TypeInv
  <2> QED
    BY <2>1, <2>2, <2>3 DEF GensInv, Known, Running
<1>7. ASSUME NEW r \in live, Drop(r) PROVE GensInv'
  BY <1>7 DEF Drop, GensInv, Known, Running
<1>8. ASSUME NEW p \in Procs, DeallocateEnds(p) \/ Build(p) PROVE GensInv'
  <2>1. /\ UNCHANGED <<children, worker, nextGen, live, queue, reaper>> /\ resident' \subseteq resident
        /\ \A q \in Procs : proc'[q].buffer = proc[q].buffer \/ proc'[q] = Free
    BY <1>8 DEF DeallocateEnds, Build, IdInv, TypeInv
  <2>2. Known(Free.buffer)
    BY DEF Known, Free, IdInv, TypeInv
  <2> QED
    BY <2>1, <2>2 DEF GensInv, Known, Running
<1>9. CASE Tick \/ NextGroup \/ Ask \/ Send \/ Done \/ ReaperExits
  <2>1. UNCHANGED <<children, worker, nextGen, proc, live>>
    BY <1>9 DEF Tick, NextGroup, Group, Ask, Send, Done, ReaperExits
  <2>2. resident' \subseteq resident
    BY <1>9 DEF Tick, NextGroup, Group, Ask, Send, Done, ReaperExits
  <2>3. ReaperKeeps
    BY <1>9, ReaperMoves
  <2> QED
    BY <2>1, <2>2, <2>3 DEF GensInv, Known, Running, ReaperKeeps
<1>10. CASE PeriodPasses \/ UNCHANGED vars
  BY <1>10 DEF PeriodPasses, vars, GensInv, Known, Running
<1> QED
  BY <1>1, <1>2, <1>3, <1>4, <1>5, <1>6, <1>7, <1>8, <1>9, <1>10 DEF Next

-----------------------------------------------------------------------------
(* The reaper *)

\* The names of one group agree: the ids are one, and an id leads to one name.
LEMMA GroupIsOneWorkers ==
  ASSUME IdInv, ReaperInv, reaper.stage \in {"ask", "send"}
  PROVE  \A r \in reaper.group : r.buffer.name = GroupName
<1>1. GroupName \in DOMAIN idOf /\ \A r \in reaper.group : r.id = idOf[GroupName]
  BY GroupNameIs DEF IdInv
<1> QED
  BY <1>1 DEF IdInv, RowsInv, RefsInv, Labelled

\* A group has one id.
LEMMA FirstAgree ==
  ASSUME TypeInv
  PROVE  \A r, q \in First : r.id = q.id
<1>1. \A r \in reaper.pending : r.id \in Nat
  BY DEF TypeInv, Reference
<1>2. TAKE r, q \in First
<1>3. r.id <= q.id /\ q.id <= r.id
  BY DEF First
<1>4. r.id \in Nat /\ q.id \in Nat
  BY <1>1 DEF First
<1> QED
  BY <1>3, <1>4

\* Every step keeps what the reaper works on one worker's, and its generation in between.
LEMMA ReaperStep == IdInv /\ GensInv /\ ReaperInv /\ [Next]_vars => ReaperInv'
<1> SUFFICES ASSUME IdInv, GensInv, ReaperInv, [Next]_vars PROVE ReaperInv'
  OBVIOUS
<1> USE DEF supervisorVars, bufferVars, idVars, refVars
<1>1. CASE reaper' = reaper
  <2>1. DOMAIN nameOf \subseteq DOMAIN nameOf'
    BY <1>1 DEF Next, vars, StartWorker, HandshakeEnds, Crash, Restart, PeriodPasses, GiveUp, Upload,
          Build, LookUp, Assign, FirstRow, SecondRow, Inserted, Drop, Deallocate, DeallocateEnds,
          Tick, NextGroup, Group, Ask, Send, Done, ReaperExits
  <2>2. \A n \in Names : worker[n].gen \in Nat /\ worker[n].gen <= worker'[n].gen
                         /\ worker'[n].gen \in Nat
    BY OlderNever
  <2>3. \A r \in reaper.group : r.buffer.name \in Names /\ r.buffer.gen \in Nat
    BY DEF IdInv, TypeInv, Reference, Buffer
  <2>4. reaper.current \in Nat
    BY DEF IdInv, TypeInv
  <2> QED
    BY <1>1, <2>1, <2>2, <2>3, <2>4 DEF ReaperInv
<1>2. CASE Tick
  <2>1. reaper'.stage = "next" /\ reaper'.group = {}
    BY <1>2 DEF Tick, Asleep
  <2> QED
    BY <2>1 DEF ReaperInv
<1>3. CASE NextGroup
  <2>1. PICK one \in First :
          \/ reaper'.stage = "ask" /\ reaper'.group = First /\ one.id \in DOMAIN nameOf
          \/ reaper'.stage = "next" /\ reaper'.group = {}
    BY <1>3, NextGroupIs DEF IdInv
  <2>2. nameOf' = nameOf
    BY <1>3 DEF NextGroup, Group
  <2> QED
    BY <2>1, <2>2, FirstAgree DEF ReaperInv, IdInv
<1>4. CASE Ask
  <2>1. /\ reaper'.stage = "send" /\ reaper'.group = reaper.group
        /\ reaper'.current = worker[GroupName].gen /\ UNCHANGED <<nameOf, worker>>
    BY <1>4 DEF Ask, IdInv, TypeInv
  <2>2. reaper.stage = "ask" /\ \A r \in reaper.group : r.buffer.name = GroupName
    BY <1>4, GroupIsOneWorkers DEF Ask
  <2>3. GroupName \in Names /\ worker[GroupName].gen \in Nat
    BY <2>2, GroupNameIs DEF IdInv, TypeInv
  <2> QED
    BY <2>1, <2>2, <2>3 DEF ReaperInv, GensInv, Known
<1>5. CASE Send
  <2>1. reaper'.stage = "next" /\ reaper'.group = {}
    BY <1>5 DEF Send, IdInv, TypeInv
  <2> QED
    BY <2>1 DEF ReaperInv
<1>6. CASE Done \/ ReaperExits
  <2>1. reaper' = Asleep
    BY <1>6 DEF Done, ReaperExits
  <2> QED
    BY <2>1 DEF ReaperInv, Asleep
<1>7. reaper' = reaper \/ Tick \/ NextGroup \/ Ask \/ Send \/ Done \/ ReaperExits
  BY DEF Next, vars, StartWorker, HandshakeEnds, Crash, Restart, PeriodPasses, GiveUp, Upload,
         Build, LookUp, Assign, SecondRow, Drop, Deallocate, DeallocateEnds
<1> QED
  BY <1>1, <1>2, <1>3, <1>4, <1>5, <1>6, <1>7

-----------------------------------------------------------------------------
(* Who has a buffer to release *)

\* A step of one process that keeps its buffer, or gives it to a live reference.
LEMMA ProcessKeeps ==
  ASSUME IdInv, NEW p \in Procs, NEW b, InHand(b),
         UNCHANGED <<queue, reaper>>,
         \A q \in Procs \ {p} : proc'[q] = proc[q],
         proc[p].pc = "free" \/ (\E r \in live' : r.buffer = proc[p].buffer)
           \/ (proc'[p].pc # "free" /\ proc'[p].buffer = proc[p].buffer),
         \A r \in live \ live' : proc'[p].pc # "free" /\ proc'[p].buffer = r.buffer
  PROVE  InHand(b)'
<1>1. CASE \E r \in live \cup queue : r.buffer = b
  BY <1>1 DEF InHand
<1>2. CASE \E r \in reaper.pending \cup reaper.group : r.buffer = b
  BY <1>2 DEF InHand
<1>3. CASE \E q \in Procs : proc[q].pc # "free" /\ proc[q].buffer = b
  BY <1>3 DEF InHand
<1> QED
  BY <1>1, <1>2, <1>3 DEF InHand

\* Every step leaves a resident buffer in somebody's hand, or lost.
LEMMA KeptStep == IdInv /\ GensInv /\ ReaperInv /\ KeptInv /\ [Next]_vars => KeptInv'
<1> SUFFICES ASSUME IdInv, GensInv, ReaperInv, KeptInv, [Next]_vars PROVE KeptInv'
  OBVIOUS
<1> USE DEF supervisorVars, bufferVars, idVars, refVars
<1>1. CASE \/ \E n \in Names : StartWorker(n) \/ HandshakeEnds(n) \/ Crash(n) \/ Restart(n)
           \/ PeriodPasses \/ GiveUp \/ UNCHANGED vars
  <2>1. UNCHANGED <<refVars, reaper, lost>> /\ resident' \subseteq resident
    BY <1>1 DEF StartWorker, HandshakeEnds, Crash, Restart, PeriodPasses, GiveUp, Without, vars
  <2> QED
    BY <2>1 DEF KeptInv, InHand
<1>2. ASSUME NEW p \in Procs, NEW n \in Names, Upload(p, n) PROVE KeptInv'
  <2>1. /\ resident' = resident \cup {proc'[p].buffer} /\ proc'[p].pc = "built"
        /\ proc[p].pc = "free" /\ \A q \in Procs \ {p} : proc'[q] = proc[q]
        /\ UNCHANGED <<live, queue, reaper, lost>>
    BY <1>2 DEF Upload, IdInv, TypeInv, Free
  <2>2. \A c : c = proc'[p].buffer => InHand(c)'
    BY <2>1 DEF InHand
  <2>3. \A c : InHand(c) => InHand(c)'
    BY <2>1, ProcessKeeps
  <2> QED
    BY <2>1, <2>2, <2>3 DEF KeptInv
<1>3. ASSUME NEW p \in Procs,
             LookUp(p) \/ Assign(p) \/ SecondRow(p) \/ \E r \in live : Deallocate(p, r)
      PROVE KeptInv'
  <2>1. /\ UNCHANGED <<resident, queue, reaper, lost>>
        /\ \A q \in Procs \ {p} : proc'[q] = proc[q]
    BY <1>3 DEF LookUp, Assign, FirstRow, SecondRow, Deallocate, Own, IdInv, TypeInv
  <2>2. /\ proc[p].pc = "free" \/ (\E r \in live' : r.buffer = proc[p].buffer)
             \/ (proc'[p].pc # "free" /\ proc'[p].buffer = proc[p].buffer)
        /\ \A r \in live \ live' : proc'[p].pc # "free" /\ proc'[p].buffer = r.buffer
    <3>1. CASE LookUp(p) \/ Assign(p) \/ SecondRow(p)
      <4>1. CASE \E id : Own(p, id)
        <5>1. PICK id : live' = live \cup {[id |-> id, buffer |-> proc[p].buffer]}
          BY <4>1 DEF Own
        <5>2. [id |-> id, buffer |-> proc[p].buffer] \in live' /\ live \subseteq live'
          BY <5>1
        <5> QED
          BY <5>2
      <4>2. CASE live' = live /\ proc' = [proc EXCEPT ![p].pc = "assign"]
        BY <4>2 DEF IdInv, TypeInv
      <4>3. CASE live' = live /\ proc' = [proc EXCEPT ![p].id = nextId] /\ proc[p].pc = "assign"
        BY <4>3 DEF IdInv, TypeInv
      <4> QED
        BY <3>1, <4>1, <4>2, <4>3 DEF LookUp, Assign, FirstRow, SecondRow
    <3>2. ASSUME NEW r \in live, Deallocate(p, r)
          PROVE /\ proc[p].pc = "free"
                /\ \A q \in live \ live' : proc'[p].pc # "free" /\ proc'[p].buffer = q.buffer
      BY <3>2 DEF Deallocate, IdInv, TypeInv
    <3> QED
      BY <1>3, <3>1, <3>2
  <2> QED
    BY <2>1, <2>2, ProcessKeeps DEF KeptInv
<1>4. ASSUME NEW r \in live, Drop(r) PROVE KeptInv'
  <2>1. UNCHANGED <<resident, reaper, lost, proc>> /\ live' \cup queue' = live \cup queue
    BY <1>4 DEF Drop
  <2> QED
    BY <2>1 DEF KeptInv, InHand
<1>5. ASSUME NEW p \in Procs, DeallocateEnds(p) \/ Build(p) PROVE KeptInv'
  <2>1. /\ UNCHANGED <<worker, live, queue, reaper>> /\ resident' \subseteq resident
        /\ \A q \in Procs \ {p} : proc'[q] = proc[q]
        /\ \A c \in resident' : c \in lost => c \in lost'
    BY <1>5 DEF DeallocateEnds, Build, GenerationExits, IdInv, TypeInv
  <2>2. PICK b : b = proc[p].buffer
    OBVIOUS
  <2>3. ASSUME b \in resident' PROVE b \in lost' \/ InHand(b)'
    <3>1. CASE DeallocateEnds(p)
      BY <2>1, <2>2, <2>3, <3>1 DEF DeallocateEnds, GenerationExits, Freed, GensInv
    <3>2. CASE Build(p)
      <4>1. CASE GenerationExits(b)
        BY <2>1, <2>3, <4>1 DEF GenerationExits
      <4>2. CASE proc' = [proc EXCEPT ![p].pc = "label"]
        BY <2>2, <4>2 DEF InHand, IdInv, TypeInv
      <4> QED
        BY <2>2, <3>2, <4>1, <4>2 DEF Build
    <3> QED
      BY <1>5, <3>1, <3>2
  <2>4. \A c \in resident' : c # b /\ InHand(c) => InHand(c)'
    BY <2>1, <2>2 DEF InHand
  <2> QED
    BY <2>1, <2>3, <2>4 DEF KeptInv
<1>6. CASE Tick
  <2>1. /\ UNCHANGED <<resident, live, lost, proc>> /\ queue' = {}
        /\ reaper'.pending = queue /\ reaper'.group = {}
        /\ reaper.pending = {} /\ reaper.group = {}
    BY <1>6 DEF Tick, Asleep, ReaperInv
  <2> QED
    BY <2>1 DEF KeptInv, InHand
<1>7. CASE NextGroup
  <2>1. UNCHANGED <<resident, live, queue, proc, worker>>
    BY <1>7 DEF NextGroup, Group
  <2>2. reaper.group = {} /\ reaper'.pending = reaper.pending \ First
    BY <1>7, NextGroupIs DEF ReaperInv, IdInv
  <2>3. PICK one \in First :
          IF one.id \in DOMAIN nameOf
          THEN /\ lost' = lost
               /\ \/ reaper'.stage = "ask" /\ reaper'.group = First
                  \/ reaper'.stage = "next" /\ ~Registered(nameOf[one.id])
          ELSE lost' = (lost \cup Buffers(First)) \cap resident
    BY <1>7, NextGroupIs DEF IdInv
  <2>4. CASE reaper'.group = First
    <3>1. \A c \in resident : c \in lost => c \in lost'
      BY <2>3
    <3> QED
      BY <2>1, <2>2, <2>4, <3>1 DEF KeptInv, InHand
  <2>5. CASE one.id \in DOMAIN nameOf /\ ~Registered(nameOf[one.id])
    <3>1. \A r \in First : r.buffer.name = nameOf[one.id]
      BY <2>5, FirstAgree DEF First, IdInv, RefsInv, RowsInv, Labelled
    <3>2. \A r \in First : r.buffer \notin resident
      BY <2>5, <3>1 DEF GensInv, Running, Registered
    <3>3. \A c \in resident : InHand(c) => InHand(c)'
      BY <2>1, <2>2, <3>2 DEF InHand
    <3> QED
      BY <2>1, <2>3, <2>5, <3>3 DEF KeptInv
  <2>6. CASE one.id \notin DOMAIN nameOf
    <3>1. \A c \in resident : InHand(c) => InHand(c)' \/ c \in Buffers(First)
      BY <2>1, <2>2 DEF InHand, Buffers
    <3> QED
      BY <2>1, <2>3, <2>6, <3>1 DEF KeptInv
  <2> QED
    BY <2>3, <2>4, <2>5, <2>6
<1>8. CASE Ask
  <2>1. UNCHANGED <<resident, live, queue, proc, lost>>
        /\ reaper'.pending = reaper.pending /\ reaper'.group = reaper.group
    BY <1>8 DEF Ask, IdInv, TypeInv
  <2> QED
    BY <2>1 DEF KeptInv, InHand
<1>9. CASE Send
  <2>1. /\ UNCHANGED <<live, queue, proc, lost>>
        /\ reaper'.pending = reaper.pending /\ reaper'.group = {}
        /\ resident' = resident \ Freed(GroupName, reaper.current, reaper.group)
        /\ reaper.stage = "send"
    BY <1>9 DEF Send, IdInv, TypeInv
  <2>2. \A r \in reaper.group : r.buffer.name = GroupName
    BY <2>1, GroupIsOneWorkers
  <2>3. ASSUME NEW r \in reaper.group, r.buffer \in resident PROVE r.buffer \notin resident'
    <3>1. r.buffer.gen = worker[r.buffer.name].gen
      BY <2>3 DEF GensInv
    <3>2. r.buffer.gen <= reaper.current /\ reaper.current <= worker[r.buffer.name].gen
      BY <2>1, <2>3 DEF ReaperInv
    <3>3. r.buffer.gen \in Nat /\ reaper.current \in Nat
      BY <2>3 DEF IdInv, TypeInv, Buffer
    <3>4. r.buffer.gen = reaper.current
      BY <3>1, <3>2, <3>3
    <3> QED
      BY <2>1, <2>2, <2>3, <3>4 DEF Freed
  <2>4. \A c \in resident' : c \in resident /\ (InHand(c) => InHand(c)')
    BY <2>1, <2>3 DEF InHand
  <2> QED
    BY <2>1, <2>4 DEF KeptInv
<1>10. CASE Done
  <2>1. /\ UNCHANGED <<resident, live, queue, proc, lost>>
        /\ reaper.pending = {} /\ reaper.group = {}
    BY <1>10 DEF Done, ReaperInv
  <2> QED
    BY <2>1 DEF KeptInv, InHand
<1>11. CASE ReaperExits
  <2>1. /\ UNCHANGED <<resident, live, queue, proc>>
        /\ lost' = (lost \cup Buffers(reaper.group \cup reaper.pending)) \cap resident
    BY <1>11 DEF ReaperExits
  <2>2. \A c \in resident : InHand(c) => InHand(c)' \/ c \in Buffers(reaper.group \cup reaper.pending)
    BY <2>1 DEF InHand, Buffers
  <2> QED
    BY <2>1, <2>2 DEF KeptInv
<1> QED
  BY <1>1, <1>2, <1>3, <1>4, <1>5, <1>6, <1>7, <1>8, <1>9, <1>10, <1>11 DEF Next

-----------------------------------------------------------------------------
(* The theorems *)

\* The invariant is inductive.
LEMMA Inductive == Spec => []IInv
<1>1. IInv /\ [Next]_vars => IInv'
  BY IdsStep, GensStep, ReaperStep, KeptStep DEF IInv
<1> QED
  BY InitIInv, <1>1, PTL DEF Spec

\* One name has one id for good, and every reference carries the id of the worker
\* that made its buffer, whoever asks first (worker_ids.ex: id_for, assign).
THEOREM NamesHaveOneId == Spec => []OneIdPerName
<1>1. IInv => OneIdPerName
  BY DEF IInv, IdInv, RowsInv, RefsInv, Labelled, OneIdPerName, Held
<1> QED
  BY Inductive, <1>1, PTL

\* A buffer that a worker holds is in somebody's hand to release, or was lost in one of
\* the four ways (release_reaper.ex: drain, release_group; backend.ex: backend_deallocate,
\* build).
THEOREM NothingElseLeaks == Spec => []LeaksOnlyByExit
<1>1. IInv => LeaksOnlyByExit
  BY DEF IInv, KeptInv, InHand, LeaksOnlyByExit, Held, Buffers
<1> QED
  BY Inductive, <1>1, PTL
=============================================================================
