------------------------- MODULE AgentflowEngine_proofs -------------------------
(***************************************************************************)
(* Proofs about AgentflowEngine for any flow graph, any number of requests *)
(* and any limits: what an answer lets through and who works on a row,     *)
(* then the values of the variables, then what the executed data tells.    *)
(***************************************************************************)
EXTENDS AgentflowEngine, SequenceLemmas, TLAPS

\* The variables the proofs look at are functions on the requests.
Shape ==
  /\ pc = [p \in Run |-> pc[p]]
  /\ queue = [p \in Run |-> queue[p]]
  /\ current = [p \in Run |-> current[p]]
  /\ human = [p \in Run |-> human[p]]
  /\ row = [p \in Run |-> row[p]]
  /\ rows = [e \in Row |-> rows[e]]
  /\ passed \in [Run -> Nat]

\* A request that did not begin has created no row.
NewHasNoRow == \A p \in Run : pc[p] = "new" => rows[p].state = "absent"

\* An answer that was not used yet belongs to the node that runs first.
AnswerIsNext ==
  \A p \in Run : human[p] # None =>
    /\ pc[p] = "running" => queue[p] = <<>> \/ queue[p] = <<Item(human[p], {})>>
    /\ pc[p] = "executing" => current[p] = human[p]

\* Only a request that resumes has an answer, and it has one: unused, or spent on one node.
OneAnswer ==
  \A p \in Run :
    /\ pc[p] = "new" => human[p] = None
    /\ pc[p] \in {"new", "claiming", "reclaiming", "reclaimed", "refused"} => passed[p] = 0
    /\ pc[p] \notin {"new", "refused"} /\ row[p] = p => human[p] = None /\ passed[p] = 0
    /\ passed[p] <= 1
    /\ human[p] # None => passed[p] = 0

IInv == Shape /\ NewHasNoRow /\ AnswerIsNext /\ OneAnswer /\ InProgressIsActive

\* A request may write a row of its own: every fact below about rows needs Run \subseteq Row.
USE DEF Row

--------------------------------------------------------------------------------
\* The status an execution ends with is never INPROGRESS, nor absent.
LEMMA VerdictEnds == ASSUME NEW d PROVE Verdict(d) \notin {"INPROGRESS", "absent"}
BY DEF Verdict

\* The invariant holds initially.
LEMMA InitInv == Init => IInv
BY DEF Init, IInv, Shape, NewHasNoRow, AnswerIsNext, OneAnswer, InProgressIsActive

\* A request begins.
LEMMA RequestInv == ASSUME IInv, NEW p \in Run, Request(p) PROVE IInv'
<1> USE DEF IInv
<1>1. CASE Start(p)
  <2>1. Shape' /\ NewHasNoRow'
    BY <1>1 DEF Start, Shape, NewHasNoRow
  <2>2. AnswerIsNext' /\ OneAnswer'
    BY <1>1 DEF Start, Shape, AnswerIsNext, OneAnswer
  <2>3. InProgressIsActive'
    BY <1>1 DEF Start, Shape, InProgressIsActive, Active
  <2> QED
    BY <2>1, <2>2, <2>3
<1>2. ASSUME NEW at, Resume(p, at) PROVE IInv'
  <2>1. PICK e : /\ rows[e].state # "absent"
                 /\ row' = [row EXCEPT ![p] = e]
    BY <1>2 DEF Resume, CanResume, Resumable, FailedOnResume
  <2>2. /\ pc[p] = "new" /\ e # p
        /\ \E point : human' = [human EXCEPT ![p] = point]
        /\ \E place \in {"claiming", "reclaiming"} : pc' = [pc EXCEPT ![p] = place]
        /\ UNCHANGED <<queue, current, rows, passed>>
    BY <1>2, <2>1 DEF Resume, NewHasNoRow
  <2>3. Shape' /\ NewHasNoRow'
    BY <2>1, <2>2 DEF Shape, NewHasNoRow
  <2>4. AnswerIsNext' /\ OneAnswer'
    BY <2>1, <2>2 DEF Shape, AnswerIsNext, OneAnswer
  <2>5. InProgressIsActive'
    <3> SUFFICES ASSUME NEW f \in Run, rows[f].state = "INPROGRESS"
                 PROVE  \E q \in Run : row'[q] = f /\ (Active(q)' \/ pc'[q] = "limit")
      BY <2>2 DEF InProgressIsActive
    <3>1. PICK q \in Run : row[q] = f /\ (Active(q) \/ pc[q] = "limit")
      BY DEF InProgressIsActive
    <3>2. q # p
      BY <2>2, <3>1 DEF Active
    <3> QED
      BY <2>1, <2>2, <3>1, <3>2 DEF Shape, Active
  <2> QED
    BY <2>3, <2>4, <2>5
<1>3. ASSUME NEW at, Refuse(p, at) PROVE IInv'
  <2>1. /\ pc[p] = "new" /\ pc' = [pc EXCEPT ![p] = "refused"]
        /\ UNCHANGED <<queue, current, human, row, rows, passed>>
    BY <1>3 DEF Refuse, local, database
  <2>2. Shape' /\ NewHasNoRow' /\ AnswerIsNext' /\ OneAnswer'
    BY <2>1 DEF Shape, NewHasNoRow, AnswerIsNext, OneAnswer
  <2>3. InProgressIsActive'
    BY <2>1 DEF Shape, InProgressIsActive, Active
  <2> QED
    BY <2>2, <2>3
<1> QED
  BY <1>1, <1>2, <1>3 DEF Request

\* The row of a resumed execution is claimed, or it is gone.
LEMMA ClaimInv ==
  ASSUME IInv, NEW p \in Run, Reclaim(p) \/ Claim(p) \/ ClaimFails(p) PROVE IInv'
<1> USE DEF IInv
<1>1. CASE Reclaim(p) \/ Claim(p)
  <2>1. /\ pc[p] \in {"claiming", "reclaiming", "reclaimed"} /\ rows[row[p]].state # "absent"
        /\ \E place \in {"reclaimed", "running"} : pc' = [pc EXCEPT ![p] = place]
        /\ \E d : rows' = [rows EXCEPT ![row[p]] = [state |-> "INPROGRESS", data |-> d]]
        /\ \/ pc'[p] = "reclaimed"
           \/ \E q \in {<<Item(human[p], {})>>, <<>>} : queue' = [queue EXCEPT ![p] = q]
        /\ queue' = [q \in Run |-> queue'[q]]
        /\ \A q \in Run : q # p => queue'[q] = queue[q]
        /\ UNCHANGED <<current, human, row, passed>>
    BY <1>1 DEF Reclaim, Claim, Exists, Shape, local
  <2>2. Shape' /\ NewHasNoRow'
    BY <2>1 DEF Shape, NewHasNoRow
  <2>3. AnswerIsNext' /\ OneAnswer'
    BY <2>1 DEF Shape, AnswerIsNext, OneAnswer, Item
  <2>4. InProgressIsActive'
    BY <2>1 DEF Shape, InProgressIsActive, Active
  <2> QED
    BY <2>2, <2>3, <2>4
<1>2. CASE ClaimFails(p)
  <2>1. /\ pc[p] \in {"claiming", "reclaiming", "reclaimed"} /\ rows[row[p]].state = "absent"
        /\ pc' = [pc EXCEPT ![p] = "refused"]
        /\ UNCHANGED <<queue, current, human, row, rows, passed>>
    BY <1>2 DEF ClaimFails, Exists, local, database
  <2>2. Shape' /\ NewHasNoRow' /\ AnswerIsNext' /\ OneAnswer'
    BY <2>1 DEF Shape, NewHasNoRow, AnswerIsNext, OneAnswer
  <2>3. InProgressIsActive'
    <3> SUFFICES ASSUME NEW f \in Run, rows[f].state = "INPROGRESS"
                 PROVE  \E q \in Run : row'[q] = f /\ (Active(q)' \/ pc'[q] = "limit")
      BY <2>1 DEF InProgressIsActive
    <3>1. PICK q \in Run : row[q] = f /\ (Active(q) \/ pc[q] = "limit")
      BY DEF InProgressIsActive
    <3>2. q # p
      BY <2>1, <3>1
    <3> QED
      BY <2>1, <3>1, <3>2 DEF Shape, Active
  <2> QED
    BY <2>2, <2>3
<1> QED
  BY <1>1, <1>2

\* A turn of the main loop, up to the execution of its node.
LEMMA TurnInv ==
  ASSUME IInv, NEW p \in Run, Execute(p) \/ AbortedBefore(p) \/ LimitReached(p) PROVE IInv'
<1> USE DEF IInv
<1>1. CASE Execute(p)
  <2>1. /\ pc[p] = "running" /\ queue[p] # <<>>
        /\ pc' = [pc EXCEPT ![p] = "executing"]
        /\ queue' = [queue EXCEPT ![p] = Tail(queue[p])]
        /\ current' = [current EXCEPT ![p] = Head(queue[p]).node]
        /\ UNCHANGED <<human, row, rows, passed>>
    BY <1>1 DEF Execute, Turn, TakeNext, database
  <2>2. human[p] # None => Head(queue[p]).node = human[p]
    <3>1. human[p] # None => queue[p] = <<Item(human[p], {})>>
      BY <2>1 DEF AnswerIsNext
    <3>2. Head(<<Item(human[p], {})>>) = Item(human[p], {})
      OBVIOUS
    <3>3. Item(human[p], {}).node = human[p]
      BY DEF Item
    <3> QED
      BY <3>1, <3>2, <3>3
  <2>3. Shape' /\ NewHasNoRow'
    BY <2>1 DEF Shape, NewHasNoRow
  <2>4. AnswerIsNext' /\ OneAnswer'
    BY <2>1, <2>2 DEF Shape, AnswerIsNext, OneAnswer
  <2>5. InProgressIsActive'
    BY <2>1 DEF Shape, InProgressIsActive, Active
  <2> QED
    BY <2>3, <2>4, <2>5
<1>2. CASE AbortedBefore(p) \/ LimitReached(p)
  <2>1. /\ pc[p] = "running"
        /\ \E place \in {"terminating", "limit"} : pc' = [pc EXCEPT ![p] = place]
        /\ \E q : queue' = [queue EXCEPT ![p] = q]
        /\ UNCHANGED <<current, human, row, rows, passed>>
    BY <1>2 DEF Shape, AbortedBefore, LimitReached, Turn, TakeNext, Fail, Failing, local, database
  <2>2. Shape' /\ NewHasNoRow'
    BY <2>1 DEF Shape, NewHasNoRow
  <2>3. AnswerIsNext' /\ OneAnswer'
    BY <2>1 DEF Shape, AnswerIsNext, OneAnswer
  <2>4. InProgressIsActive'
    BY <2>1 DEF Shape, InProgressIsActive, Active
  <2> QED
    BY <2>2, <2>3, <2>4
<1> QED
  BY <1>1, <1>2

\* A node runs: to its end, to a stop, to a failure, or through one item.
LEMMA NodeInv ==
  ASSUME IInv, NEW p \in Run, Stop(p) \/ Throw(p) \/ Iterate(p) \/ Finish(p) PROVE IInv'
<1> USE DEF IInv
<1>1. CASE Stop(p) \/ Throw(p)
  <2>1. /\ pc[p] = "executing"
        /\ \E place \in {"stopping", "failing", "terminating"} : pc' = [pc EXCEPT ![p] = place]
        /\ \E h \in {human[p], None} : human' = [human EXCEPT ![p] = h]
        /\ UNCHANGED <<queue, current, row, rows, passed>>
    BY <1>1 DEF Shape, Stop, Throw, Record, Fail, Failing, database
  <2>2. Shape' /\ NewHasNoRow'
    BY <2>1 DEF Shape, NewHasNoRow
  <2>3. AnswerIsNext' /\ OneAnswer'
    BY <2>1 DEF Shape, AnswerIsNext, OneAnswer
  <2>4. InProgressIsActive'
    BY <2>1 DEF Shape, InProgressIsActive, Active
  <2> QED
    BY <2>2, <2>3, <2>4
<1>2. CASE Iterate(p)
  <2>1. /\ pc[p] = "executing"
        /\ \/ rows' = rows
           \/ \E d : rows' = [rows EXCEPT ![row[p]] = [state |-> rows[row[p]].state, data |-> d]]
           \/ \E o \in Orphan : \E r : rows' = [rows EXCEPT ![o] = r]
        /\ UNCHANGED <<pc, queue, current, human, row, passed>>
    BY <1>2 DEF Iterate, ItemSaved, ItemOrphaned
  <2>2. \A e \in Run : rows'[e].state = rows[e].state
    <3>1. CASE rows' = rows
      BY <3>1
    <3>2. ASSUME NEW d, rows' = [rows EXCEPT ![row[p]] = [state |-> rows[row[p]].state, data |-> d]]
          PROVE  \A e \in Run : rows'[e].state = rows[e].state
      BY <3>2 DEF Shape
    <3>3. ASSUME NEW o \in Orphan, NEW r, rows' = [rows EXCEPT ![o] = r]
          PROVE  \A e \in Run : rows'[e].state = rows[e].state
      <4> SUFFICES ASSUME NEW e \in Run PROVE rows'[e] = rows[e]
        OBVIOUS
      <4>1. e # o
        BY EngineAssumption
      <4> QED
        BY <3>3, <4>1 DEF Shape
    <3> QED
      BY <2>1, <3>1, <3>2, <3>3
  <2>3. Shape' /\ NewHasNoRow' /\ AnswerIsNext' /\ OneAnswer'
    BY <2>1, <2>2 DEF Shape, NewHasNoRow, AnswerIsNext, OneAnswer
  <2>4. InProgressIsActive'
    BY <2>1, <2>2 DEF InProgressIsActive, Active
  <2> QED
    BY <2>3, <2>4
<1>3. CASE Finish(p)
  <2>1. /\ pc[p] = "executing" /\ pc' = [pc EXCEPT ![p] = "running"]
        /\ Kind[current[p]] = "human" => human[p] # None
        /\ human' = [human EXCEPT ![p] =
             IF Consumed(p, current[p]) \/ LoopsAgain(p, current[p]) THEN None ELSE @]
        /\ passed' = [passed EXCEPT ![p] = IF Kind[current[p]] = "human" THEN @ + 1 ELSE @]
        /\ \E q : queue' = [queue EXCEPT ![p] = q]
        /\ UNCHANGED <<current, row, rows>>
    BY <1>3 DEF Finish, Record, database
  <2>2. human[p] # None => Consumed(p, current[p])
    BY <2>1 DEF AnswerIsNext, Consumed
  <2>3. human'[p] = None
    BY <2>1, <2>2 DEF Shape
  <2>4. passed[p] \in Nat /\ passed' \in [Run -> Nat]
    BY <2>1 DEF Shape
  <2>5. passed'[p] = IF Kind[current[p]] = "human" THEN passed[p] + 1 ELSE passed[p]
    BY <2>1 DEF Shape
  <2>6. Shape' /\ NewHasNoRow'
    BY <2>1, <2>4 DEF Shape, NewHasNoRow
  <2>7. AnswerIsNext'
    BY <2>1, <2>3 DEF Shape, AnswerIsNext
  <2>8. OneAnswer'
    <3>1. passed'[p] <= 1 /\ (row[p] = p => passed'[p] = 0)
      BY <2>1, <2>4, <2>5 DEF OneAnswer
    <3>2. \A q \in Run : q # p => /\ pc'[q] = pc[q] /\ human'[q] = human[q]
                                  /\ passed'[q] = passed[q] /\ row'[q] = row[q]
      BY <2>1 DEF Shape
    <3>3. pc'[p] = "running"
      BY <2>1 DEF Shape
    <3> QED
      BY <2>1, <2>3, <3>1, <3>2, <3>3 DEF OneAnswer
  <2>9. InProgressIsActive'
    BY <2>1 DEF Shape, InProgressIsActive, Active
  <2> QED
    BY <2>6, <2>7, <2>8, <2>9
<1> QED
  BY <1>1, <1>2, <1>3

\* A request writes its row for the last time.
LEMMA EndInv == ASSUME IInv, NEW p \in Run, Complete(p) \/ WriteFailure(p) PROVE IInv'
<1> USE DEF IInv
<1>1. /\ pc[p] \in {"running", "stopping", "failing", "terminating"}
      /\ \E place \in {"done", "failed"} : pc' = [pc EXCEPT ![p] = place]
      /\ \E state : /\ state \notin {"INPROGRESS", "absent"}
                    /\ Write(p, state)
      /\ UNCHANGED <<queue, current, human, row, passed>>
  <2>1. CASE Complete(p)
    BY <2>1, VerdictEnds DEF Complete, local
  <2>2. CASE WriteFailure(p)
    BY <2>2 DEF WriteFailure, local
  <2> QED
    BY <2>1, <2>2
<1>2. PICK state : state \notin {"INPROGRESS", "absent"} /\ Write(p, state)
  BY <1>1
<1>3. /\ rows' = [e \in Row |-> rows'[e]]
      /\ \A e \in Run : \/ rows'[e] = rows[e]
                        \/ e = row[p] /\ rows[e].state # "absent" /\ rows'[e].state = state
      /\ \A e \in Run : e = row[p] => rows'[e].state # "INPROGRESS"
  BY <1>2 DEF Write, Exists, Shape
<1>4. Shape' /\ NewHasNoRow'
  BY <1>1, <1>2, <1>3 DEF Shape, NewHasNoRow
<1>5. AnswerIsNext' /\ OneAnswer'
  BY <1>1 DEF Shape, AnswerIsNext, OneAnswer
<1>6. InProgressIsActive'
  <2> SUFFICES ASSUME NEW e \in Run, rows'[e].state = "INPROGRESS"
               PROVE  \E q \in Run : row'[q] = e /\ (Active(q)' \/ pc'[q] = "limit")
    BY DEF InProgressIsActive
  <2>1. e # row[p] /\ rows[e].state = "INPROGRESS"
    BY <1>2, <1>3
  <2>2. PICK q \in Run : row[q] = e /\ (Active(q) \/ pc[q] = "limit")
    BY <2>1 DEF InProgressIsActive
  <2> QED
    BY <1>1, <2>1, <2>2 DEF Shape, Active
<1> QED
  BY <1>4, <1>5, <1>6

\* An abort or a deletion changes no request.
LEMMA OutsideInv == ASSUME IInv, NEW p \in Row, (p \in Run /\ Abort(p)) \/ Delete(p) PROVE IInv'
<1>1. CASE Abort(p)
  BY <1>1 DEF Abort, local, database, IInv, Shape, NewHasNoRow, AnswerIsNext, OneAnswer,
              InProgressIsActive, Active
<1>2. CASE Delete(p)
  <2>1. /\ rows' = [rows EXCEPT ![p] = [state |-> "absent", data |-> <<>>]]
        /\ UNCHANGED <<pc, queue, current, human, row, passed>>
    BY <1>2 DEF Delete, local
  <2>2. Shape'
    BY <2>1 DEF IInv, Shape
  <2>3. \A e \in Run : rows'[e].state \in {rows[e].state, "absent"}
    BY <2>1 DEF IInv, Shape
  <2>4. NewHasNoRow' /\ AnswerIsNext' /\ OneAnswer'
    BY <2>1, <2>3 DEF IInv, NewHasNoRow, AnswerIsNext, OneAnswer
  <2>5. InProgressIsActive'
    BY <2>1, <2>3 DEF IInv, InProgressIsActive, Active
  <2> QED
    BY <2>2, <2>4, <2>5 DEF IInv
<1> QED
  BY <1>1, <1>2

\* Every step preserves the invariant.
LEMMA StepInv == IInv /\ [Next]_vars => IInv'
<1>1. ASSUME IInv, UNCHANGED vars PROVE IInv'
  BY <1>1 DEF vars, local, database, IInv, Shape, NewHasNoRow, AnswerIsNext, OneAnswer,
              InProgressIsActive, Active
<1> QED
  BY <1>1, RequestInv, ClaimInv, TurnInv, NodeInv, EndInv, OutsideInv DEF Next, Step

\* IInv is an invariant of the requests of a session.
THEOREM Invariance == Spec => []IInv
<1> QED
  BY InitInv, StepInv, PTL DEF Spec

\* In every flow graph, and however requests interleave, an answer of a human lets the
\* flow through at most one human input node, and a request without one through none.
THEOREM ApprovesOnce == Spec => []OneApproval
<1>1. IInv => OneApproval
  BY DEF IInv, Shape, OneAnswer, OneApproval
<1> QED
  BY <1>1, Invariance, PTL

\* In every flow graph, a row that says INPROGRESS has a request that works on it, or that
\* the iteration limit ended.
THEOREM InProgressIsWorkedOn == Spec => []InProgressIsActive
<1>1. IInv => InProgressIsActive
  BY DEF IInv
<1> QED
  BY <1>1, Invariance, PTL

--------------------------------------------------------------------------------
\* Values

QItem    == [node : Node, inputs : SUBSET Node]
Box      == [waiting : [Node -> SUBSET Node], queue : Seq(QItem)]
RowValue == [state : States, data : Seq(Entry)]

\* A request that executes has a node, one that began has a row, and one that resumes has
\* a node to resume at.
Placed ==
  \A p \in Run :
    /\ pc[p] = "executing" => current[p] \in Node
    /\ pc[p] \notin {"new", "refused"} => row[p] \in Row
    /\ pc[p] \in {"claiming", "reclaiming", "reclaimed"} => human[p] \in Node

TInv == TypeOK /\ Placed

\* Data with one more entry.
LEMMA OneMore ==
  ASSUME NEW S, NEW d \in Seq(S), NEW entry \in S
  PROVE  /\ Append(d, entry) \in Seq(S) /\ Append(d, entry) # <<>>
         /\ Len(Append(d, entry)) = Len(d) + 1
         /\ \A i \in DOMAIN d : Append(d, entry)[i] = d[i]
         /\ Append(d, entry)[Len(d) + 1] = entry
         /\ DOMAIN Append(d, entry) = DOMAIN d \cup {Len(d) + 1}
  OBVIOUS

\* Data without its last entry.
LEMMA OneLess ==
  ASSUME NEW S, NEW d \in Seq(S), d # <<>>
  PROVE  /\ DropLast(d) \in Seq(S) /\ Len(DropLast(d)) = Len(d) - 1
         /\ DOMAIN DropLast(d) = 1..(Len(d) - 1)
         /\ \A i \in DOMAIN DropLast(d) : i \in DOMAIN d /\ i < Len(d) /\ DropLast(d)[i] = d[i]
<1>1. Len(d) \in Nat \ {0} /\ DOMAIN d = 1..Len(d)
  OBVIOUS
<1>2. DropLast(d) \in Seq(S) /\ Len(DropLast(d)) = Len(d) - 1
  BY <1>1 DEF DropLast
<1>3. \A i \in 1..(Len(d) - 1) : DropLast(d)[i] = d[i]
  BY <1>1 DEF DropLast
<1>4. DOMAIN DropLast(d) = 1..(Len(d) - 1)
  BY <1>2
<1> QED
  BY <1>1, <1>2, <1>3, <1>4

\* What WithoutNode has kept after each entry: entries of other nodes.
Others(d, n) == {d[i] : i \in {j \in DOMAIN d : d[j].node # n}}

Keeping(kept, d, n) ==
  /\ kept[0] = <<>>
  /\ \A i \in 1..Len(d) :
       kept[i] = IF d[i].node = n THEN kept[i - 1] ELSE Append(kept[i - 1], d[i])
  /\ \A i \in 0..Len(d) : kept[i] \in Seq(Others(d, n))
  /\ WithoutNode(d, n) = kept[Len(d)]

\* WithoutNode goes through the entries one after the other.
LEMMA WithoutNodeRuns ==
  ASSUME NEW S, NEW d \in Seq(S), NEW n
  PROVE  \E kept : Keeping(kept, d, n)
<1> DEFINE others == {d[i] : i \in {j \in DOMAIN d : d[j].node # n}}
           V == Seq(others)
           AfterEntry(i, kept) == IF d[i].node = n THEN kept ELSE Append(kept, d[i])
           f == [i \in 1..Len(d) |-> [kept \in V |-> AfterEntry(i, kept)]]
           Solves(h) == h = [i \in 0..Len(d) |-> IF i = 0 THEN <<>> ELSE AfterEntry(i, h[i - 1])]
<1>1. Len(d) \in Nat /\ <<>> \in V
  OBVIOUS
<1>2. ASSUME NEW i \in 1..Len(d), NEW kept \in V PROVE AfterEntry(i, kept) \in V
  <2>1. CASE d[i].node = n
    BY <2>1
  <2>2. CASE d[i].node # n
    <3>1. d[i] \in others
      BY <2>2
    <3> HIDE DEF others
    <3> QED
      BY <2>2, <3>1
  <2> QED
    BY <2>1, <2>2
<1>3. f \in [1..Len(d) -> [V -> V]]
  <2> HIDE DEF V, AfterEntry
  <2> QED
    BY <1>2
<1>4. PICK g : ResultOf(V, <<>>, Len(d), f, g)
  <2>1. f \in StepsOf(V, Len(d))
    BY <1>3 DEF StepsOf
  <2> HIDE DEF V, f
  <2> QED
    BY <1>1, <2>1, Recursion
<1> USE <1>4 DEF ResultOf
<1>5. \A i \in 1..Len(d) : f[i][g[i - 1]] = AfterEntry(i, g[i - 1])
  <2> SUFFICES ASSUME NEW i \in 1..Len(d) PROVE f[i][g[i - 1]] = AfterEntry(i, g[i - 1])
    OBVIOUS
  <2>1. g[i - 1] \in V
    <3>1. i - 1 \in 0..Len(d)
      BY <1>1
    <3> HIDE DEF V, f
    <3> QED
      BY <3>1
  <2> HIDE DEF V, AfterEntry
  <2> QED
    BY <2>1
<1>6. Solves(g)
  <2> HIDE DEF f, AfterEntry, V
  <2> QED
    BY <1>1, <1>4, <1>5
<1> DEFINE h == CHOOSE k : Solves(k)
<1>7. Solves(h)
  <2> HIDE DEF Solves
  <2> QED
    BY <1>6, Zenon
<1>8. WithoutNode(d, n) = h[Len(d)]
  BY DEF WithoutNode
<1>9. \A i \in 0..Len(d) : h[i] \in V
  <2> HIDE DEF h, V, AfterEntry
  <2>1. h[0] = <<>> /\ \A i \in 1..Len(d) : h[i] = AfterEntry(i, h[i - 1])
    BY <1>1, <1>7
  <2>2. \A i \in 1..Len(d) : h[i - 1] \in V => h[i] \in V
    BY <1>2, <2>1
  <2> QED
    BY <1>1, <2>1, <2>2, Carried
<1>10. h[0] = <<>> /\ \A i \in 1..Len(d) : h[i] = AfterEntry(i, h[i - 1])
  <2> HIDE DEF h, V, AfterEntry
  <2> QED
    BY <1>1, <1>7
<1>11. Keeping(h, d, n)
  <2> HIDE DEF h
  <2> QED
    BY <1>8, <1>9, <1>10 DEF Keeping, Others
<1> HIDE DEF h
<1> QED
  BY <1>11

\* The entries that WithoutNode keeps are those of the other nodes.
LEMMA WithoutNodeIs ==
  ASSUME NEW S, NEW d \in Seq(S), NEW n
  PROVE  WithoutNode(d, n) \in Seq(Others(d, n))
<1>1. PICK kept : Keeping(kept, d, n)
  BY WithoutNodeRuns
<1>2. Len(d) \in 0..Len(d)
  OBVIOUS
<1> QED
  BY <1>1, <1>2 DEF Keeping

\* Edges lead from nodes to nodes.
LEMMA EdgesAre ==
  /\ Len(Edges) \in Nat /\ DOMAIN Edges = 1..Len(Edges)
  /\ \A i \in DOMAIN Edges : /\ Edges[i].from \in Node /\ Edges[i].to \in Node
                             /\ Edges[i].handle \in Nat
<1>1. \A i \in DOMAIN Edges : Edges[i] \in [from : Node, to : Node, handle : Nat]
  BY GraphAssumption, Elements
<1>2. Len(Edges) \in Nat /\ DOMAIN Edges = 1..Len(Edges)
  BY GraphAssumption, Elements
<1> QED
  BY <1>1, <1>2

\* The child of a node receives its output.
LEMMA DeliverIs ==
  ASSUME NEW n \in Node, NEW box \in Box, NEW child \in Node
  PROVE  Deliver(n, box, child) \in Box
<1> DEFINE received == box.waiting[child] \cup {n}
<1>1. received \in SUBSET Node
  BY DEF Box
<1>2. [box.waiting EXCEPT ![child] = {}] \in [Node -> SUBSET Node]
      /\ [box.waiting EXCEPT ![child] = received] \in [Node -> SUBSET Node]
  BY <1>1 DEF Box
<1>3. Append(box.queue, Item(child, received)) \in Seq(QItem)
  <2>1. box.queue \in Seq(QItem) /\ Item(child, received) \in QItem
    BY <1>1 DEF Box, Item, QItem
  <2> HIDE DEF received
  <2> QED
    BY <2>1, OneMore
<1>4. [box EXCEPT !.waiting[child] = received] \in Box
  <2>1. /\ box \in [waiting : [Node -> SUBSET Node], queue : Seq(QItem)]
        /\ box.waiting \in [Node -> SUBSET Node]
    BY DEF Box
  <2> HIDE DEF received
  <2> QED
    BY <2>1, <1>1 DEF Box
<1> QED
  BY <1>2, <1>3, <1>4 DEF Deliver, Box

\* What has been delivered after each edge.
Delivering(box, p, n, outcome) ==
  /\ box[0] = [waiting |-> waiting[p], queue |-> queue[p]]
  /\ \A i \in 1..Len(Edges) :
       box[i] = IF Receives(i, n, outcome) THEN Deliver(n, box[i - 1], Edges[i].to) ELSE box[i - 1]
  /\ \A i \in 0..Len(Edges) : box[i] \in Box
  /\ DeliverAll(p, n, outcome) = box[Len(Edges)]

\* DeliverAll goes through the edges one after the other.
LEMMA DeliverAllRuns ==
  ASSUME NEW p, waiting[p] \in [Node -> SUBSET Node], queue[p] \in Seq(QItem), NEW n \in Node,
         NEW outcome
  PROVE  \E box : Delivering(box, p, n, outcome)
<1> DEFINE base == [waiting |-> waiting[p], queue |-> queue[p]]
           AfterEdge(i, box) == IF Receives(i, n, outcome) THEN Deliver(n, box, Edges[i].to) ELSE box
           f == [i \in 1..Len(Edges) |-> [box \in Box |-> AfterEdge(i, box)]]
           Solves(h) == h = [i \in 0..Len(Edges) |-> IF i = 0 THEN base ELSE AfterEdge(i, h[i - 1])]
<1>1. Len(Edges) \in Nat /\ base \in Box
  BY EdgesAre DEF Box
<1>2. ASSUME NEW i \in 1..Len(Edges), NEW box \in Box PROVE AfterEdge(i, box) \in Box
  <2>1. Edges[i].to \in Node
    BY EdgesAre
  <2> QED
    BY <2>1, DeliverIs
<1>3. f \in [1..Len(Edges) -> [Box -> Box]]
  <2> HIDE DEF AfterEdge
  <2> QED
    BY <1>2
<1>4. PICK g : ResultOf(Box, base, Len(Edges), f, g)
  <2>1. f \in StepsOf(Box, Len(Edges))
    BY <1>3 DEF StepsOf
  <2> HIDE DEF base, f
  <2> QED
    BY <1>1, <2>1, Recursion
<1> USE <1>4 DEF ResultOf
<1>5. \A i \in 1..Len(Edges) : f[i][g[i - 1]] = AfterEdge(i, g[i - 1])
  <2> SUFFICES ASSUME NEW i \in 1..Len(Edges) PROVE f[i][g[i - 1]] = AfterEdge(i, g[i - 1])
    OBVIOUS
  <2>1. g[i - 1] \in Box
    <3>1. i - 1 \in 0..Len(Edges)
      BY <1>1
    <3> QED
      BY <3>1
  <2> HIDE DEF AfterEdge
  <2> QED
    BY <2>1
<1>6. Solves(g)
  <2> HIDE DEF f, AfterEdge, base
  <2> QED
    BY <1>1, <1>4, <1>5
<1> DEFINE h == CHOOSE k : Solves(k)
<1>7. Solves(h)
  <2> HIDE DEF Solves
  <2> QED
    BY <1>6, Zenon
<1>8. DeliverAll(p, n, outcome) = h[Len(Edges)]
  BY DEF DeliverAll
<1>9. \A i \in 0..Len(Edges) : h[i] \in Box
  <2> HIDE DEF h, AfterEdge, base
  <2>1. h[0] = base /\ \A i \in 1..Len(Edges) : h[i] = AfterEdge(i, h[i - 1])
    BY <1>1, <1>7
  <2>2. \A i \in 1..Len(Edges) : h[i - 1] \in Box => h[i] \in Box
    BY <1>2, <2>1
  <2> QED
    BY <1>1, <2>1, <2>2, Carried
<1>10. h[0] = base /\ \A i \in 1..Len(Edges) : h[i] = AfterEdge(i, h[i - 1])
  <2> HIDE DEF h, AfterEdge, base
  <2> QED
    BY <1>1, <1>7
<1>11. Delivering(h, p, n, outcome)
  <2> HIDE DEF h
  <2> QED
    BY <1>8, <1>9, <1>10 DEF Delivering
<1> HIDE DEF h
<1> QED
  BY <1>11

\* Every child of a node receives its output.
LEMMA DeliverAllIs ==
  ASSUME NEW p, waiting[p] \in [Node -> SUBSET Node], queue[p] \in Seq(QItem), NEW n \in Node,
         NEW outcome
  PROVE  DeliverAll(p, n, outcome) \in Box
<1>1. PICK box : Delivering(box, p, n, outcome)
  BY DeliverAllRuns
<1>2. Len(Edges) \in 0..Len(Edges)
  BY EdgesAre
<1> QED
  BY <1>1, <1>2 DEF Delivering

\* LastStopped is the last entry that waits.
LEMMA LastStoppedIs ==
  ASSUME NEW S, NEW d \in Seq(S), "STOPPED" \in StatusesIn(d)
  PROVE  /\ LastStopped(d) \in DOMAIN d /\ d[LastStopped(d)].status = "STOPPED"
         /\ \A i \in DOMAIN d : d[i].status = "STOPPED" => i <= LastStopped(d)
<1> DEFINE stopped == {i \in DOMAIN d : d[i].status = "STOPPED"}
<1>1. stopped \in SUBSET (0..Len(d)) /\ stopped # {} /\ Len(d) \in Nat
  <2>1. DOMAIN d = 1..Len(d) /\ Len(d) \in Nat
    BY Elements
  <2> QED
    BY <2>1 DEF StatusesIn
<1>2. \E m \in stopped : \A k \in stopped : k <= m
  <2> HIDE DEF stopped
  <2> QED
    BY <1>1, GreatestOf
<1>3. LastStopped(d) \in stopped /\ \A k \in stopped : k <= LastStopped(d)
  BY <1>2 DEF LastStopped
<1> QED
  BY <1>3

\* The latest execution exists.
LEMMA LatestIs ==
  ASSUME TypeOK, Latest # None
  PROVE  Latest \in Row /\ Exists(Latest)
<1> DEFINE kept == {i \in DOMAIN created : Exists(created[i])}
<1>1. created \in Seq(Row)
  BY DEF TypeOK
<1>2. /\ DOMAIN created = 1..Len(created) /\ Len(created) \in Nat
      /\ \A i \in DOMAIN created : created[i] \in Row
  <2> HIDE DEF Row
  <2> QED
    BY <1>1, Elements
<1>3. kept # {} /\ kept \in SUBSET (0..Len(created))
  BY <1>2 DEF Latest
<1>4. \E m \in kept : \A k \in kept : k <= m
  <2> HIDE DEF kept
  <2> QED
    BY <1>2, <1>3, GreatestOf
<1>5. \E m \in kept : Latest = created[m]
  BY <1>3, <1>4 DEF Latest
<1> QED
  BY <1>2, <1>5

\* The data of a row that may be resumed.
LEMMA DataOfIs ==
  ASSUME NEW r \in RowValue, Resumable(r)
  PROVE  DataOf(r) \in Seq(Entry)
<1>1. r.data \in Seq(Entry)
  BY DEF RowValue
<1>2. r.state # "STOPPED" => r.data # <<>>
  BY <1>1 DEF Resumable, FailedOnResume
<1> QED
  BY <1>1, <1>2, OneLess DEF DataOf

\* A request resumes at a node.
LEMMA ResumePointIs ==
  ASSUME NEW r \in RowValue, NEW at, CanResume(r, at)
  PROVE  ResumePoint(DataOf(r), at) \in Node
<1>1. DataOf(r) \in Seq(Entry)
  BY DataOfIs DEF CanResume
<1>2. \A i \in DOMAIN DataOf(r) : DataOf(r)[i] \in Entry
  BY <1>1, Elements
<1>3. \A i \in DOMAIN DataOf(r) : DataOf(r)[i].node \in Node
  BY <1>2 DEF Entry
<1>4. at = None => LastStopped(DataOf(r)) \in DOMAIN DataOf(r)
  BY <1>1, LastStoppedIs DEF CanResume
<1> QED
  BY <1>3, <1>4 DEF ResumePoint, CanResume

\* What WithoutNode keeps is made of the entries there were.
LEMMA KeptIs ==
  ASSUME NEW S, NEW d \in Seq(S), NEW n
  PROVE  /\ WithoutNode(d, n) \in Seq(S)
         /\ \A i \in DOMAIN WithoutNode(d, n) :
              \E j \in DOMAIN d : d[j].node # n /\ WithoutNode(d, n)[i] = d[j]
<1>1. WithoutNode(d, n) \in Seq(Others(d, n))
  BY WithoutNodeIs
<1>2. Others(d, n) \subseteq S
  BY Elements DEF Others
<1>3. \A i \in DOMAIN WithoutNode(d, n) : WithoutNode(d, n)[i] \in Others(d, n)
  BY <1>1, Elements
<1>4. WithoutNode(d, n) \in Seq(S)
  BY <1>1, <1>2
<1> QED
  BY <1>3, <1>4 DEF Others

\* Data that a request may go on with, once the node's entry is recorded.
Recorded(p, n) == IF Consumed(p, n) THEN WithoutNode(data[p], n) ELSE data[p]

\* The entry of a node is recorded: behind entries there were.
LEMMA RecordIs ==
  ASSUME TypeOK, NEW p \in Run, NEW n \in Node, NEW status \in Status, NEW outcome \in Nat,
         Record(p, n, status, outcome)
  PROVE  /\ Recorded(p, n) \in Seq(Entry)
         /\ [node |-> n, status |-> status, outcome |-> outcome] \in Entry
         /\ data' = [data EXCEPT ![p] = Append(Recorded(p, n),
                       [node |-> n, status |-> status, outcome |-> outcome])]
         /\ data' \in [Run -> Seq(Entry)] /\ human' \in [Run -> Node \cup {None}]
         /\ \A q \in Run : q # p => human'[q] = human[q]
<1>1. data \in [Run -> Seq(Entry)] /\ human \in [Run -> Node \cup {None}]
  BY DEF TypeOK
<1>2. Recorded(p, n) \in Seq(Entry)
  BY <1>1, KeptIs DEF Recorded
<1>3. [node |-> n, status |-> status, outcome |-> outcome] \in Entry
  BY DEF Entry
<1>4. Append(Recorded(p, n), [node |-> n, status |-> status, outcome |-> outcome]) \in Seq(Entry)
  BY <1>2, <1>3, OneMore
<1>5. data' = [data EXCEPT ![p] = Append(Recorded(p, n),
                 [node |-> n, status |-> status, outcome |-> outcome])]
  BY DEF Record, Recorded
<1>6. data' \in [Run -> Seq(Entry)]
  BY <1>1, <1>4, <1>5
<1>7. human' \in [Run -> Node \cup {None}] /\ \A q \in Run : q # p => human'[q] = human[q]
  BY <1>1 DEF Record
<1> QED
  BY <1>2, <1>3, <1>5, <1>6, <1>7

\* The entry of a node that failed is added.
LEMMA FailIs ==
  ASSUME TypeOK, NEW p \in Run, NEW n \in Node, NEW status \in {"ERROR", "TERMINATED"},
         Fail(p, n, status)
  PROVE  /\ [node |-> n, status |-> status, outcome |-> 0] \in Entry
         /\ data[p] \in Seq(Entry)
         /\ data' = [data EXCEPT ![p] =
                       Append(data[p], [node |-> n, status |-> status, outcome |-> 0])]
         /\ data' \in [Run -> Seq(Entry)]
         /\ pc' = [pc EXCEPT ![p] = IF status = "ERROR" THEN "failing" ELSE "terminating"]
<1>1. data \in [Run -> Seq(Entry)]
  BY DEF TypeOK
<1>2. [node |-> n, status |-> status, outcome |-> 0] \in Entry
  BY DEF Entry, Status
<1>3. data' = [data EXCEPT ![p] = Append(data[p], [node |-> n, status |-> status, outcome |-> 0])]
  BY DEF Fail
<1>4. Append(data[p], [node |-> n, status |-> status, outcome |-> 0]) \in Seq(Entry)
  BY <1>1, <1>2, OneMore
<1>5. data' \in [Run -> Seq(Entry)]
  BY <1>1, <1>3, <1>4
<1> QED
  BY <1>1, <1>2, <1>3, <1>5 DEF Fail, Failing

\* A row with a state and data of the right kind.
LEMMA RowIs ==
  ASSUME TypeOK, NEW e, NEW r \in RowValue
  PROVE  [rows EXCEPT ![e] = r] \in [Row -> RowValue]
  BY DEF TypeOK, RowValue

\* A request begins.
LEMMA RequestTypes == ASSUME TInv, NEW p \in Run, Request(p) PROVE TInv'
<1> USE DEF TInv
<1>1. CASE Start(p)
  <2>1. PICK n \in Node : queue' = [queue EXCEPT ![p] = <<Item(n, {})>>]
    BY <1>1 DEF Start, Outside, StartingNodes
  <2>2. queue' \in [Run -> Seq(QItem)]
    <3>1. Item(n, {}) \in QItem /\ queue \in [Run -> Seq(QItem)]
      BY DEF QItem, Item, TypeOK
    <3>2. <<Item(n, {})>> \in Seq(QItem)
      BY <3>1
    <3> QED
      BY <2>1, <3>1, <3>2
  <2>3. rows' \in [Row -> RowValue]
    <3>1. [state |-> "INPROGRESS", data |-> <<>>] \in RowValue
      BY DEF RowValue, States
    <3> QED
      BY <1>1, <3>1, RowIs DEF Start
  <2>4. created' \in Seq(Row)
    BY <1>1, OneMore DEF Start, TypeOK
  <2>5. TypeOK'
    BY <1>1, <2>2, <2>3, <2>4 DEF Start, TypeOK, QItem, RowValue
  <2>6. Placed'
    BY <1>1 DEF Start, TypeOK, Placed
  <2> QED
    BY <2>5, <2>6
<1>2. ASSUME NEW at, Resume(p, at) PROVE TInv'
  <2>1. Latest \in Row
    BY <1>2, LatestIs DEF Resume
  <2>2. rows[Latest] \in RowValue /\ CanResume(rows[Latest], at)
    BY <1>2, <2>1 DEF Resume, TypeOK, RowValue
  <2>3. /\ DataOf(rows[Latest]) \in Seq(Entry)
        /\ ResumePoint(DataOf(rows[Latest]), at) \in Node
    BY <2>2, DataOfIs, ResumePointIs DEF CanResume
  <2>4. /\ pc[p] = "new"
        /\ pc' = [pc EXCEPT ![p] = IF rows[Latest].state = "ERROR" THEN "reclaiming" ELSE "claiming"]
        /\ human' = [human EXCEPT ![p] = ResumePoint(DataOf(rows[Latest]), at)]
        /\ data' = [data EXCEPT ![p] = DataOf(rows[Latest])]
        /\ row' = [row EXCEPT ![p] = Latest]
        /\ UNCHANGED <<queue, waiting, loops, iterations, items, current, aborted, rows, created, passed>>
    BY <1>2 DEF Resume
  <2>5. TypeOK'
    BY <2>1, <2>3, <2>4 DEF TypeOK
  <2>6. Placed'
    BY <2>1, <2>3, <2>4 DEF TypeOK, Placed
  <2> QED
    BY <2>5, <2>6
<1>3. ASSUME NEW at, Refuse(p, at) PROVE TInv'
  BY <1>3 DEF Refuse, local, database, TypeOK, Placed
<1> QED
  BY <1>1, <1>2, <1>3 DEF Request

\* The row of a resumed execution is claimed, or it is gone.
LEMMA ClaimTypes ==
  ASSUME TInv, NEW p \in Run, Reclaim(p) \/ Claim(p) \/ ClaimFails(p) PROVE TInv'
<1> USE DEF TInv
<1>1. CASE Reclaim(p)
  <2>1. rows' \in [Row -> RowValue]
    <3>1. [state |-> "INPROGRESS", data |-> data[p]] \in RowValue
      BY DEF TypeOK, RowValue, States
    <3> QED
      BY <1>1, <3>1, RowIs DEF Reclaim
  <2>2. TypeOK'
    BY <1>1, <2>1 DEF Reclaim, local, TypeOK, RowValue
  <2>3. Placed'
    BY <1>1 DEF Reclaim, local, TypeOK, Placed
  <2> QED
    BY <2>2, <2>3
<1>2. CASE Claim(p)
  <2>1. row[p] \in Row /\ human[p] \in Node
    BY <1>2 DEF Claim, Placed
  <2>2. rows' \in [Row -> RowValue]
    <3>1. [state |-> "INPROGRESS", data |-> rows[row[p]].data] \in RowValue
      BY <2>1 DEF TypeOK, RowValue, States
    <3> QED
      BY <1>2, <3>1, RowIs DEF Claim
  <2>3. queue' \in [Run -> Seq(QItem)]
    <3>1. Item(human[p], {}) \in QItem
      BY <2>1 DEF QItem, Item
    <3>2. (IF Parent[human[p]] = None THEN <<Item(human[p], {})>> ELSE <<>>) \in Seq(QItem)
      BY <3>1
    <3>3. queue \in [Run -> Seq(QItem)]
      BY DEF TypeOK, QItem
    <3> QED
      BY <1>2, <3>2, <3>3 DEF Claim
  <2>4. TypeOK'
    BY <1>2, <2>2, <2>3 DEF Claim, TypeOK, RowValue, QItem
  <2>5. Placed'
    BY <1>2 DEF Claim, TypeOK, Placed
  <2> QED
    BY <2>4, <2>5
<1>3. CASE ClaimFails(p)
  BY <1>3 DEF ClaimFails, local, database, TypeOK, Placed
<1> QED
  BY <1>1, <1>2, <1>3

\* A turn takes the first item of the queue.
LEMMA TurnIs ==
  ASSUME TypeOK, NEW p \in Run, Turn(p), TakeNext(p)
  PROVE  /\ Head(queue[p]).node \in Node
         /\ queue' \in [Run -> Seq(QItem)] /\ iterations' \in [Run -> Nat]
<1>1. queue \in [Run -> Seq(QItem)] /\ iterations \in [Run -> Nat]
  BY DEF TypeOK, QItem
<1>2. queue[p] \in Seq(QItem) /\ queue[p] # <<>>
  BY <1>1 DEF Turn
<1>3. Head(queue[p]) \in QItem /\ Tail(queue[p]) \in Seq(QItem)
  BY <1>2
<1>4. queue' \in [Run -> Seq(QItem)]
  BY <1>1, <1>3 DEF TakeNext
<1>5. iterations' \in [Run -> Nat]
  BY <1>1 DEF TakeNext
<1> QED
  BY <1>3, <1>4, <1>5 DEF QItem

\* A turn of the main loop, up to the execution of its node.
LEMMA TurnTypes ==
  ASSUME TInv, NEW p \in Run, Execute(p) \/ AbortedBefore(p) \/ LimitReached(p) PROVE TInv'
<1> USE DEF TInv
<1>1. CASE Execute(p)
  <2>1. /\ Head(queue[p]).node \in Node
        /\ queue' \in [Run -> Seq(QItem)] /\ iterations' \in [Run -> Nat]
    BY <1>1, TurnIs DEF Execute
  <2>2. TypeOK'
    BY <1>1, <2>1 DEF Execute, database, TypeOK, QItem
  <2>3. Placed'
    BY <1>1, <2>1 DEF Execute, Turn, database, TypeOK, Placed
  <2> QED
    BY <2>2, <2>3
<1>2. CASE AbortedBefore(p)
  <2>1. /\ Head(queue[p]).node \in Node
        /\ queue' \in [Run -> Seq(QItem)] /\ iterations' \in [Run -> Nat]
    BY <1>2, TurnIs DEF AbortedBefore
  <2>2. data' \in [Run -> Seq(Entry)] /\ pc' = [pc EXCEPT ![p] = "terminating"]
    BY <1>2, <2>1, FailIs DEF AbortedBefore
  <2>3. TypeOK'
    BY <1>2, <2>1, <2>2 DEF AbortedBefore, database, TypeOK, QItem
  <2>4. Placed'
    BY <1>2, <2>2 DEF AbortedBefore, Turn, database, TypeOK, Placed
  <2> QED
    BY <2>3, <2>4
<1>3. CASE LimitReached(p)
  BY <1>3 DEF LimitReached, Turn, local, database, TypeOK, Placed
<1> QED
  BY <1>1, <1>2, <1>3

\* A node runs: to its end, to a stop, to a failure, or through one item.
LEMMA NodeTypes ==
  ASSUME TInv, NEW p \in Run, Stop(p) \/ Throw(p) \/ Iterate(p) \/ Finish(p) PROVE TInv'
<1> USE DEF TInv
<1> DEFINE n == current[p]
<1>0. n \in Node /\ pc[p] = "executing" /\ row[p] \in Row
  BY DEF Stop, Throw, Iterate, Finish, Placed
<1>1. CASE Stop(p)
  <2>1. /\ data' \in [Run -> Seq(Entry)] /\ human' \in [Run -> Node \cup {None}]
        /\ \A q \in Run : q # p => human'[q] = human[q]
    BY <1>0, <1>1, RecordIs DEF Stop, Status
  <2>2. TypeOK'
    BY <1>1, <2>1 DEF Stop, database, TypeOK
  <2>3. Placed'
    BY <1>1, <2>1 DEF Stop, database, TypeOK, Placed
  <2> QED
    BY <2>2, <2>3
<1>2. CASE Throw(p)
  <2>1. PICK status \in {"ERROR", "TERMINATED"} : Fail(p, n, status)
    BY <1>2 DEF Throw
  <2>2. /\ data' \in [Run -> Seq(Entry)]
        /\ pc' = [pc EXCEPT ![p] = IF status = "ERROR" THEN "failing" ELSE "terminating"]
    <3>1. CASE status = "ERROR"
      BY <1>0, <2>1, <3>1, FailIs
    <3>2. CASE status = "TERMINATED"
      BY <1>0, <2>1, <3>2, FailIs
    <3> QED
      BY <3>1, <3>2
  <2>3. TypeOK'
    BY <1>2, <2>2 DEF Throw, database, TypeOK
  <2>4. Placed'
    BY <1>0, <1>2, <2>2 DEF Throw, database, TypeOK, Placed
  <2> QED
    BY <2>3, <2>4
<1>3. CASE Iterate(p)
  <2>1. data' \in [Run -> Seq(Entry)]
    <3>1. CASE UNCHANGED data
      BY <3>1 DEF TypeOK
    <3>2. CASE ItemRan(p, n)
      <4>1. PICK m \in Node, status \in {"FINISHED", "STOPPED"} :
              data' = [data EXCEPT ![p] = Append(@, [node |-> m, status |-> status, outcome |-> 0])]
        BY <3>2 DEF ItemRan
      <4>2. [node |-> m, status |-> status, outcome |-> 0] \in Entry /\ data \in [Run -> Seq(Entry)]
        BY DEF Entry, Status, TypeOK
      <4>3. Append(data[p], [node |-> m, status |-> status, outcome |-> 0]) \in Seq(Entry)
        BY <4>2, OneMore
      <4> QED
        BY <4>1, <4>2, <4>3
    <3> QED
      BY <1>3, <3>1, <3>2 DEF Iterate
  <2>2. rows' \in [Row -> RowValue] /\ created' \in Seq(Row)
    <3>0. rows \in [Row -> RowValue] /\ created \in Seq(Row)
      BY DEF TypeOK, RowValue
    <3>1. CASE UNCHANGED <<rows, created>>
      BY <3>0, <3>1
    <3>2. CASE ItemSaved(p)
      <4>1. [state |-> rows[row[p]].state, data |-> data'[p]] \in RowValue
        BY <1>0, <2>1, <3>0 DEF RowValue
      <4> QED
        BY <3>0, <3>2, <4>1, RowIs DEF ItemSaved
    <3>3. ASSUME NEW o \in Orphan, rows' = [rows EXCEPT ![o] = [state |-> "INPROGRESS", data |-> <<>>]],
                 created' = Append(created, o)
          PROVE  rows' \in [Row -> RowValue] /\ created' \in Seq(Row)
      <4>1. [state |-> "INPROGRESS", data |-> <<>>] \in RowValue
        BY DEF RowValue, States
      <4>2. o \in Row
        OBVIOUS
      <4> HIDE DEF Row
      <4> QED
        BY <3>0, <3>3, <4>1, <4>2, RowIs, OneMore
    <3> QED
      BY <1>3, <3>1, <3>2, <3>3 DEF Iterate, ItemOrphaned
  <2>3. items' \in [Run -> Nat]
    BY <1>3 DEF Iterate, TypeOK
  <2>4. TypeOK'
    BY <1>3, <2>1, <2>2, <2>3 DEF Iterate, TypeOK, RowValue
  <2>5. Placed'
    BY <1>3 DEF Iterate, Placed
  <2> QED
    BY <2>4, <2>5
<1>4. CASE Finish(p)
  <2>1. PICK outcome \in Outcomes(n) :
          /\ Record(p, n, "FINISHED", outcome)
          /\ waiting' = [waiting EXCEPT ![p] = DeliverAll(p, n, outcome).waiting]
          /\ queue' = [queue EXCEPT ![p] = IF LoopsAgain(p, n)
                         THEN Append(DeliverAll(p, n, outcome).queue, Item(LoopTarget[n], {}))
                         ELSE DeliverAll(p, n, outcome).queue]
    BY <1>4 DEF Finish
  <2>2. outcome \in Nat
    BY EdgesAre DEF Outcomes, Handles, EdgeIds
  <2>3. /\ data' \in [Run -> Seq(Entry)] /\ human' \in [Run -> Node \cup {None}]
        /\ \A q \in Run : q # p => human'[q] = human[q]
    BY <1>0, <2>1, <2>2, RecordIs DEF Status
  <2>4. DeliverAll(p, n, outcome) \in Box
    BY <1>0, DeliverAllIs DEF TypeOK, QItem
  <2>5. waiting' \in [Run -> [Node -> SUBSET Node]]
    BY <2>1, <2>4 DEF TypeOK, Box
  <2>6. queue' \in [Run -> Seq(QItem)]
    <3>1. LoopsAgain(p, n) => Item(LoopTarget[n], {}) \in QItem
      BY <1>0, EngineAssumption DEF LoopsAgain, Item, QItem
    <3>2. DeliverAll(p, n, outcome).queue \in Seq(QItem) /\ queue \in [Run -> Seq(QItem)]
      BY <2>4 DEF Box, TypeOK, QItem
    <3>3. LoopsAgain(p, n) => Append(DeliverAll(p, n, outcome).queue, Item(LoopTarget[n], {})) \in Seq(QItem)
      BY <3>1, <3>2, OneMore
    <3> QED
      BY <2>1, <3>2, <3>3
  <2>7. loops' \in [Run -> [Node -> Nat]] /\ passed' \in [Run -> Nat]
    <3>1. loops \in [Run -> [Node -> Nat]] /\ passed \in [Run -> Nat]
      BY DEF TypeOK
    <3>2. loops' = IF LoopsAgain(p, n) THEN [loops EXCEPT ![p][n] = @ + 1] ELSE loops
      BY <1>4 DEF Finish
    <3>3. passed' = [passed EXCEPT ![p] = IF Kind[n] = "human" THEN @ + 1 ELSE @]
      BY <1>4 DEF Finish
    <3>4. loops' \in [Run -> [Node -> Nat]]
      BY <1>0, <3>1, <3>2
    <3>5. passed' \in [Run -> Nat]
      BY <3>1, <3>3
    <3> QED
      BY <3>4, <3>5
  <2>8. /\ pc' = [pc EXCEPT ![p] = "running"]
        /\ UNCHANGED <<iterations, items, current, aborted, row, rows, created>>
    BY <1>4 DEF Finish, database
  <2>9. TypeOK'
    BY <2>3, <2>5, <2>6, <2>7, <2>8 DEF TypeOK, QItem
  <2>10. Placed'
    BY <1>0, <2>3, <2>8 DEF TypeOK, Placed
  <2> QED
    BY <2>9, <2>10
<1> QED
  BY <1>1, <1>2, <1>3, <1>4

\* The state an execution ends with.
LEMMA VerdictIs == ASSUME NEW d PROVE Verdict(d) \in Status
  BY DEF Verdict, Status

\* A request writes its row for the last time.
LEMMA EndTypes == ASSUME TInv, NEW p \in Run, Complete(p) \/ WriteFailure(p) PROVE TInv'
<1> USE DEF TInv
<1>1. PICK state \in Status : Write(p, state)
  BY VerdictIs DEF Complete, WriteFailure, Status
<1>2. rows' \in [Row -> RowValue]
  <2>1. rows \in [Row -> RowValue]
    BY DEF TypeOK, RowValue
  <2>2. [state |-> state, data |-> data[p]] \in RowValue
    BY DEF TypeOK, RowValue, States
  <2> QED
    BY <1>1, <2>1, <2>2, RowIs DEF Write
<1>3. /\ pc[p] \notin {"new", "refused"}
      /\ \E place \in {"done", "failed"} : pc' = [pc EXCEPT ![p] = place]
      /\ UNCHANGED <<local, aborted, row, created, passed>>
  BY DEF Complete, WriteFailure
<1>4. TypeOK'
  BY <1>2, <1>3 DEF local, TypeOK, RowValue
<1>5. Placed'
  BY <1>3 DEF local, TypeOK, Placed
<1> QED
  BY <1>4, <1>5

\* The values of the variables stay what they are.
LEMMA StepTypes == TInv /\ [Next]_vars => TInv'
<1>1. ASSUME TInv, UNCHANGED vars PROVE TInv'
  BY <1>1 DEF vars, local, database, TInv, TypeOK, Placed
<1>2. ASSUME TInv, NEW p \in Run, Abort(p) PROVE TInv'
  BY <1>2 DEF Abort, local, database, TInv, TypeOK, Placed
<1>3. ASSUME TInv, NEW e \in Row, Delete(e) PROVE TInv'
  <2>1. rows' \in [Row -> RowValue]
    <3>1. [state |-> "absent", data |-> <<>>] \in RowValue
      BY DEF RowValue, States
    <3> QED
      BY <1>3, <3>1, RowIs DEF Delete, TInv
  <2>2. TypeOK'
    BY <1>3, <2>1 DEF Delete, local, TInv, TypeOK, RowValue
  <2>3. Placed'
    BY <1>3 DEF Delete, local, TInv, Placed
  <2> QED
    BY <2>2, <2>3 DEF TInv
<1> QED
  BY <1>1, <1>2, <1>3, RequestTypes, ClaimTypes, TurnTypes, NodeTypes, EndTypes DEF Next, Step

\* The values the variables begin with.
LEMMA InitTypes == Init => TInv
  BY DEF Init, TInv, TypeOK, Placed, States

\* In every flow graph, and however requests interleave, every variable of the engine holds
\* a value the code can give it: in particular the queue that processNodeOutputs fills and
\* the executed data, filtered or not, hold nodes of the flow.
THEOREM TypeCorrect == Spec => []TypeOK
<1>1. Spec => []TInv
  BY InitTypes, StepTypes, PTL DEF Spec
<1>2. TInv => TypeOK
  BY DEF TInv
<1> QED
  BY <1>1, <1>2, PTL

--------------------------------------------------------------------------------
\* What the executed data tells

\* No entry, or none before the last, failed or was aborted.
Calm(d)       == \A i \in DOMAIN d : d[i].status \in {"FINISHED", "STOPPED"}
CalmBefore(d) == \A i \in DOMAIN d : i < Len(d) => d[i].status \in {"FINISHED", "STOPPED"}

EndsIn(d, status) == d # <<>> /\ d[Len(d)].status = status

\* Only a request that is about to write its failure has an entry that failed: the last one.
DataCalm ==
  \A p \in Run :
    /\ CalmBefore(data[p])
    /\ pc[p] \notin {"failing", "terminating", "failed"} => Calm(data[p])
    /\ pc[p] = "failing" => EndsIn(data[p], "ERROR")
    /\ pc[p] = "terminating" => EndsIn(data[p], "TERMINATED")

\* The data in a row may be resumed with.
RowsCalm ==
  \A e \in Row : CalmBefore(rows[e].data) /\ (rows[e].state = "STOPPED" => Calm(rows[e].data))

\* A request that may still write its row.
AtWork(p) == pc[p] \in {"running", "executing", "stopping", "failing", "terminating", "limit"}

\* The state of a row tells what its data tells.
Tells(r) ==
  CASE r.state = "FINISHED" -> StatusesIn(r.data) \subseteq {"FINISHED"}
    [] r.state = "STOPPED"  -> /\ "STOPPED" \in StatusesIn(r.data)
                               /\ StatusesIn(r.data) \subseteq {"FINISHED", "STOPPED"}
    [] r.state \in {"ERROR", "TERMINATED"} -> EndsIn(r.data, r.state)
    [] OTHER -> TRUE

DInv == DataCalm /\ RowsCalm /\ RowTellsData

\* No entry at all.
LEMMA CalmNone == Calm(<<>>) /\ CalmBefore(<<>>)
  BY DEF Calm, CalmBefore

\* One more entry.
LEMMA CalmMore ==
  ASSUME NEW d \in Seq(Entry), Calm(d), NEW entry \in Entry
  PROVE  /\ CalmBefore(Append(d, entry)) /\ EndsIn(Append(d, entry), entry.status)
         /\ entry.status \in {"FINISHED", "STOPPED"} => Calm(Append(d, entry))
<1>1. /\ Append(d, entry) # <<>> /\ Len(Append(d, entry)) = Len(d) + 1
      /\ \A i \in DOMAIN d : Append(d, entry)[i] = d[i]
      /\ Append(d, entry)[Len(d) + 1] = entry
      /\ DOMAIN Append(d, entry) = DOMAIN d \cup {Len(d) + 1}
      /\ DOMAIN d = 1..Len(d) /\ Len(d) \in Nat
  BY OneMore, Elements
<1> QED
  BY <1>1 DEF Calm, CalmBefore, EndsIn

\* Entries of a node are left out.
LEMMA CalmKept ==
  ASSUME NEW d \in Seq(Entry), Calm(d), NEW n PROVE Calm(WithoutNode(d, n))
  BY KeptIs DEF Calm

\* A row's data to resume with.
LEMMA CalmDataOf ==
  ASSUME NEW r \in RowValue, Resumable(r), CalmBefore(r.data), r.state = "STOPPED" => Calm(r.data)
  PROVE  Calm(DataOf(r))
<1>1. r.data \in Seq(Entry)
  BY DEF RowValue
<1>2. CASE r.state = "STOPPED"
  BY <1>2 DEF DataOf
<1>3. CASE r.state # "STOPPED"
  <2>1. r.data # <<>>
    BY <1>1, <1>3 DEF Resumable, FailedOnResume
  <2>2. \A i \in DOMAIN DropLast(r.data) :
          i \in DOMAIN r.data /\ i < Len(r.data) /\ DropLast(r.data)[i] = r.data[i]
    BY <1>1, <2>1, OneLess
  <2> QED
    BY <1>3, <2>2 DEF DataOf, Calm, CalmBefore
<1> QED
  BY <1>2, <1>3

\* The last status follows from the data.
LEMMA VerdictTells ==
  ASSUME NEW d, Calm(d) PROVE Tells([state |-> Verdict(d), data |-> d])
<1>1. StatusesIn(d) \subseteq {"FINISHED", "STOPPED"}
  BY DEF StatusesIn, Calm
<1>2. Verdict(d) = IF "STOPPED" \in StatusesIn(d) THEN "STOPPED" ELSE "FINISHED"
  BY <1>1 DEF Verdict
<1> QED
  BY <1>1, <1>2 DEF Tells

\* RowTellsData, with the names above.
LEMMA TellsIs ==
  RowTellsData <=>
    \A e \in Row : \/ Tells(rows[e])
                   \/ /\ \E i \in DOMAIN rows[e].data : Parent[rows[e].data[i].node] # None
                      /\ \E p \in Run : row[p] = e /\ AtWork(p)
  BY DEF RowTellsData, ItemsUnderWay, Tells, AtWork, EndsIn

\* As long as nobody leaves a row, only a row that someone ends must tell its data anew.
LEMMA TellsOn ==
  ASSUME RowTellsData,
         \A q \in Run : AtWork(q) => AtWork(q)' /\ row'[q] = row[q],
         \A e \in Row : \/ rows'[e] = rows[e]
                        \/ rows'[e].state \in {"INPROGRESS", "absent"}
                        \/ /\ \E i \in DOMAIN rows'[e].data : Parent[rows'[e].data[i].node] # None
                           /\ \E p \in Run : row'[p] = e /\ AtWork(p)'
  PROVE  RowTellsData'
<1>1. SUFFICES ASSUME NEW e \in Row
               PROVE  \/ Tells(rows'[e])
                      \/ /\ \E i \in DOMAIN rows'[e].data : Parent[rows'[e].data[i].node] # None
                         /\ \E p \in Run : row'[p] = e /\ AtWork(p)'
  BY DEF RowTellsData, ItemsUnderWay, Tells, AtWork, EndsIn
<1>2. CASE rows'[e] = rows[e]
  BY <1>2, TellsIs
<1>3. CASE rows'[e].state \in {"INPROGRESS", "absent"}
  BY <1>3 DEF Tells
<1> QED
  BY <1>2, <1>3

\* A request begins.
LEMMA RequestData == ASSUME TInv, DInv, NEW p \in Run, Request(p) PROVE DInv'
<1> USE DEF DInv
<1>0. /\ pc = [q \in Run |-> pc[q]] /\ data \in [Run -> Seq(Entry)]
      /\ row = [q \in Run |-> row[q]] /\ rows = [e \in Row |-> rows[e]]
  BY DEF TInv, TypeOK
<1>1. CASE Start(p)
  <2>1. /\ pc[p] = "new" /\ pc' = [pc EXCEPT ![p] = "running"]
        /\ row' = [row EXCEPT ![p] = p] /\ UNCHANGED data
        /\ rows' = [rows EXCEPT ![p] = [state |-> "INPROGRESS", data |-> <<>>]]
    BY <1>1 DEF Start
  <2>2. DataCalm'
    BY <1>0, <2>1 DEF DataCalm
  <2>3. RowsCalm'
    BY <1>0, <2>1, CalmNone DEF RowsCalm
  <2>4. RowTellsData'
    <3>1. \A q \in Run : AtWork(q) => AtWork(q)' /\ row'[q] = row[q]
      BY <1>0, <2>1 DEF AtWork
    <3>2. \A e \in Row : rows'[e] = rows[e] \/ rows'[e].state = "INPROGRESS"
      BY <1>0, <2>1
    <3> QED
      BY <3>1, <3>2, TellsOn
  <2> QED
    BY <2>2, <2>3, <2>4
<1>2. ASSUME NEW at, Resume(p, at) PROVE DInv'
  <2>1. Latest \in Row /\ rows[Latest] \in RowValue /\ Resumable(rows[Latest])
    BY <1>2, LatestIs DEF Resume, TInv, TypeOK, RowValue, CanResume
  <2>2. Calm(DataOf(rows[Latest]))
    BY <2>1, CalmDataOf DEF RowsCalm
  <2>3. /\ pc[p] = "new" /\ UNCHANGED rows
        /\ \E place \in {"claiming", "reclaiming"} : pc' = [pc EXCEPT ![p] = place]
        /\ data' = [data EXCEPT ![p] = DataOf(rows[Latest])]
        /\ row' = [row EXCEPT ![p] = Latest]
    BY <1>2 DEF Resume
  <2>4. DataCalm'
    BY <1>0, <2>2, <2>3 DEF DataCalm, Calm, CalmBefore
  <2>5. RowsCalm'
    BY <2>3 DEF RowsCalm
  <2>6. RowTellsData'
    <3>1. \A q \in Run : AtWork(q) => AtWork(q)' /\ row'[q] = row[q]
      BY <1>0, <2>3 DEF AtWork
    <3> QED
      BY <2>3, <3>1, TellsOn
  <2> QED
    BY <2>4, <2>5, <2>6
<1>3. ASSUME NEW at, Refuse(p, at) PROVE DInv'
  <2>1. pc[p] = "new" /\ pc' = [pc EXCEPT ![p] = "refused"] /\ UNCHANGED <<data, row, rows>>
    BY <1>3 DEF Refuse, local, database
  <2>2. DataCalm'
    BY <1>0, <2>1 DEF DataCalm
  <2>3. RowsCalm'
    BY <2>1 DEF RowsCalm
  <2>4. \A q \in Run : AtWork(q) => AtWork(q)' /\ row'[q] = row[q]
    BY <1>0, <2>1 DEF AtWork
  <2> QED
    BY <2>1, <2>2, <2>3, <2>4, TellsOn
<1> QED
  BY <1>1, <1>2, <1>3 DEF Request

\* The row of a resumed execution is claimed, or it is gone.
LEMMA ClaimData ==
  ASSUME TInv, DInv, NEW p \in Run, Reclaim(p) \/ Claim(p) \/ ClaimFails(p) PROVE DInv'
<1> USE DEF DInv
<1>0. /\ pc = [q \in Run |-> pc[q]] /\ row = [q \in Run |-> row[q]] /\ rows = [e \in Row |-> rows[e]]
  BY DEF TInv, TypeOK
<1>1. /\ pc[p] \in {"claiming", "reclaiming", "reclaimed"} /\ UNCHANGED <<data, row>>
      /\ \E place \in {"reclaimed", "running", "refused"} : pc' = [pc EXCEPT ![p] = place]
  BY DEF Reclaim, Claim, ClaimFails, local, database
<1>2. PICK d : /\ d \in {data[p], rows[row[p]].data}
               /\ \/ rows' = [rows EXCEPT ![row[p]] = [state |-> "INPROGRESS", data |-> d]]
                  \/ UNCHANGED rows
  BY DEF Reclaim, Claim, ClaimFails, database
<1>3. row[p] \in Row
  BY <1>1 DEF TInv, Placed
<1>4. CalmBefore(d)
  BY <1>2, <1>3 DEF DataCalm, RowsCalm
<1>5. DataCalm'
  BY <1>0, <1>1 DEF DataCalm
<1>6. RowsCalm'
  BY <1>0, <1>2, <1>4 DEF RowsCalm
<1>7. \A q \in Run : AtWork(q) => AtWork(q)' /\ row'[q] = row[q]
  BY <1>0, <1>1 DEF AtWork
<1>8. \A e \in Row : rows'[e] = rows[e] \/ rows'[e].state = "INPROGRESS"
  BY <1>0, <1>2
<1> QED
  BY <1>5, <1>6, <1>7, <1>8, TellsOn

\* A turn of the main loop, up to the execution of its node.
LEMMA TurnData ==
  ASSUME TInv, DInv, NEW p \in Run, Execute(p) \/ AbortedBefore(p) \/ LimitReached(p) PROVE DInv'
<1> USE DEF DInv
<1>0. /\ pc = [q \in Run |-> pc[q]] /\ data \in [Run -> Seq(Entry)]
  BY DEF TInv, TypeOK
<1>1. /\ pc[p] = "running" /\ UNCHANGED <<row, rows>>
      /\ \E place \in {"executing", "terminating", "limit"} : pc' = [pc EXCEPT ![p] = place]
  BY DEF Execute, AbortedBefore, LimitReached, Turn, Fail, Failing, local, database
<1>2. DataCalm'
  <2>1. CASE Execute(p) \/ LimitReached(p)
    <3>1. /\ UNCHANGED data
          /\ \E place \in {"executing", "limit"} : pc' = [pc EXCEPT ![p] = place]
      BY <2>1 DEF Execute, LimitReached, local
    <3> QED
      BY <1>0, <1>1, <3>1 DEF DataCalm
  <2>2. CASE AbortedBefore(p)
    <3> DEFINE entry == [node |-> Head(queue[p]).node, status |-> "TERMINATED", outcome |-> 0]
    <3>1. Head(queue[p]).node \in Node
      BY <2>2, TurnIs DEF AbortedBefore, TInv
    <3>2. /\ entry \in Entry /\ data' = [data EXCEPT ![p] = Append(data[p], entry)]
          /\ pc' = [pc EXCEPT ![p] = "terminating"]
      BY <2>2, <3>1, FailIs DEF AbortedBefore, TInv
    <3>3. entry.status = "TERMINATED"
      OBVIOUS
    <3> HIDE DEF entry
    <3>4. Calm(data[p])
      BY <1>1 DEF DataCalm
    <3>5. CalmBefore(Append(data[p], entry)) /\ EndsIn(Append(data[p], entry), "TERMINATED")
      BY <1>0, <3>2, <3>3, <3>4, CalmMore
    <3> QED
      BY <1>0, <3>2, <3>5 DEF DataCalm
  <2> QED
    BY <2>1, <2>2
<1>3. RowsCalm'
  BY <1>1 DEF RowsCalm
<1>4. \A q \in Run : AtWork(q) => AtWork(q)' /\ row'[q] = row[q]
  BY <1>0, <1>1 DEF AtWork
<1> QED
  BY <1>1, <1>2, <1>3, <1>4, TellsOn

\* An entry that fits where the request goes on.
Fits(place, status) ==
  \/ place \in {"running", "executing", "stopping"} /\ status \in {"FINISHED", "STOPPED"}
  \/ place = "failing" /\ status = "ERROR"
  \/ place = "terminating" /\ status = "TERMINATED"

\* The data of a request becomes d with one more entry, and the request goes on at place.
Adds(p, d, entry, place) ==
  /\ data' = [data EXCEPT ![p] = Append(d, entry)]
  /\ pc' = [pc EXCEPT ![p] = place]

\* Such an entry keeps the data calm.
LEMMA DataOn ==
  ASSUME TypeOK, DataCalm, NEW p \in Run, NEW d \in Seq(Entry), Calm(d), NEW entry \in Entry,
         NEW place, Adds(p, d, entry, place), Fits(place, entry.status)
  PROVE  DataCalm'
<1>1. /\ CalmBefore(Append(d, entry)) /\ EndsIn(Append(d, entry), entry.status)
      /\ entry.status \in {"FINISHED", "STOPPED"} => Calm(Append(d, entry))
  BY CalmMore
<1>2. data \in [Run -> Seq(Entry)] /\ pc = [q \in Run |-> pc[q]]
  BY DEF TypeOK
<1> QED
  BY <1>1, <1>2 DEF DataCalm, Adds, Fits

\* The rows after an item that is saved.
LEMMA SavedRows ==
  ASSUME TypeOK, NEW p \in Run, ItemSaved(p)
  PROVE  \A e \in Row : \/ rows'[e] = rows[e]
                        \/ e = row[p] /\ rows'[e].state = rows[e].state /\ rows'[e].data = data'[p]
<1>1. rows = [e \in Row |-> rows[e]]
  BY DEF TypeOK
<1>2. rows' = [rows EXCEPT ![row[p]] = [state |-> rows[row[p]].state, data |-> data'[p]]]
  BY DEF ItemSaved
<1> SUFFICES ASSUME NEW e \in Row, e = row[p]
             PROVE  rows'[e].state = rows[e].state /\ rows'[e].data = data'[p]
  BY <1>1, <1>2
<1>3. rows'[e] = [state |-> rows[row[p]].state, data |-> data'[p]]
  BY <1>1, <1>2
<1> QED
  BY <1>3

\* The rows after an item whose row is gone.
LEMMA OrphanedRows ==
  ASSUME TypeOK, NEW p \in Run, ItemOrphaned(p)
  PROVE  \A e \in Row : rows'[e] = rows[e] \/ (rows'[e].state = "INPROGRESS" /\ rows'[e].data = <<>>)
<1>1. rows = [e \in Row |-> rows[e]]
  BY DEF TypeOK
<1>2. CASE UNCHANGED rows
  BY <1>2
<1>3. ASSUME NEW o, rows' = [rows EXCEPT ![o] = [state |-> "INPROGRESS", data |-> <<>>]], NEW e \in Row
      PROVE  rows'[e] = rows[e] \/ (rows'[e].state = "INPROGRESS" /\ rows'[e].data = <<>>)
  <2>1. CASE e = o
    BY <1>1, <1>3, <2>1
  <2>2. CASE e # o
    BY <1>1, <1>3, <2>2
  <2> QED
    BY <2>1, <2>2
<1> QED
  BY <1>2, <1>3 DEF ItemOrphaned

\* A node runs: to its end, to a stop, to a failure, or through one item.
LEMMA NodeData ==
  ASSUME TInv, DInv, NEW p \in Run, Stop(p) \/ Throw(p) \/ Iterate(p) \/ Finish(p) PROVE DInv'
<1> USE DEF DInv
<1> DEFINE n == current[p]
<1>0. /\ pc = [q \in Run |-> pc[q]] /\ data \in [Run -> Seq(Entry)]
      /\ rows = [e \in Row |-> rows[e]]
  BY DEF TInv, TypeOK
<1>1. n \in Node /\ pc[p] = "executing" /\ row[p] \in Row /\ Calm(data[p])
  BY DEF Stop, Throw, Iterate, Finish, TInv, Placed, DataCalm
<1>2. CASE Stop(p) \/ Throw(p) \/ Finish(p)
  <2>1. /\ UNCHANGED <<row, rows>>
        /\ \E place \in {"stopping", "failing", "terminating", "running"} : pc' = [pc EXCEPT ![p] = place]
    BY <1>2 DEF Stop, Throw, Fail, Failing, Finish, database
  <2>2. DataCalm'
    <3>1. ASSUME NEW status \in {"FINISHED", "STOPPED"}, NEW outcome \in Nat,
                 Record(p, n, status, outcome),
                 NEW place \in {"running", "stopping"}, pc' = [pc EXCEPT ![p] = place]
          PROVE  DataCalm'
      <4> DEFINE entry == [node |-> n, status |-> status, outcome |-> outcome]
      <4>1. /\ Recorded(p, n) \in Seq(Entry) /\ entry \in Entry
            /\ data' = [data EXCEPT ![p] = Append(Recorded(p, n), entry)]
        BY <1>1, <3>1, RecordIs DEF TInv, Status
      <4>2. Calm(Recorded(p, n))
        BY <1>0, <1>1, CalmKept DEF Recorded
      <4>3. Adds(p, Recorded(p, n), entry, place) /\ Fits(place, entry.status)
        BY <3>1, <4>1 DEF Adds, Fits
      <4> HIDE DEF entry, n
      <4> QED
        BY <4>1, <4>2, <4>3, DataOn DEF TInv
    <3>2. ASSUME NEW status \in {"ERROR", "TERMINATED"}, Fail(p, n, status)
          PROVE  DataCalm'
      <4> DEFINE entry == [node |-> n, status |-> status, outcome |-> 0]
                 place == IF status = "ERROR" THEN "failing" ELSE "terminating"
      <4>1. entry \in Entry /\ Adds(p, data[p], entry, place)
        <5>1. CASE status = "ERROR"
          BY <1>1, <3>2, <5>1, FailIs DEF TInv, Adds
        <5>2. CASE status = "TERMINATED"
          BY <1>1, <3>2, <5>2, FailIs DEF TInv, Adds
        <5> QED
          BY <5>1, <5>2
      <4>2. Fits(place, entry.status)
        BY DEF Fits
      <4>3. data[p] \in Seq(Entry)
        BY <1>0
      <4> HIDE DEF entry, n, place
      <4> QED
        BY <1>1, <4>1, <4>2, <4>3, DataOn DEF TInv
    <3>3. CASE Stop(p)
      BY <3>1, <3>3 DEF Stop
    <3>4. CASE Throw(p)
      BY <3>2, <3>4 DEF Throw
    <3>5. CASE Finish(p)
      <4>1. PICK outcome \in Outcomes(n) : Record(p, n, "FINISHED", outcome)
        BY <3>5 DEF Finish
      <4>2. outcome \in Nat
        BY EdgesAre DEF Outcomes, Handles, EdgeIds
      <4>3. pc' = [pc EXCEPT ![p] = "running"]
        BY <3>5 DEF Finish
      <4> QED
        BY <3>1, <4>1, <4>2, <4>3
    <3> QED
      BY <1>2, <3>3, <3>4, <3>5
  <2>3. RowsCalm'
    BY <2>1 DEF RowsCalm
  <2>4. \A q \in Run : AtWork(q) => AtWork(q)' /\ row'[q] = row[q]
    BY <1>0, <1>1, <2>1 DEF AtWork
  <2> QED
    BY <2>1, <2>2, <2>3, <2>4, TellsOn
<1>3. CASE Iterate(p)
  <2>1. UNCHANGED <<pc, row>>
    BY <1>3 DEF Iterate
  <2>2. \A q \in Run : AtWork(q) => AtWork(q)' /\ row'[q] = row[q]
    BY <2>1 DEF AtWork
  <2>3. CASE ItemRan(p, n) /\ (ItemSaved(p) \/ ItemOrphaned(p))
    <3>1. PICK m \in Node, status \in {"FINISHED", "STOPPED"} :
            /\ Parent[m] = n
            /\ data' = [data EXCEPT ![p] = Append(@, [node |-> m, status |-> status, outcome |-> 0])]
      BY <2>3 DEF ItemRan
    <3> DEFINE entry == [node |-> m, status |-> status, outcome |-> 0]
    <3>2. entry \in Entry /\ Adds(p, data[p], entry, "executing") /\ data[p] \in Seq(Entry)
      BY <1>0, <1>1, <2>1, <3>1 DEF Entry, Status, Adds
    <3>3. Fits("executing", entry.status) /\ entry.status \in {"FINISHED", "STOPPED"}
      BY DEF Fits
    <3>4. DataCalm'
      <4> HIDE DEF entry, n
      <4> QED
        BY <1>1, <3>2, <3>3, DataOn DEF TInv
    <3>5. Calm(data'[p]) /\ CalmBefore(data'[p])
      <4>1. pc'[p] = "executing"
        BY <1>1, <2>1
      <4> QED
        BY <3>4, <4>1 DEF DataCalm
    <3>6. \E i \in DOMAIN data'[p] : Parent[data'[p][i].node] # None
      <4>1. /\ DOMAIN data'[p] = DOMAIN data[p] \cup {Len(data[p]) + 1}
            /\ data'[p][Len(data[p]) + 1] = entry
        <5>1. data'[p] = Append(data[p], entry)
          BY <1>0, <3>1
        <5> HIDE DEF entry
        <5> QED
          BY <3>2, <5>1, OneMore
      <4>2. Parent[entry.node] # None
        BY <1>1, <3>1, GraphAssumption
      <4> HIDE DEF entry
      <4> QED
        BY <4>1, <4>2
    <3>7. \A e \in Row : \/ rows'[e] = rows[e]
                         \/ rows'[e].state = "INPROGRESS" /\ rows'[e].data = <<>>
                         \/ /\ e = row[p] /\ rows'[e].state = rows[e].state
                            /\ rows'[e].data = data'[p]
      BY <2>3, SavedRows, OrphanedRows DEF TInv
    <3>8. RowsCalm'
      BY <3>5, <3>7, CalmNone DEF RowsCalm
    <3>9. row'[p] = row[p] /\ AtWork(p)'
      BY <1>1, <2>1 DEF AtWork
    <3> QED
      BY <2>2, <3>4, <3>6, <3>7, <3>8, <3>9, TellsOn
  <2>4. CASE UNCHANGED data /\ (ItemOrphaned(p) \/ UNCHANGED rows)
    <3>1. \A e \in Row : rows'[e] = rows[e] \/ (rows'[e].state = "INPROGRESS" /\ rows'[e].data = <<>>)
      BY <2>4, OrphanedRows DEF TInv
    <3>2. DataCalm'
      BY <2>1, <2>4 DEF DataCalm
    <3>3. RowsCalm'
      BY <3>1, CalmNone DEF RowsCalm
    <3> QED
      BY <2>2, <3>1, <3>2, <3>3, TellsOn
  <2> QED
    BY <1>3, <2>3, <2>4 DEF Iterate
<1> QED
  BY <1>2, <1>3

\* The rows after the last write of a request.
LEMMA WrittenRows ==
  ASSUME TypeOK, NEW p \in Run, row[p] \in Row, NEW state \in Status, Write(p, state)
  PROVE  \A e \in Row : \/ rows'[e] = rows[e] /\ (e = row[p] => rows[e].state = "absent")
                        \/ e = row[p] /\ rows'[e] = [state |-> state, data |-> data[p]]
  BY DEF TypeOK, Write, Exists

\* A request writes its row for the last time.
LEMMA EndData == ASSUME TInv, DInv, NEW p \in Run, Complete(p) \/ WriteFailure(p) PROVE DInv'
<1> USE DEF DInv
<1>0. pc = [q \in Run |-> pc[q]] /\ data \in [Run -> Seq(Entry)]
  BY DEF TInv, TypeOK
<1>1. PICK state \in Status :
        /\ Write(p, state)
        /\ Tells([state |-> state, data |-> data[p]])
        /\ state = "STOPPED" => Calm(data[p])
  <2>1. CASE Complete(p)
    <3>1. pc[p] \in {"running", "stopping"} /\ Write(p, Verdict(data[p]))
      BY <2>1 DEF Complete
    <3>2. Calm(data[p])
      BY <3>1 DEF DataCalm
    <3> QED
      BY <3>1, <3>2, VerdictIs, VerdictTells
  <2>2. CASE WriteFailure(p)
    <3>1. PICK state \in {"ERROR", "TERMINATED"} :
            Write(p, state) /\ state = (IF pc[p] = "failing" THEN "ERROR" ELSE "TERMINATED")
      BY <2>2 DEF WriteFailure
    <3>2. EndsIn(data[p], state)
      BY <2>2, <3>1 DEF WriteFailure, DataCalm
    <3>3. Tells([state |-> state, data |-> data[p]])
      BY <3>2 DEF Tells
    <3> QED
      BY <3>1, <3>3 DEF Status
  <2> QED
    BY <2>1, <2>2
<1>2. /\ pc[p] \in {"running", "stopping", "failing", "terminating"}
      /\ \E place \in {"done", "failed"} :
           pc' = [pc EXCEPT ![p] = place] /\ (place = "done" => pc[p] \in {"running", "stopping"})
      /\ UNCHANGED <<data, row>>
  BY DEF Complete, WriteFailure, local
<1>3. row[p] \in Row
  BY <1>2 DEF TInv, Placed
<1>4. \A e \in Row : \/ rows'[e] = rows[e] /\ (e = row[p] => rows[e].state = "absent")
                     \/ e = row[p] /\ rows'[e] = [state |-> state, data |-> data[p]]
  BY <1>1, <1>3, WrittenRows DEF TInv
<1>5. DataCalm'
  <2>1. /\ \A q \in Run : q # p => pc'[q] = pc[q]
        /\ pc'[p] = "failed" \/ (pc'[p] = "done" /\ pc[p] \in {"running", "stopping"})
    BY <1>0, <1>2
  <2> QED
    BY <1>2, <2>1 DEF DataCalm
<1>6. RowsCalm'
  <2>1. CalmBefore(data[p])
    BY DEF DataCalm
  <2> QED
    BY <1>1, <1>4, <2>1 DEF RowsCalm
<1>7. RowTellsData'
  <2>1. SUFFICES ASSUME NEW e \in Row, ~ Tells(rows'[e])
                 PROVE  /\ \E i \in DOMAIN rows'[e].data : Parent[rows'[e].data[i].node] # None
                        /\ \E q \in Run : row'[q] = e /\ AtWork(q)'
    BY DEF RowTellsData, ItemsUnderWay, Tells, AtWork, EndsIn
  <2>2. e # row[p] /\ rows'[e] = rows[e]
    <3>1. rows[e].state = "absent" => Tells(rows[e])
      BY DEF Tells
    <3> QED
      BY <1>1, <1>4, <2>1, <3>1
  <2>3. /\ \E i \in DOMAIN rows[e].data : Parent[rows[e].data[i].node] # None
        /\ \E q \in Run : row[q] = e /\ AtWork(q)
    BY <2>1, <2>2, TellsIs
  <2>4. PICK q \in Run : row[q] = e /\ AtWork(q)
    BY <2>3
  <2>5. row'[q] = e /\ AtWork(q)'
    BY <1>0, <1>2, <2>2, <2>4 DEF AtWork
  <2> QED
    BY <2>2, <2>3, <2>5
<1> QED
  BY <1>5, <1>6, <1>7

\* Every step keeps what the data tells.
LEMMA StepData == TInv /\ DInv /\ [Next]_vars => DInv'
<1>1. ASSUME DInv, UNCHANGED <<pc, data, row, rows>> PROVE DInv'
  BY <1>1 DEF DInv, DataCalm, RowsCalm, RowTellsData, ItemsUnderWay
<1>2. ASSUME DInv, NEW p \in Run, Abort(p) PROVE DInv'
  BY <1>1, <1>2 DEF Abort, local, database
<1>3. ASSUME TInv, DInv, NEW e \in Row, Delete(e) PROVE DInv'
  <2>1. /\ UNCHANGED <<pc, data, row>>
        /\ rows' = [rows EXCEPT ![e] = [state |-> "absent", data |-> <<>>]]
        /\ rows = [f \in Row |-> rows[f]]
    BY <1>3 DEF Delete, local, TInv, TypeOK
  <2>2. \A f \in Row : rows'[f] = rows[f] \/ (rows'[f].state = "absent" /\ rows'[f].data = <<>>)
    BY <2>1
  <2>3. DataCalm'
    BY <1>3, <2>1 DEF DInv, DataCalm
  <2>4. RowsCalm'
    BY <1>3, <2>2, CalmNone DEF DInv, RowsCalm
  <2>5. \A q \in Run : AtWork(q) => AtWork(q)' /\ row'[q] = row[q]
    BY <2>1 DEF AtWork
  <2> QED
    BY <1>3, <2>2, <2>3, <2>4, <2>5, TellsOn DEF DInv
<1> QED
  BY <1>1, <1>2, <1>3, RequestData, ClaimData, TurnData, NodeData, EndData
  DEF Next, Step, vars, local, database

\* At first there is no data.
LEMMA InitData == Init => DInv
<1> SUFFICES ASSUME Init PROVE DInv
  OBVIOUS
<1>1. /\ \A p \in Run : pc[p] = "new" /\ data[p] = <<>>
      /\ \A e \in Row : rows[e].state = "absent" /\ rows[e].data = <<>>
  BY DEF Init
<1>2. DataCalm /\ RowsCalm
  BY <1>1, CalmNone DEF DataCalm, RowsCalm
<1>3. RowTellsData
  BY <1>1 DEF RowTellsData
<1> QED
  BY <1>2, <1>3 DEF DInv

\* In every flow graph, and however requests interleave, whatever ends an execution leaves
\* a row whose state tells what its data tells; the only way to part the two is the save of
\* an item of an iteration by a request that still has its end to write.
THEOREM RowsTellTruth == Spec => []RowTellsData
<1>1. Spec => [](TInv /\ DInv)
  BY InitTypes, StepTypes, InitData, StepData, PTL DEF Spec
<1>2. TInv /\ DInv => RowTellsData
  BY DEF DInv
<1> QED
  BY <1>1, <1>2, PTL

--------------------------------------------------------------------------------
\* What an execution that waits asks, when answers go to the node that stopped and no node
\* is an iteration

OneRoute == ResumeAt = {} /\ \A n \in Node : Kind[n] # "iteration"

\* Nothing is asked, only the last entry asks, and the last entry failed behind one of these.
Answered(d) == \A i \in DOMAIN d : d[i].status = "FINISHED"

AskedBy(d) ==
  /\ EndsIn(d, "STOPPED")
  /\ \A i \in DOMAIN d : i < Len(d) => d[i].status = "FINISHED"

FailedAfter(d) ==
  /\ EndsIn(d, "ERROR") \/ EndsIn(d, "TERMINATED")
  /\ \A i \in DOMAIN d : i < Len(d) =>
       d[i].status = "FINISHED" \/ (i = Len(d) - 1 /\ d[i].status = "STOPPED")

\* The question that an answer for h was given to.
Open(d, h) == IF h = None THEN Answered(d) ELSE AskedBy(d) /\ d[Len(d)].node = h

RunsAsk ==
  \A p \in Run :
    /\ pc[p] \in {"new", "claiming", "reclaiming", "reclaimed", "running", "executing"} =>
         Open(data[p], human[p])
    /\ pc[p] = "stopping" => AskedBy(data[p])
    /\ pc[p] \in {"failing", "terminating"} => FailedAfter(data[p])

RowsAsk ==
  \A e \in Row :
    /\ rows[e].state = "STOPPED" => AskedBy(rows[e].data)
    /\ rows[e].state = "ERROR" => FailedAfter(rows[e].data)

QInv == RunsAsk /\ RowsAsk

\* One more entry.
LEMMA AskMore ==
  ASSUME NEW d \in Seq(Entry), NEW entry \in Entry
  PROVE  /\ Answered(d) /\ entry.status = "FINISHED" => Answered(Append(d, entry))
         /\ Answered(d) /\ entry.status = "STOPPED" => AskedBy(Append(d, entry))
         /\ (Answered(d) \/ AskedBy(d)) /\ entry.status \in {"ERROR", "TERMINATED"}
              => FailedAfter(Append(d, entry))
<1>1. /\ Append(d, entry) # <<>> /\ Len(Append(d, entry)) = Len(d) + 1
      /\ \A i \in DOMAIN d : Append(d, entry)[i] = d[i]
      /\ Append(d, entry)[Len(d) + 1] = entry
      /\ DOMAIN Append(d, entry) = DOMAIN d \cup {Len(d) + 1}
      /\ DOMAIN d = 1..Len(d) /\ Len(d) \in Nat
  BY OneMore, Elements
<1> QED
  BY <1>1 DEF Answered, AskedBy, FailedAfter, EndsIn

\* The node that was asked has answered: nothing else was asked.
LEMMA AnswerEnds ==
  ASSUME NEW d \in Seq(Entry), NEW h, h # None, Open(d, h)
  PROVE  Answered(WithoutNode(d, h))
<1>1. DOMAIN d = 1..Len(d) /\ Len(d) \in Nat
  BY Elements
<1>2. \A i \in DOMAIN WithoutNode(d, h) :
        \E j \in DOMAIN d : d[j].node # h /\ WithoutNode(d, h)[i] = d[j]
  BY KeptIs
<1>3. \A j \in DOMAIN d : d[j].node # h => d[j].status = "FINISHED"
  BY <1>1 DEF Open, AskedBy
<1> QED
  BY <1>2, <1>3 DEF Answered

\* A row that may be resumed asks one question, at the node where it is resumed.
LEMMA ResumeAsks ==
  ASSUME NEW r \in RowValue, CanResume(r, None),
         r.state = "STOPPED" => AskedBy(r.data), r.state = "ERROR" => FailedAfter(r.data)
  PROVE  Open(DataOf(r), ResumePoint(DataOf(r), None))
<1> DEFINE d == DataOf(r)
<1>1. d \in Seq(Entry) /\ r.data \in Seq(Entry) /\ Resumable(r) /\ "STOPPED" \in StatusesIn(d)
  BY DataOfIs DEF RowValue, CanResume
<1>2. AskedBy(d)
  <2>1. CASE r.state = "STOPPED"
    BY <2>1 DEF DataOf
  <2>2. CASE r.state # "STOPPED"
    <3>1. /\ r.state = "ERROR" /\ Len(r.data) >= 2
          /\ r.data[Len(r.data) - 1].status = "STOPPED"
      BY <1>1, <2>2 DEF Resumable, FailedOnResume
    <3>2. /\ r.data # <<>> /\ Len(r.data) \in Nat /\ DOMAIN r.data = 1..Len(r.data)
      BY <1>1, <3>1, Elements
    <3>3. /\ Len(DropLast(r.data)) = Len(r.data) - 1
          /\ DOMAIN DropLast(r.data) = 1..(Len(r.data) - 1)
          /\ \A i \in DOMAIN DropLast(r.data) : DropLast(r.data)[i] = r.data[i]
      BY <1>1, <3>2, OneLess
    <3>4. d = DropLast(r.data)
      BY <2>2 DEF DataOf
    <3>5. Len(d) = Len(r.data) - 1 /\ d # <<>>
      BY <1>1, <3>1, <3>2, <3>3, <3>4
    <3> HIDE DEF d
    <3> QED
      BY <3>1, <3>2, <3>3, <3>4, <3>5 DEF FailedAfter, AskedBy, EndsIn
  <2> QED
    BY <2>1, <2>2
<1>3. /\ LastStopped(d) \in DOMAIN d /\ d[LastStopped(d)].status = "STOPPED"
      /\ DOMAIN d = 1..Len(d) /\ Len(d) \in Nat
  <2> HIDE DEF d
  <2> QED
    BY <1>1, LastStoppedIs, Elements
<1>4. LastStopped(d) = Len(d)
  <2> HIDE DEF d
  <2> QED
    BY <1>2, <1>3 DEF AskedBy
<1>5. ResumePoint(d, None) = d[Len(d)].node /\ ResumePoint(d, None) \in Node
  BY <1>4, ResumePointIs DEF ResumePoint
<1> HIDE DEF d
<1>6. Open(d, ResumePoint(d, None))
  BY <1>2, <1>5, GraphAssumption DEF Open
<1> QED
  BY <1>6 DEF d

\* What an execution ends with asks what its data asks.
LEMMA VerdictAsks ==
  ASSUME NEW d \in Seq(Entry), Answered(d) \/ AskedBy(d)
  PROVE  Verdict(d) # "ERROR" /\ (Verdict(d) = "STOPPED" => AskedBy(d))
<1>1. DOMAIN d = 1..Len(d) /\ Len(d) \in Nat
  BY Elements
<1>2. StatusesIn(d) \subseteq {"FINISHED", "STOPPED"}
  BY <1>1 DEF StatusesIn, Answered, AskedBy, EndsIn
<1>3. Answered(d) => "STOPPED" \notin StatusesIn(d)
  BY DEF StatusesIn, Answered
<1> QED
  BY <1>2, <1>3 DEF Verdict

\* A request asks on as its data does.
Asks(place, d, h) ==
  /\ place \in {"new", "claiming", "reclaiming", "reclaimed", "running", "executing"} => Open(d, h)
  /\ place = "stopping" => AskedBy(d)
  /\ place \in {"failing", "terminating"} => FailedAfter(d)

\* One request at a time.
LEMMA AsksOn ==
  ASSUME RunsAsk, NEW p \in Run, Asks(pc'[p], data'[p], human'[p]),
         \A q \in Run : q # p => pc'[q] = pc[q] /\ data'[q] = data[q] /\ human'[q] = human[q]
  PROVE  RunsAsk'
  BY DEF RunsAsk, Asks

\* A request begins, or claims its row.
LEMMA RequestAsks ==
  ASSUME OneRoute, TInv, QInv, NEW p \in Run, Request(p) \/ Reclaim(p) \/ Claim(p) \/ ClaimFails(p)
  PROVE  QInv'
<1> USE DEF QInv
<1>0. /\ pc = [q \in Run |-> pc[q]] /\ data = [q \in Run |-> data[q]]
      /\ human = [q \in Run |-> human[q]] /\ rows = [e \in Row |-> rows[e]]
  BY DEF TInv, TypeOK
<1>1. CASE Resume(p, None)
  <2>1. Latest \in Row /\ rows[Latest] \in RowValue /\ CanResume(rows[Latest], None)
    BY <1>1, LatestIs DEF Resume, TInv, TypeOK, RowValue
  <2>2. Open(DataOf(rows[Latest]), ResumePoint(DataOf(rows[Latest]), None))
    BY <2>1, ResumeAsks DEF RowsAsk
  <2>3. /\ \E place \in {"claiming", "reclaiming"} : pc' = [pc EXCEPT ![p] = place]
        /\ data' = [data EXCEPT ![p] = DataOf(rows[Latest])]
        /\ human' = [human EXCEPT ![p] = ResumePoint(DataOf(rows[Latest]), None)]
        /\ UNCHANGED rows
    BY <1>1 DEF Resume
  <2>4. Asks(pc'[p], data'[p], human'[p])
    BY <1>0, <2>2, <2>3 DEF Asks
  <2>5. RunsAsk'
    BY <1>0, <2>3, <2>4, AsksOn
  <2> QED
    BY <2>3, <2>5 DEF RowsAsk
<1>2. CASE Start(p) \/ Refuse(p, None) \/ Reclaim(p) \/ Claim(p) \/ ClaimFails(p)
  <2>1. /\ pc[p] \in {"new", "claiming", "reclaiming", "reclaimed"}
        /\ \E place \in {"running", "refused", "reclaimed"} : pc' = [pc EXCEPT ![p] = place]
        /\ UNCHANGED <<data, human>>
    BY <1>2 DEF Start, Refuse, Reclaim, Claim, ClaimFails, local
  <2>2. Asks(pc'[p], data'[p], human'[p])
    BY <1>0, <2>1 DEF RunsAsk, Asks
  <2>3. RunsAsk'
    BY <1>0, <2>1, <2>2, AsksOn
  <2>4. \/ UNCHANGED rows
        \/ \E e, d : rows' = [rows EXCEPT ![e] = [state |-> "INPROGRESS", data |-> d]]
    BY <1>2 DEF Start, Refuse, Reclaim, Claim, ClaimFails, database
  <2>5. \A e \in Row : rows'[e] = rows[e] \/ rows'[e].state = "INPROGRESS"
    BY <1>0, <2>4
  <2>6. RowsAsk'
    BY <2>5 DEF RowsAsk
  <2> QED
    BY <2>3, <2>6
<1> QED
  BY <1>1, <1>2 DEF Request, OneRoute

\* A request works: what it records follows from what it asked.
LEMMA WorkAsks ==
  ASSUME OneRoute, TInv, IInv, QInv, NEW p \in Run,
         \/ Execute(p) \/ AbortedBefore(p) \/ LimitReached(p)
         \/ Stop(p) \/ Throw(p) \/ Iterate(p) \/ Finish(p)
  PROVE  QInv'
<1> USE DEF QInv
<1> DEFINE n == current[p]
<1>0. /\ pc = [q \in Run |-> pc[q]] /\ data \in [Run -> Seq(Entry)]
      /\ human = [q \in Run |-> human[q]]
  BY DEF TInv, TypeOK
<1>1. ~ Iterate(p)
  BY DEF Iterate, OneRoute, TInv, Placed
<1>2. UNCHANGED rows
  BY <1>1 DEF Execute, AbortedBefore, LimitReached, Stop, Throw, Finish, database
<1>3. RowsAsk'
  BY <1>2 DEF RowsAsk
<1>4. pc[p] \in {"running", "executing"} /\ Open(data[p], human[p])
  <2>1. pc[p] \in {"running", "executing"}
    BY DEF Execute, AbortedBefore, LimitReached, Turn, Stop, Throw, Iterate, Finish
  <2> QED
    BY <2>1 DEF RunsAsk
<1>5. Answered(data[p]) \/ AskedBy(data[p])
  BY <1>4 DEF Open
<1>6. CASE Execute(p) \/ LimitReached(p)
  <2>1. /\ \E place \in {"executing", "limit"} : pc' = [pc EXCEPT ![p] = place]
        /\ UNCHANGED <<data, human>>
    BY <1>6 DEF Execute, LimitReached, local
  <2>2. Asks(pc'[p], data'[p], human'[p])
    BY <1>0, <1>4, <2>1 DEF Asks
  <2> QED
    BY <1>0, <1>3, <2>1, <2>2, AsksOn
<1>7. ASSUME NEW m \in Node, NEW status \in {"ERROR", "TERMINATED"}, Fail(p, m, status), UNCHANGED human
      PROVE  QInv'
  <2> DEFINE entry == [node |-> m, status |-> status, outcome |-> 0]
  <2>1. /\ entry \in Entry /\ data' = [data EXCEPT ![p] = Append(data[p], entry)]
        /\ \E place \in {"failing", "terminating"} : pc' = [pc EXCEPT ![p] = place]
    <3>1. CASE status = "ERROR"
      BY <1>7, <3>1, FailIs DEF TInv
    <3>2. CASE status = "TERMINATED"
      BY <1>7, <3>2, FailIs DEF TInv
    <3> QED
      BY <3>1, <3>2
  <2>2. entry.status \in {"ERROR", "TERMINATED"} /\ data[p] \in Seq(Entry)
    BY <1>0
  <2> HIDE DEF entry
  <2>3. FailedAfter(Append(data[p], entry))
    BY <1>5, <2>1, <2>2, AskMore
  <2>4. Asks(pc'[p], data'[p], human'[p])
    BY <1>0, <2>1, <2>3 DEF Asks
  <2> QED
    BY <1>0, <1>3, <1>7, <2>1, <2>4, AsksOn
<1>8. CASE AbortedBefore(p)
  BY <1>7, <1>8, TurnIs DEF AbortedBefore, TInv
<1>9. CASE Throw(p)
  <2>1. n \in Node
    BY <1>9 DEF Throw, TInv, Placed
  <2> QED
    BY <1>7, <1>9, <2>1 DEF Throw
<1>10. ASSUME pc[p] = "executing", NEW status \in {"FINISHED", "STOPPED"}, NEW outcome \in Nat,
              Record(p, n, status, outcome),
              NEW place \in {"running", "stopping"}, pc' = [pc EXCEPT ![p] = place],
              place = "running" => status = "FINISHED", place = "stopping" => status = "STOPPED"
       PROVE  QInv'
  <2> DEFINE entry == [node |-> n, status |-> status, outcome |-> outcome]
  <2>1. n \in Node
    BY <1>10 DEF TInv, Placed
  <2>2. /\ Recorded(p, n) \in Seq(Entry) /\ entry \in Entry
        /\ data' = [data EXCEPT ![p] = Append(Recorded(p, n), entry)]
        /\ \A q \in Run : q # p => human'[q] = human[q]
    BY <1>10, <2>1, RecordIs DEF TInv, Status
  <2>3. human[p] # None => n = human[p]
    BY <1>10 DEF IInv, AnswerIsNext
  <2>4. Answered(Recorded(p, n))
    <3>1. CASE human[p] = None
      BY <1>4, <2>1, <3>1, GraphAssumption DEF Recorded, Consumed, Open
    <3>2. CASE human[p] # None
      BY <1>0, <1>4, <2>3, <3>2, AnswerEnds DEF Recorded, Consumed
    <3> QED
      BY <3>1, <3>2
  <2>5. human'[p] = None
    BY <1>0, <1>10, <2>3 DEF Record, Consumed
  <2>6. entry.status = status
    OBVIOUS
  <2> HIDE DEF entry, n
  <2>7. /\ status = "FINISHED" => Answered(Append(Recorded(p, n), entry))
        /\ status = "STOPPED" => AskedBy(Append(Recorded(p, n), entry))
    BY <2>2, <2>4, <2>6, AskMore
  <2>8. Asks(pc'[p], data'[p], human'[p])
    BY <1>0, <1>10, <2>2, <2>5, <2>7 DEF Asks, Open
  <2> QED
    BY <1>0, <1>3, <1>10, <2>2, <2>8, AsksOn
<1>11. CASE Stop(p)
  BY <1>10, <1>11 DEF Stop
<1>12. CASE Finish(p)
  <2>1. PICK outcome \in Outcomes(n) : Record(p, n, "FINISHED", outcome)
    BY <1>12 DEF Finish
  <2>2. outcome \in Nat
    BY EdgesAre DEF Outcomes, Handles, EdgeIds
  <2>3. pc[p] = "executing" /\ pc' = [pc EXCEPT ![p] = "running"]
    BY <1>12 DEF Finish
  <2> QED
    BY <1>10, <2>1, <2>2, <2>3
<1> QED
  BY <1>1, <1>6, <1>8, <1>9, <1>11, <1>12

\* A request writes its row for the last time.
LEMMA EndAsks ==
  ASSUME TInv, QInv, NEW p \in Run, Complete(p) \/ WriteFailure(p) PROVE QInv'
<1> USE DEF QInv
<1>0. pc = [q \in Run |-> pc[q]] /\ data \in [Run -> Seq(Entry)]
  BY DEF TInv, TypeOK
<1>1. PICK state \in Status :
        /\ Write(p, state)
        /\ state = "STOPPED" => AskedBy(data[p])
        /\ state = "ERROR" => FailedAfter(data[p])
  <2>1. CASE Complete(p)
    <3>1. pc[p] \in {"running", "stopping"} /\ Write(p, Verdict(data[p]))
      BY <2>1 DEF Complete
    <3>2. Answered(data[p]) \/ AskedBy(data[p])
      BY <3>1 DEF RunsAsk, Open
    <3>3. data[p] \in Seq(Entry)
      BY <1>0
    <3> QED
      BY <3>1, <3>2, <3>3, VerdictIs, VerdictAsks
  <2>2. CASE WriteFailure(p)
    <3>1. PICK state \in {"ERROR", "TERMINATED"} : Write(p, state)
      BY <2>2 DEF WriteFailure
    <3>2. FailedAfter(data[p])
      BY <2>2 DEF WriteFailure, RunsAsk
    <3> QED
      BY <3>1, <3>2 DEF Status
  <2> QED
    BY <2>1, <2>2
<1>2. /\ pc[p] \in {"running", "stopping", "failing", "terminating"}
      /\ \E place \in {"done", "failed"} : pc' = [pc EXCEPT ![p] = place]
      /\ UNCHANGED <<data, human, row>>
  BY DEF Complete, WriteFailure, local
<1>3. row[p] \in Row
  BY <1>2 DEF TInv, Placed
<1>4. RowsAsk'
  <2>1. \A e \in Row : \/ rows'[e] = rows[e]
                       \/ rows'[e] = [state |-> state, data |-> data[p]]
    BY <1>1, <1>3, WrittenRows DEF TInv
  <2> SUFFICES ASSUME NEW e \in Row
               PROVE  /\ rows'[e].state = "STOPPED" => AskedBy(rows'[e].data)
                      /\ rows'[e].state = "ERROR" => FailedAfter(rows'[e].data)
    BY DEF RowsAsk
  <2>2. CASE rows'[e] = rows[e]
    BY <2>2 DEF RowsAsk
  <2>3. CASE rows'[e] = [state |-> state, data |-> data[p]]
    BY <1>1, <2>3
  <2> QED
    BY <2>1, <2>2, <2>3
<1>5. Asks(pc'[p], data'[p], human'[p])
  BY <1>0, <1>2 DEF Asks
<1> QED
  BY <1>0, <1>2, <1>4, <1>5, AsksOn

\* Every step keeps the one question open.
LEMMA StepAsks == ASSUME OneRoute PROVE TInv /\ IInv /\ QInv /\ [Next]_vars => QInv'
<1>1. ASSUME QInv, UNCHANGED <<pc, data, human, rows>> PROVE QInv'
  BY <1>1 DEF QInv, RunsAsk, RowsAsk
<1>2. ASSUME QInv, NEW p \in Run, Abort(p) PROVE QInv'
  BY <1>1, <1>2 DEF Abort, local, database
<1>3. ASSUME TInv, QInv, NEW e \in Row, Delete(e) PROVE QInv'
  <2>1. /\ UNCHANGED <<pc, data, human>>
        /\ rows' = [rows EXCEPT ![e] = [state |-> "absent", data |-> <<>>]]
        /\ rows = [f \in Row |-> rows[f]]
    BY <1>3 DEF Delete, local, TInv, TypeOK
  <2>2. \A f \in Row : rows'[f] = rows[f] \/ rows'[f].state = "absent"
    BY <2>1
  <2> QED
    BY <1>3, <2>1, <2>2 DEF QInv, RunsAsk, RowsAsk
<1> QED
  BY <1>1, <1>2, <1>3, RequestAsks, WorkAsks, EndAsks DEF Next, Step, vars, local, database

\* At first nothing is asked.
LEMMA InitAsks == Init => QInv
<1> SUFFICES ASSUME Init PROVE QInv
  OBVIOUS
<1>1. /\ \A p \in Run : pc[p] = "new" /\ data[p] = <<>> /\ human[p] = None
      /\ \A e \in Row : rows[e].state = "absent"
  BY DEF Init
<1>2. Answered(<<>>)
  BY DEF Answered
<1> QED
  BY <1>1, <1>2 DEF QInv, RunsAsk, RowsAsk, Open

\* In every flow without iterations, and however requests interleave: as long as an answer
\* goes to the node that stopped, an execution that waits asks one question, with its last
\* entry.
THEOREM AsksOnce ==
  ASSUME ResumeAt = {}, \A n \in Node : Kind[n] # "iteration"
  PROVE  Spec => []OneQuestionOpen
<1>1. TInv /\ IInv /\ QInv /\ [Next]_vars => QInv'
  BY StepAsks DEF OneRoute
<1>2. Spec => [](TInv /\ IInv /\ QInv)
  BY <1>1, InitTypes, StepTypes, InitInv, StepInv, InitAsks, PTL DEF Spec
<1>3. TInv /\ IInv /\ QInv => OneQuestionOpen
  <2> SUFFICES ASSUME TInv, QInv, NEW e \in Row, rows[e].state = "STOPPED"
               PROVE  {i \in DOMAIN rows[e].data : rows[e].data[i].status = "STOPPED"}
                        = {Len(rows[e].data)}
    BY DEF OneQuestionOpen
  <2>1. AskedBy(rows[e].data) /\ rows[e].data \in Seq(Entry)
    BY DEF QInv, RowsAsk, TInv, TypeOK
  <2>2. DOMAIN rows[e].data = 1..Len(rows[e].data) /\ Len(rows[e].data) \in Nat
    BY <2>1, Elements
  <2> QED
    BY <2>1, <2>2 DEF AskedBy, EndsIn
<1> QED
  BY <1>2, <1>3, PTL

================================================================================
