---------------------------- MODULE AgentflowEngine ----------------------------
(***************************************************************************)
(* Requests to an agent flow in one session: executeAgentFlow in           *)
(* utils/buildAgentflow.ts.  A request starts an execution, or resumes the *)
(* latest one after a human answered.  It works off a queue of nodes in    *)
(* memory and keeps the execution's row in the database up to date.        *)
(*                                                                         *)
(* Requests of one session run side by side: every await is a point where  *)
(* another request may step in.  What a node computes is not modelled,     *)
(* only whether it finishes (and which outcome a decision takes), throws,  *)
(* waits for a human, or sees the abort signal.  One find-merge-save of    *)
(* updateExecution is one step.                                            *)
(*                                                                         *)
(* Definitions marked "faulty" are slips the properties must catch: no     *)
(* action uses them.                                                       *)
(***************************************************************************)
EXTENDS AgentflowGraph

CONSTANTS Run,            \* requests
          Parent,         \* Parent[n]: the iteration node n lies in, or None
          LoopTarget,     \* LoopTarget[n]: where a loop node goes back to
          MaxLoop,        \* maxLoopCount of the loop nodes
          MaxIterations,  \* MAX_ITERATIONS
          MaxItems,       \* items an iteration node goes through (bound)
          ResumeAt,       \* the startNodeIds that clients send, when they send one (bound)
          Orphan          \* rows that items of an iteration may create (bound)

ASSUME EngineAssumption ==
  /\ None \notin Run \cup Orphan
  /\ Run \cap Orphan = {}
  /\ Parent \in [Node -> Node \cup {None}]
  /\ LoopTarget \in [{n \in Node : Kind[n] = "loop"} -> Node]
  /\ MaxLoop \in Nat /\ MaxIterations \in Nat /\ MaxItems \in Nat
  /\ ResumeAt \subseteq {n \in Node : Kind[n] # "iteration"}

VARIABLES
  pc,          \* pc[p]: where request p is
  queue,       \* nodeExecutionQueue: [node, inputs]
  waiting,     \* waitingNodes: waiting[p][n] are the inputs n received, {} for no entry
  loops,       \* loopCounts
  iterations,  \* turns of the main loop
  items,       \* items the iteration node in progress has gone through
  current,     \* the node being executed
  data,        \* agentFlowExecutedData: [node, status, outcome]
  human,       \* the startNodeId of the humanInput that is not consumed yet
  aborted,     \* the requests whose abort signal fired
  row,         \* row[p]: the execution p writes: p when p created it
  rows,        \* the execution table: [state, data]
  created,     \* the rows ever created, from the oldest to the latest
  passed       \* passed[p]: how many human input nodes p let through (history)

local    == <<queue, waiting, loops, iterations, items, current, data, human>>
database == <<row, rows, created>>
vars     == <<pc, local, aborted, database, passed>>

Status == {"FINISHED", "STOPPED", "ERROR", "TERMINATED"}
Entry  == [node : Node, status : Status, outcome : Nat]
States == Status \cup {"INPROGRESS", "absent"}

Row == Run \cup Orphan

Active(p) == pc[p] \in {"claiming", "reclaiming", "reclaimed", "running", "executing", "stopping",
                         "failing", "terminating"}

StatusesIn(d) == {d[i].status : i \in DOMAIN d}

\* Faulty: a node that waits does not count, or only the last node does.
VerdictWithoutStopped(d) ==
  IF "TERMINATED" \in StatusesIn(d) THEN "TERMINATED"
  ELSE IF "ERROR" \in StatusesIn(d) THEN "ERROR" ELSE "FINISHED"
VerdictOfLast(d) == d[Len(d)].status

\* The status executeAgentFlow ends with, read from the executed data.
Verdict(d) ==
  CASE "TERMINATED" \in StatusesIn(d) -> "TERMINATED"
    [] "ERROR" \in StatusesIn(d)      -> "ERROR"
    [] "STOPPED" \in StatusesIn(d)    -> "STOPPED"
    [] OTHER                          -> "FINISHED"

\* checkForMultipleStartNodes drops the nodes that lie in an iteration node.
Outside(S) == {n \in S : Parent[n] = None}

Item(n, inputs) == [node |-> n, inputs |-> inputs]

Exists(e) == rows[e].state # "absent"

\* The latest execution of the session, None when it has none.
Latest ==
  LET kept == {i \in DOMAIN created : Exists(created[i])}
  IN IF kept = {} THEN None ELSE created[CHOOSE i \in kept : \A j \in kept : j <= i]

--------------------------------------------------------------------------------
\* How a request begins

\* addExecution, then the starting node is queued.
Start(p) ==
  /\ pc[p] = "new"
  /\ \E n \in Outside(StartingNodes) :
       /\ Outside(StartingNodes) = {n}
       /\ queue' = [queue EXCEPT ![p] = <<Item(n, {})>>]
  /\ pc' = [pc EXCEPT ![p] = "running"]
  /\ row' = [row EXCEPT ![p] = p]
  /\ rows' = [rows EXCEPT ![p] = [state |-> "INPROGRESS", data |-> <<>>]]
  /\ created' = Append(created, p)
  /\ UNCHANGED <<waiting, loops, iterations, items, current, data, human, aborted, passed>>

LastStopped(d) ==
  LET stopped == {i \in DOMAIN d : d[i].status = "STOPPED"}
  IN CHOOSE i \in stopped : \A j \in stopped : j <= i

DropLast(d) == SubSeq(d, 1, Len(d) - 1)

\* The error came from the very node that had stopped: it may be answered again.
FailedOnResume(r) ==
  /\ r.state = "ERROR"
  /\ Len(r.data) >= 2
  /\ r.data[Len(r.data)].status = "ERROR"
  /\ r.data[Len(r.data) - 1].status = "STOPPED"

\* The executed data to resume with, of a row that may be resumed.
Resumable(r) == r.state = "STOPPED" \/ FailedOnResume(r)
DataOf(r)    == IF r.state = "STOPPED" THEN r.data ELSE DropLast(r.data)

ResumePoint(d, at) == IF at = None THEN d[LastStopped(d)].node ELSE at

CanResume(r, at) ==
  /\ Resumable(r)
  /\ IF at = None THEN "STOPPED" \in StatusesIn(DataOf(r))
                  ELSE \E i \in DOMAIN DataOf(r) : DataOf(r)[i].node = at

\* The latest execution of the session is read and accepted.  The row is not claimed yet.
Resume(p, at) ==
  /\ pc[p] = "new" /\ Latest # None
  /\ LET e == Latest IN
       /\ CanResume(rows[e], at)
       /\ human' = [human EXCEPT ![p] = ResumePoint(DataOf(rows[e]), at)]
       /\ data' = [data EXCEPT ![p] = DataOf(rows[e])]
       /\ row' = [row EXCEPT ![p] = e]
       /\ pc' = [pc EXCEPT ![p] = IF rows[e].state = "ERROR" THEN "reclaiming" ELSE "claiming"]
  /\ UNCHANGED <<queue, waiting, loops, iterations, items, current, aborted, rows, created, passed>>

\* No previous execution, one that may not be resumed, or not at this node.
Refuse(p, at) ==
  /\ pc[p] = "new"
  /\ Latest # None => ~CanResume(rows[Latest], at)
  /\ pc' = [pc EXCEPT ![p] = "refused"]
  /\ UNCHANGED <<local, aborted, database, passed>>

\* The data without its last error is written, before the row is claimed as usual.
Reclaim(p) ==
  /\ pc[p] = "reclaiming" /\ Exists(row[p])
  /\ pc' = [pc EXCEPT ![p] = "reclaimed"]
  /\ rows' = [rows EXCEPT ![row[p]] = [state |-> "INPROGRESS", data |-> data[p]]]
  /\ UNCHANGED <<local, aborted, row, created, passed>>

\* The row is set to INPROGRESS and the node that stopped is queued, unless it lies in
\* an iteration node.
Claim(p) ==
  /\ pc[p] \in {"claiming", "reclaimed"} /\ Exists(row[p])
  /\ pc' = [pc EXCEPT ![p] = "running"]
  /\ rows' = [rows EXCEPT ![row[p]] = [state |-> "INPROGRESS", data |-> rows[row[p]].data]]
  /\ queue' = [queue EXCEPT ![p] =
                IF Parent[human[p]] = None THEN <<Item(human[p], {})>> ELSE <<>>]
  /\ UNCHANGED <<waiting, loops, iterations, items, current, data, human, aborted,
                 row, created, passed>>

\* The row was deleted since it was read.
ClaimFails(p) ==
  /\ pc[p] \in {"claiming", "reclaiming", "reclaimed"} /\ ~Exists(row[p])
  /\ pc' = [pc EXCEPT ![p] = "refused"]
  /\ UNCHANGED <<local, aborted, database, passed>>

--------------------------------------------------------------------------------
\* The main loop

Failing(status) == IF status = "TERMINATED" THEN "terminating" ELSE "failing"

\* Faulty: the entry keeps the status of a node that runs.
FailInProgress(p, n, status) ==
  /\ data' = [data EXCEPT ![p] = Append(@, [node |-> n, status |-> "INPROGRESS", outcome |-> 0])]
  /\ pc' = [pc EXCEPT ![p] = Failing(status)]

\* The catch block: the entry of the node that failed, or that was aborted.
Fail(p, n, status) ==
  /\ data' = [data EXCEPT ![p] = Append(@, [node |-> n, status |-> status, outcome |-> 0])]
  /\ pc' = [pc EXCEPT ![p] = Failing(status)]

TakeNext(p) ==
  /\ queue' = [queue EXCEPT ![p] = Tail(@)]
  /\ iterations' = [iterations EXCEPT ![p] = @ + 1]

Turn(p) == pc[p] = "running" /\ queue[p] # <<>>

Execute(p) ==
  /\ Turn(p) /\ iterations[p] <= MaxIterations /\ p \notin aborted
  /\ TakeNext(p)
  /\ current' = [current EXCEPT ![p] = Head(queue[p]).node]
  /\ items' = [items EXCEPT ![p] = 0]
  /\ pc' = [pc EXCEPT ![p] = "executing"]
  /\ UNCHANGED <<waiting, loops, data, human, aborted, database, passed>>

AbortedBefore(p) ==
  /\ Turn(p) /\ iterations[p] <= MaxIterations /\ p \in aborted
  /\ TakeNext(p)
  /\ Fail(p, Head(queue[p]).node, "TERMINATED")
  /\ UNCHANGED <<waiting, loops, items, current, human, aborted, database, passed>>

\* 'Maximum iteration limit reached' is thrown outside of the try block.
LimitReached(p) ==
  /\ Turn(p) /\ iterations[p] > MaxIterations
  /\ pc' = [pc EXCEPT ![p] = "limit"]
  /\ UNCHANGED <<local, aborted, database, passed>>

LoopsAgain(p, n) == Kind[n] = "loop" /\ loops[p][n] + 1 < MaxLoop

\* Entries of the node to resume at are removed when it has run, and humanInput is used
\* up.  A loop drops it too.
Consumed(p, n) == human[p] = n

\* Faulty: the entry of the node that stopped stays.
WithNode(d, n) == d

WithoutNode(d, n) ==
  LET kept[i \in 0..Len(d)] ==
        IF i = 0 THEN <<>>
        ELSE IF d[i].node = n THEN kept[i - 1] ELSE Append(kept[i - 1], d[i])
  IN kept[Len(d)]

\* Faulty: the answer can be used again.
RecordKeepsAnswer(p, n, status, outcome) ==
  /\ data' = [data EXCEPT ![p] =
               Append(IF Consumed(p, n) THEN WithoutNode(@, n) ELSE @,
                      [node |-> n, status |-> status, outcome |-> outcome])]
  /\ human' = human

Record(p, n, status, outcome) ==
  /\ data' = [data EXCEPT ![p] =
               Append(IF Consumed(p, n) THEN WithoutNode(@, n) ELSE @,
                      [node |-> n, status |-> status, outcome |-> outcome])]
  /\ human' = [human EXCEPT ![p] = IF Consumed(p, n) \/ LoopsAgain(p, n) THEN None ELSE @]

\* A human input node that nobody answered, or an agent whose tool needs an approval.
\* The main loop is left, whatever is still queued.
Stop(p) ==
  LET n == current[p] IN
  /\ pc[p] = "executing"
  /\ (Kind[n] = "human" /\ human[p] = None) \/ Kind[n] = "agent"
  /\ Record(p, n, "STOPPED", 0)
  /\ pc' = [pc EXCEPT ![p] = "stopping"]
  /\ UNCHANGED <<queue, waiting, loops, iterations, items, current, aborted, database, passed>>

\* The node throws, or its own use of the abort signal does.
Throw(p) ==
  /\ pc[p] = "executing"
  /\ Fail(p, current[p], "ERROR") \/ (p \in aborted /\ Fail(p, current[p], "TERMINATED"))
  /\ UNCHANGED <<queue, waiting, loops, iterations, items, current, human, aborted, database, passed>>

\* The sub-flow of an item ran, cut down to one node: to its end or until it waits for a
\* human.
ItemRan(p, n) ==
  \E m \in {k \in Node : Parent[k] = n}, status \in {"FINISHED", "STOPPED"} :
    /\ status = "STOPPED" => Kind[m] = "agent"
    /\ data' = [data EXCEPT ![p] = Append(@, [node |-> m, status |-> status, outcome |-> 0])]

\* The row of the parent is brought up to date.
ItemSaved(p) ==
  /\ Exists(row[p])
  /\ rows' = [rows EXCEPT ![row[p]] = [state |-> rows[row[p]].state, data |-> data'[p]]]
  /\ UNCHANGED created

\* The row of the parent is gone: the sub-flow creates one, unless it found the row when
\* it began.
ItemOrphaned(p) ==
  /\ ~Exists(row[p])
  /\ \/ UNCHANGED <<rows, created>>
     \/ \E o \in Orphan : /\ \A i \in DOMAIN created : created[i] # o
                          /\ rows' = [rows EXCEPT ![o] = [state |-> "INPROGRESS", data |-> <<>>]]
                          /\ created' = Append(created, o)

\* One item of an iteration node.  An item that throws, as it does after an abort, leaves
\* no entry, and the next one begins.
Iterate(p) ==
  LET n == current[p] IN
  /\ pc[p] = "executing" /\ Kind[n] = "iteration"
  /\ items[p] < MaxItems
  /\ items' = [items EXCEPT ![p] = @ + 1]
  /\ \/ p \notin aborted /\ ItemRan(p, n) /\ (ItemSaved(p) \/ ItemOrphaned(p))
     \/ UNCHANGED data /\ (ItemOrphaned(p) \/ (Exists(row[p]) /\ UNCHANGED <<rows, created>>))
  /\ UNCHANGED <<pc, queue, waiting, loops, iterations, current, human, aborted, row, passed>>

Outcomes(n) == IF IsDecision(n) THEN Handles(n) \cup {0, 1} ELSE {0}

\* One child receives the output of n: it is queued once it has what it needs.
Deliver(n, box, child) ==
  LET received == box.waiting[child] \cup {n}
  IN IF HasRequiredInputs(child, received)
     THEN [waiting |-> [box.waiting EXCEPT ![child] = {}],
           queue   |-> Append(box.queue, Item(child, received))]
     ELSE [box EXCEPT !.waiting[child] = received]

DeliverAll(p, n, outcome) ==
  LET box[i \in 0..Len(Edges)] ==
        IF i = 0 THEN [waiting |-> waiting[p], queue |-> queue[p]]
        ELSE IF Receives(i, n, outcome) THEN Deliver(n, box[i - 1], Edges[i].to)
        ELSE box[i - 1]
  IN box[Len(Edges)]

\* processNodeOutputs: the receivers get the output, and a loop node queues its target
\* until it has done so MaxLoop - 1 times.
Finish(p) ==
  LET n == current[p] IN
  /\ pc[p] = "executing"
  /\ Kind[n] = "human" => human[p] # None
  /\ \E outcome \in Outcomes(n) :
       LET box == DeliverAll(p, n, outcome) IN
       /\ Record(p, n, "FINISHED", outcome)
       /\ waiting' = [waiting EXCEPT ![p] = box.waiting]
       /\ queue' = [queue EXCEPT ![p] = IF LoopsAgain(p, n)
                                       THEN Append(box.queue, Item(LoopTarget[n], {}))
                                       ELSE box.queue]
       /\ loops' = IF LoopsAgain(p, n) THEN [loops EXCEPT ![p][n] = @ + 1] ELSE loops
  /\ passed' = [passed EXCEPT ![p] = IF Kind[n] = "human" THEN @ + 1 ELSE @]
  /\ pc' = [pc EXCEPT ![p] = "running"]
  /\ UNCHANGED <<iterations, items, current, aborted, database>>

--------------------------------------------------------------------------------
\* How a request ends: its last updateExecution, which throws when the row is gone.

Write(p, state) ==
  rows' = IF Exists(row[p])
          THEN [rows EXCEPT ![row[p]] = [state |-> state, data |-> data[p]]]
          ELSE rows

\* Faulty: the request waits for a row that was deleted.
CompleteWaits(p) ==
  /\ (pc[p] = "running" /\ queue[p] = <<>>) \/ pc[p] = "stopping"
  /\ Exists(row[p]) /\ Write(p, Verdict(data[p]))
  /\ pc' = [pc EXCEPT ![p] = "done"]
  /\ UNCHANGED <<local, aborted, row, created, passed>>

Complete(p) ==
  /\ (pc[p] = "running" /\ queue[p] = <<>>) \/ pc[p] = "stopping"
  /\ Write(p, Verdict(data[p]))
  /\ pc' = [pc EXCEPT ![p] = IF Exists(row[p]) THEN "done" ELSE "failed"]
  /\ UNCHANGED <<local, aborted, row, created, passed>>

\* Faulty: the row is not written.
WriteNoFailure(p) ==
  /\ pc[p] \in {"failing", "terminating"}
  /\ pc' = [pc EXCEPT ![p] = "failed"]
  /\ UNCHANGED <<local, aborted, database, passed>>

WriteFailure(p) ==
  /\ pc[p] \in {"failing", "terminating"}
  /\ Write(p, IF pc[p] = "failing" THEN "ERROR" ELSE "TERMINATED")
  /\ pc' = [pc EXCEPT ![p] = "failed"]
  /\ UNCHANGED <<local, aborted, row, created, passed>>

--------------------------------------------------------------------------------
\* What happens around a request

Abort(p) ==
  /\ Active(p) /\ p \notin aborted
  /\ aborted' = aborted \cup {p}
  /\ UNCHANGED <<pc, local, database, passed>>

\* deleteExecutions
Delete(e) ==
  /\ Exists(e)
  /\ rows' = [rows EXCEPT ![e] = [state |-> "absent", data |-> <<>>]]
  /\ UNCHANGED <<pc, local, aborted, row, created, passed>>

Init ==
  /\ pc = [p \in Run |-> "new"]
  /\ queue = [p \in Run |-> <<>>]
  /\ waiting = [p \in Run |-> [n \in Node |-> {}]]
  /\ loops = [p \in Run |-> [n \in Node |-> 0]]
  /\ iterations = [p \in Run |-> 0]
  /\ items = [p \in Run |-> 0]
  /\ current = [p \in Run |-> None]
  /\ data = [p \in Run |-> <<>>]
  /\ human = [p \in Run |-> None]
  /\ aborted = {}
  /\ row = [p \in Run |-> None]
  /\ rows = [e \in Row |-> [state |-> "absent", data |-> <<>>]]
  /\ created = <<>>
  /\ passed = [p \in Run |-> 0]

Step(p) ==
  \/ Reclaim(p) \/ Claim(p) \/ ClaimFails(p)
  \/ Execute(p) \/ AbortedBefore(p) \/ LimitReached(p)
  \/ Stop(p) \/ Throw(p) \/ Iterate(p) \/ Finish(p)
  \/ Complete(p) \/ WriteFailure(p)

Request(p) == Start(p) \/ \E at \in ResumeAt \cup {None} : Resume(p, at) \/ Refuse(p, at)

Next ==
  \/ \E p \in Run : Request(p) \/ Step(p) \/ Abort(p)
  \/ \E e \in Row : Delete(e)

Spec == Init /\ [][Next]_vars

\* A request that began goes on: nodes return or throw, and the database answers.
FairSpec == Spec /\ \A p \in Run : WF_vars(Step(p))

--------------------------------------------------------------------------------
\* Properties

\* Every variable holds a value the code can give it.
TypeOK ==
  /\ pc \in [Run -> {"new", "claiming", "reclaiming", "reclaimed", "running", "executing",
                     "stopping", "failing", "terminating", "done", "failed", "refused", "limit"}]
  /\ queue \in [Run -> Seq([node : Node, inputs : SUBSET Node])]
  /\ waiting \in [Run -> [Node -> SUBSET Node]]
  /\ loops \in [Run -> [Node -> Nat]]
  /\ iterations \in [Run -> Nat] /\ items \in [Run -> Nat] /\ passed \in [Run -> Nat]
  /\ current \in [Run -> Node \cup {None}] /\ human \in [Run -> Node \cup {None}]
  /\ data \in [Run -> Seq(Entry)]
  /\ aborted \subseteq Run
  /\ row \in [Run -> Row \cup {None}]
  /\ rows \in [Row -> [state : States, data : Seq(Entry)]]
  /\ created \in Seq(Row)

\* One answer of a human lets the flow through at most one human input node (the
\* humanInput that executeNode and the loop clear), and a request that carries no
\* answer lets it through none.
OneApproval ==
  \A p \in Run : passed[p] <= (IF pc[p] \notin {"new", "refused"} /\ row[p] # p THEN 1 ELSE 0)

\* An item was saved in the row, and the request that works on it did not write its end.
ItemsUnderWay(e) ==
  /\ \E i \in DOMAIN rows[e].data : Parent[rows[e].data[i].node] # None
  /\ \E p \in Run : /\ row[p] = e
                    /\ pc[p] \in {"running", "executing", "stopping", "failing", "terminating", "limit"}

\* Whatever ends an execution, its row tells what its executed data tells: finished
\* when every node is, waiting when one waits, failed or aborted when the last one is.
\* (The save of an item leaves the state alone: when two answers resume one execution, it
\* may follow the end that the other one wrote.)
RowTellsData ==
  \A e \in Row : ~ItemsUnderWay(e) =>
    LET d == rows[e].data
        last == d[Len(d)].status
    IN CASE rows[e].state = "FINISHED" -> StatusesIn(d) \subseteq {"FINISHED"}
         [] rows[e].state = "STOPPED"  -> /\ "STOPPED" \in StatusesIn(d)
                                          /\ StatusesIn(d) \subseteq {"FINISHED", "STOPPED"}
         [] rows[e].state \in {"ERROR", "TERMINATED"} -> d # <<>> /\ last = rows[e].state
         [] OTHER -> TRUE

\* An execution that waits for a human waits at one node, the last one: an answer that
\* names no node reaches the question that was asked.
OneQuestionOpen ==
  \A e \in Row : rows[e].state = "STOPPED" =>
    {i \in DOMAIN rows[e].data : rows[e].data[i].status = "STOPPED"} = {Len(rows[e].data)}

\* The row that a request created is INPROGRESS only while a request works on it, unless
\* the iteration limit ended that request.
InProgressIsActive ==
  \A e \in Run : rows[e].state = "INPROGRESS" =>
    \E p \in Run : row[p] = e /\ (Active(p) \/ pc[p] = "limit")

FinishedIn(d) == {i \in DOMAIN d : d[i].status = "FINISHED"}

\* The entries whose outcome leads to c on the canvas.
FedBy(d, c) == {i \in FinishedIn(d) : c \in Fulfilled(d[i].node, d[i].outcome)}

\* A node ran only after a node whose outcome leads to it: no branch ran that a decision
\* ruled out.
RunsAreFed ==
  \A e \in Row : LET d == rows[e].data IN
    \A i \in DOMAIN d : \/ d[i].node \in StartingNodes
                        \/ \E m \in DOMAIN LoopTarget : LoopTarget[m] = d[i].node
                        \/ \E j \in FedBy(d, d[i].node) : j < i

\* In a flow without loops a join ran after all the nodes whose outcomes lead to it.
JoinsWait ==
  \A e \in Row : LET d == rows[e].data IN
    \A i \in DOMAIN d : \A j \in FedBy(d, d[i].node) : j < i

\* A finished execution ran every node that an outcome leads to: no join waited for a
\* branch that a decision ruled out.
NoRouteLost ==
  \A e \in Row : LET d == rows[e].data IN rows[e].state = "FINISHED" =>
    \A c \in Node : FedBy(d, c) # {} => \E i \in DOMAIN d : d[i].node = c

\* Every request that began ends.
RequestsEnd == \A p \in Run : Active(p) ~> ~Active(p)

--------------------------------------------------------------------------------
\* What a message of buildAgentflow.ts says, and the code does not do

\* "Only executions in 'STOPPED' state (or 'ERROR' after 'STOPPED') can be resumed."
OnlyStoppedIsResumed ==
  [][\A p \in Run : pc[p] \in {"claiming", "reclaiming"} /\ pc'[p] \in {"running", "reclaimed"}
                    => rows[row[p]].state \in {"STOPPED", "ERROR"}]_vars
================================================================================
