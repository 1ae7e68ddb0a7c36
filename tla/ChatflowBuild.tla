----------------------------- MODULE ChatflowBuild -----------------------------
(***************************************************************************)
(* The evaluation of a chat flow: buildFlow in utils/index.ts, and what    *)
(* executeFlow (utils/buildChatflow.ts) and executeUpsert                  *)
(* (utils/upsertVector.ts) prepare for it.  The nodes of a flow are        *)
(* initialised from the starting nodes to the ending nodes, or to the      *)
(* vector store to upsert, by a queue that is filled level by level.       *)
(*                                                                         *)
(* A behaviour begins with any flow of Size nodes that has no cycle and at *)
(* most one ifElse node.  Nodes are numbered so that edges lead upwards.   *)
(* The order of the edge list, and of the keys of objects built from it,   *)
(* may be any.  What a node computes is not modelled, only whether its     *)
(* initialisation throws.                                                  *)
(*                                                                         *)
(* Definitions marked "faulty" are slips the properties must catch: no     *)
(* action uses them.                                                       *)
(***************************************************************************)
EXTENDS Naturals, SequencesExt

CONSTANTS Size,     \* nodes of a flow (bound)
          MaxLoop,  \* maxLoop
          None      \* no node

Node == 1..Size

ASSUME BuildAssumption ==
  /\ Size \in Nat /\ MaxLoop \in Nat \ {0}
  /\ None \notin 0..Size
  /\ None \notin [remainingLoop : 0..MaxLoop, lastSeenDepth : 0..Size]

VARIABLES
  pc,           \* whether the flow is being built
  flow,         \* [edges, chooser, refused, first, upsert, ends]: the flow and what the caller asks
  depthQueue,   \* depthQueue
  graph,        \* graph[n]: the nodes listed as neighbours of n
  queue,        \* nodeQueue: [node, depth]
  explored,     \* exploredNode: [remainingLoop, lastSeenDepth]
  initialized,  \* initializedNodes
  ignored,      \* ignoreNodeIds
  last,         \* the last of flowNodes, None while their order is that of the flow
  inits         \* inits[n]: how often n was initialised (history)

progress == <<graph, queue, explored, initialized, ignored, last>>
vars     == <<pc, flow, depthQueue, progress, inits>>

Successors(edges, n)   == {m \in Node : <<n, m>> \in edges}
Predecessors(edges, n) == {m \in Node : <<m, n>> \in edges}

--------------------------------------------------------------------------------
\* Depths, starting nodes and ending nodes

\* getStartingNodes walks up from an end and keeps the longest way to every node it meets.
Distance(edges, end) ==
  LET distance[n \in Node] ==
        LET below == {m \in Successors(edges, n) : distance[m] # None}
        IN IF n = end THEN 0
           ELSE IF below = {} THEN None ELSE 1 + Max({distance[m] : m \in below})
  IN distance

\* The depths are reversed: the nodes that are furthest away have depth 0.
Depths(edges, end) ==
  LET distance == Distance(edges, end)
      above    == {n \in Node : distance[n] # None}
      maxDepth == Max({distance[n] : n \in above})
  IN [n \in above |-> maxDepth - distance[n]]

\* With several ends, the depths of a later one replace those of an earlier one.
DepthQueue(edges, ends) ==
  LET depths   == [i \in DOMAIN ends |-> Depths(edges, ends[i])]
      known(n) == {i \in DOMAIN ends : n \in DOMAIN depths[i]}
  IN [n \in {m \in Node : known(m) # {}} |-> depths[Max(known(n))][n]]

StartsOf(depths) == {n \in DOMAIN depths : depths[n] = 0}

StartingNodes(edges, ends) == UNION {StartsOf(Depths(edges, ends[i])) : i \in DOMAIN ends}

\* getEndingNodes, before it drops those of another category.
EndingNodes(edges) == {n \in Node : Successors(edges, n) = {} /\ Predecessors(edges, n) # {}}

--------------------------------------------------------------------------------
\* What an ifElse node rules out

\* getAllConnectedNodes, of the graph without directions.
Connected(edges, n) ==
  LET reach[k \in 0..Size] ==
        IF k = 0 THEN {n}
        ELSE reach[k - 1] \cup UNION {Successors(edges, m) \cup Predecessors(edges, m) : m \in reach[k - 1]}
  IN reach[Size]

\* The edges but those of the outcome that was not taken.
Uncut == flow.edges \ {<<flow.chooser, m>> : m \in flow.refused}

\* Faulty: the outcome that was taken.
FirstTaken ==
  LET taken == Successors(Uncut, flow.chooser)
  IN IF taken = {} THEN flow.first ELSE CHOOSE m \in taken : TRUE

\* Where the first edge of the outcome that was not taken leads.
FirstRefused == flow.first

\* What is still connected with it is ignored.
Ignore(n) ==
  IF n # flow.chooser \/ flow.refused = {} THEN UNCHANGED ignored
  ELSE ignored' = ignored \cup Connected(Uncut, FirstRefused)

--------------------------------------------------------------------------------
\* The main loop

\* Faulty: no node but those the edges lead to.
NoLevel(depth) == {}

\* The nodes of one level.
SameDepth(depth) == {m \in DOMAIN depthQueue : depthQueue[m] = depth}

Seen(m) == explored[m] # None

\* Faulty: a dependency may be missing, or a node is queued by every node of a level.
ReadyEarly(m, done, depth) == m \notin done /\ (Seen(m) => explored[m].lastSeenDepth # depth)
ReadyAgain(m, done, depth) == m \notin done /\ Predecessors(flow.edges, m) \subseteq done

Ready(m, done, depth) ==
  /\ m \notin done
  /\ Predecessors(flow.edges, m) \subseteq done
  /\ Seen(m) => explored[m].lastSeenDepth # depth

\* The loop over the neighbours breaks at one that was queued too often.
UpToExhausted(order) ==
  LET exhausted == {i \in DOMAIN order : Seen(order[i]) /\ explored[order[i]].remainingLoop = 0}
  IN IF exhausted = {} THEN order ELSE SubSeq(order, 1, Min(exhausted) - 1)

\* Faulty: one repetition too many, or far too few.
ExploredMore(m, depth) ==
  [remainingLoop |-> IF Seen(m) THEN explored[m].remainingLoop - 1 ELSE MaxLoop + 1,
   lastSeenDepth |-> depth]
ExploredOnce(m, depth) ==
  [remainingLoop |-> IF Seen(m) THEN explored[m].remainingLoop - 1 ELSE 1,
   lastSeenDepth |-> depth]

Explored(m, depth) ==
  [remainingLoop |-> IF Seen(m) THEN explored[m].remainingLoop - 1 ELSE MaxLoop,
   lastSeenDepth |-> depth]

\* The neighbours of n, and those the next level adds for good, are queued when they are
\* ready.  A node without neighbours moves to the end of the flow's nodes.
Enqueue(n, depth, done, out) ==
  LET near  == graph[n] \cup SameDepth(depth)
      ready == {m \in near \ out : Ready(m, done, depth)}
  IN /\ graph' = [graph EXCEPT ![n] = near]
     /\ \E first \in SetToSeqs(ready \cap graph[n]), second \in SetToSeqs(ready \ graph[n]) :
          LET order  == UpToExhausted(first \o second)
              queued == {order[i] : i \in DOMAIN order}
          IN /\ queue' = Tail(queue) \o [i \in DOMAIN order |-> [node |-> order[i], depth |-> depth]]
             /\ explored' = [m \in Node |-> IF m \in queued THEN Explored(m, depth) ELSE explored[m]]
     /\ last' = IF near \subseteq out THEN n ELSE last

Current  == Head(queue).node
Building == pc = "building" /\ queue # <<>>
IsStop   == flow.upsert /\ Current = flow.ends[1]

\* One turn of the loop.  A document loader that feeds a vector store is not loaded again,
\* but counts as initialised.
Initialize ==
  /\ Building /\ ~IsStop
  /\ initialized' = initialized \cup {Current}
  /\ inits' = [inits EXCEPT ![Current] = @ + 1]
  /\ Ignore(Current)
  /\ Enqueue(Current, Head(queue).depth + 1, initialized', ignored')
  /\ UNCHANGED <<pc, flow, depthQueue>>

\* The vector store upserts, and the loop is left.
Upsert ==
  /\ Building /\ IsStop
  /\ inits' = [inits EXCEPT ![Current] = @ + 1]
  /\ pc' = "upserted"
  /\ UNCHANGED <<flow, depthQueue, progress>>

NodeThrows ==
  /\ Building
  /\ pc' = "failed"
  /\ UNCHANGED <<flow, depthQueue, progress, inits>>

Finish ==
  /\ pc = "building" /\ queue = <<>>
  /\ pc' = "built"
  /\ UNCHANGED <<flow, depthQueue, progress, inits>>

\* Faulty: the first of the ending nodes, whether it was initialised or not.
FirstEnd == flow.ends[1]

\* initEndingNode: the node that runs with the question, once the flow is built.
NodeToExecute == IF Len(flow.ends) = 1 THEN flow.ends[1] ELSE last

--------------------------------------------------------------------------------
Upwards == {edge \in Node \X Node : edge[1] < edge[2]}

Orders(S) == SetToSeqs(S)

\* What executeFlow may be asked: some of the ending nodes have a category that may end a
\* flow.  What executeUpsert may be asked: any node may be the one to stop at.
Ends(edges, upsert) ==
  IF upsert THEN {<<n>> : n \in Node}
  ELSE UNION {Orders(S) : S \in (SUBSET EndingNodes(edges)) \ {{}}}

\* The neighbours are those the edges lead to.  executeUpsert passes the reversed graph.
Init ==
  /\ pc = "building"
  /\ \E edges \in SUBSET Upwards, upsert \in BOOLEAN, chooser \in Node \cup {None} :
     \E ends \in Ends(edges, upsert),
        refused \in IF chooser = None THEN {{}} ELSE (SUBSET Successors(edges, chooser)) \ {{}} :
     \E first \in IF refused = {} THEN {None} ELSE refused :
       /\ flow = [edges |-> edges, chooser |-> chooser, refused |-> refused, first |-> first,
                  upsert |-> upsert, ends |-> ends]
       /\ depthQueue = DepthQueue(edges, ends)
       /\ graph = [n \in Node |-> IF upsert THEN Predecessors(edges, n) ELSE Successors(edges, n)]
       /\ \E order \in Orders(StartingNodes(edges, ends)) :
            LET starts == {order[i] : i \in DOMAIN order} IN
            /\ queue = [i \in DOMAIN order |-> [node |-> order[i], depth |-> 0]]
            /\ explored = [n \in Node |-> IF n \in starts
                                          THEN [remainingLoop |-> MaxLoop, lastSeenDepth |-> 0]
                                          ELSE None]
  /\ initialized = {} /\ ignored = {} /\ last = None
  /\ inits = [n \in Node |-> 0]

Next == Initialize \/ Upsert \/ NodeThrows \/ Finish

Spec == Init /\ [][Next]_vars

--------------------------------------------------------------------------------
\* Properties

\* Every variable holds a value the code can give it.
TypeOK ==
  /\ pc \in {"building", "built", "upserted", "failed"}
  /\ flow \in [edges : SUBSET Upwards, chooser : Node \cup {None}, refused : SUBSET Node,
               first : Node \cup {None}, upsert : BOOLEAN, ends : Seq(Node)]
  /\ DOMAIN depthQueue \subseteq Node /\ depthQueue \in [DOMAIN depthQueue -> 0..Size]
  /\ graph \in [Node -> SUBSET Node]
  /\ queue \in Seq([node : Node, depth : 0..Size])
  /\ explored \in [Node -> [remainingLoop : 0..MaxLoop, lastSeenDepth : 0..Size] \cup {None}]
  /\ initialized \subseteq Node /\ ignored \subseteq Node
  /\ last \in Node \cup {None}
  /\ inits \in [Node -> Nat]

\* A node is initialised after all the nodes its inputs come from, those a level or a
\* second ending node brought into the queue included.
DependenciesFirst == \A edge \in flow.edges : edge[2] \in initialized => edge[1] \in initialized

\* A flow is built when every node that leads to an ending node was initialised, unless an
\* ifElse node ruled it out: nodes that nothing leads to are found by their level, and so
\* are all nodes of an upsert, whose neighbours are the wrong way round.
AllReached == pc = "built" => DOMAIN depthQueue \ ignored \subseteq initialized

\* The node an ifElse node refuses does not run, whichever way the queue and the levels
\* come to it.  (find cuts all edges of the outcome, but follows the first only.)
RefusedIsOut == flow.first \notin initialized

IsEnd(n) == \E i \in DOMAIN flow.ends : flow.ends[i] = n

Stays(i) == flow.ends[i] \notin ignored

\* The ifElse node is not among the nodes it rules out, the ending nodes that stay are
\* behind it, and the one that is listed last, whose depths count, is one of them.
ChooserDecides ==
  /\ flow.chooser \notin ignored /\ Stays(Len(flow.ends))
  /\ \A i \in DOMAIN flow.ends : Stays(i) => Distance(flow.edges, flow.ends[i])[flow.chooser] # None

\* The node that runs with the question is an ending node that was initialised, when every
\* node without successors is an ending node and one of them stays: the last to move to the
\* end of the flow's nodes is never another.  (An ifElse node that rules itself out may
\* move there, or no node at all when a level holds one that was initialised before.)
ExecutesEnd ==
  /\ pc = "built" /\ ~flow.upsert
  /\ \A n \in EndingNodes(flow.edges) : IsEnd(n)
  /\ \E i \in DOMAIN flow.ends : Stays(i)
  /\ Len(flow.ends) = 1 \/ ignored = {} \/ ChooserDecides
  => IsEnd(NodeToExecute) /\ NodeToExecute \in initialized

\* An upsert loads no document and writes no vector twice.
UpsertOnce == flow.upsert => \A n \in Node : inits[n] <= 1

\* The limit on repetitions is for cycles: it does not cut off a flow that has none.
NeverExhausted == \A i \in DOMAIN queue : explored[queue[i].node].remainingLoop > 0
================================================================================
