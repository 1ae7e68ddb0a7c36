---------------------------- MODULE AgentflowGraph ----------------------------
(***************************************************************************)
(* The graph of an agent flow and what utils/buildAgentflow.ts computes    *)
(* from it: the children of a node, the decision node an input depends on, *)
(* the inputs a join waits for, and the children a decision rules out.     *)
(*                                                                         *)
(* An edge leaves one output handle of its source: the outcome of a        *)
(* decision node (0 proceeds, 1 rejects at a human input), 0 elsewhere.    *)
(* The order of Edges is that of the flow's edge list, which the code      *)
(* depends on: find takes the first edge that matches.                     *)
(*                                                                         *)
(* Definitions marked "faulty" are slips the properties must catch: none   *)
(* is used.                                                                *)
(***************************************************************************)
EXTENDS Naturals, Sequences, FiniteSets

CONSTANTS Node,   \* node ids
          Edges,  \* sequence of [from, to, handle]
          Kind,   \* Kind[n]: the component the node is an instance of
          None    \* no node

Kinds == {"plain", "condition", "human", "agent", "loop", "iteration"}

ASSUME GraphAssumption ==
  /\ None \notin Node
  /\ IsFiniteSet(Node)
  /\ Edges \in Seq([from : Node, to : Node, handle : Nat])
  /\ Kind \in [Node -> Kinds]

\* conditionAgentflow and conditionAgentAgentflow choose the same way.
IsDecision(n) == Kind[n] \in {"condition", "human"}

EdgeIds    == DOMAIN Edges
InEdges(n) == {i \in EdgeIds : Edges[i].to = n}
Sources(n) == {Edges[i].from : i \in InEdges(n)}
FirstOf(I) == CHOOSE i \in I : \A j \in I : i <= j

\* constructGraphs: the children of a node.
Targets(n) == {Edges[i].to : i \in {j \in EdgeIds : Edges[j].from = n}}

\* getStartingNode: nodes nothing leads to.
StartingNodes == {n \in Node : InEdges(n) = {}}

\* findConditionParent: the node itself or the nearest decision node above it, following
\* the first incoming edge only.
FirstParent(n) == IF n = None \/ InEdges(n) = {} THEN None ELSE Edges[FirstOf(InEdges(n))].from

Ancestor(n) ==
  LET up[k \in 0..Cardinality(Node)] == IF k = 0 THEN n ELSE FirstParent(up[k - 1])
  IN up

ConditionParent(n) ==
  LET up == Ancestor(n)
      found == {k \in DOMAIN up : up[k] # None /\ IsDecision(up[k])}
  IN IF found = {} THEN None ELSE up[FirstOf(found)]

\* setupNodeDependencies: the inputs a node always needs, and the groups of inputs of
\* which it needs one each.
ExpectedInputs(n) == {s \in Sources(n) : ConditionParent(s) = None}

ConditionalGroups(n) ==
  {{s \in Sources(n) : ConditionParent(s) = c} : c \in {ConditionParent(s) : s \in Sources(n)} \ {None}}

\* Faulty: the first input is enough.
HasSomeInput(n, received) == received # {}

\* hasReceivedRequiredInputs
HasRequiredInputs(n, received) ==
  /\ ExpectedInputs(n) \subseteq received
  /\ \A group \in ConditionalGroups(n) : group \cap received # {}

\* determineNodesToIgnore: for every outcome that was not fulfilled, the target of the
\* first edge that leaves its handle.  (One outcome is always fulfilled: the node sets
\* one, and the last one is taken when none was.)
HandleEdges(n, h) == {i \in EdgeIds : Edges[i].from = n /\ Edges[i].handle = h}

Handles(n) == {Edges[i].handle : i \in {j \in EdgeIds : Edges[j].from = n}}

\* Faulty: no outcome counts as fulfilled, or every one.
IgnoreAll(n, outcome)  == IF IsDecision(n) THEN Targets(n) ELSE {}
IgnoreNone(n, outcome) == {}

NodesToIgnore(n, outcome) ==
  IF IsDecision(n)
  THEN {Edges[FirstOf(HandleEdges(n, h))].to : h \in Handles(n) \ {outcome}}
  ELSE {}

\* The edges whose targets receive the node's output, one for each edge.
Receives(i, n, outcome) == Edges[i].from = n /\ Edges[i].to \notin NodesToIgnore(n, outcome)

\* What an outcome means on the canvas: where its handle leads.
Fulfilled(n, outcome) ==
  IF IsDecision(n) THEN {Edges[i].to : i \in HandleEdges(n, outcome)} ELSE Targets(n)
================================================================================
