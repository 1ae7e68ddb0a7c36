---------------------------- MODULE AgentflowShapes ----------------------------
(***************************************************************************)
(* Shapes of agent flows: what a user has to draw for joins to wait for    *)
(* all they are given, and for a flow to finish only when every route has  *)
(* arrived.  The conditions look at the graph alone, never at a behaviour: *)
(* the theorems of AgentflowRoutes_proofs derive the properties of the     *)
(* engine from them, and the runs evaluate them for their flows.           *)
(***************************************************************************)
EXTENDS AgentflowEngine

NoLoops     == \A n \in Node : Kind[n] \notin {"loop", "iteration"}
NoQuestions == \A n \in Node : Kind[n] \in {"plain", "condition"}

\* No two edges between the same nodes, and an outcome of a decision leads to one node.
DistinctEdges ==
  \A i, j \in EdgeIds : i # j /\ Edges[i].from = Edges[j].from =>
    /\ Edges[i].to # Edges[j].to
    /\ IsDecision(Edges[i].from) => Edges[i].handle # Edges[j].handle

Acyclic(rank) == \A i \in EdgeIds : rank[Edges[i].from] < rank[Edges[i].to]

\* guard[n] are outcomes, as <<decision node, handle>>, that every run of n presupposes;
\* an edge presupposes those of its source, and the outcome it leaves.
Presumed(guard, i) ==
  guard[Edges[i].from] \cup
    (IF IsDecision(Edges[i].from) THEN {<<Edges[i].from, Edges[i].handle>>} ELSE {})

GuardsHold(guard) ==
  /\ \A n \in StartingNodes : guard[n] = {}
  /\ \A i \in EdgeIds : guard[Edges[i].to] \subseteq Presumed(guard, i)

\* Two inputs of a join that hang on the same decision, of which setupNodeDependencies asks
\* for one, presuppose different outcomes of some decision: only one of them arrives.
InputsExclude(guard) ==
  \A i, j \in EdgeIds :
    /\ i # j /\ Edges[i].to = Edges[j].to
    /\ ConditionParent(Edges[i].from) = ConditionParent(Edges[j].from)
    /\ ConditionParent(Edges[i].from) # None
    => \E x \in Presumed(guard, i), y \in Presumed(guard, j) : x[1] = y[1] /\ x[2] # y[2]

\* The outcomes the decisions of a flow may take, and the edges they take.
Choices ==
  {chosen \in [Node -> UNION {Outcomes(n) : n \in Node}] : \A n \in Node : chosen[n] \in Outcomes(n)}

Taken(i, chosen) == IsDecision(Edges[i].from) => Edges[i].handle = chosen[Edges[i].from]

\* The live nodes are those the taken edges lead to, and each gets the inputs it needs.
LiveUnder(live, chosen) ==
  /\ live \cap StartingNodes = Outside(StartingNodes)
  /\ \A i \in EdgeIds : Edges[i].from \in live /\ Taken(i, chosen) => Edges[i].to \in live
  /\ \A c \in live \ StartingNodes :
       HasRequiredInputs(c, {Edges[i].from : i \in {j \in InEdges(c) : Edges[j].from \in live
                                                                      /\ Taken(j, chosen)}})

\* Whatever the decisions choose, no join needs an input that they ruled out.
JoinsAreFed == \A chosen \in Choices : \E live \in SUBSET Node : LiveUnder(live, chosen)
================================================================================
