------------------------------ MODULE AgentflowMC ------------------------------
(***************************************************************************)
(* Example flows for AgentflowEngine.  Each is a set of nodes, their       *)
(* kinds and the edges in the order of the flow's edge list.               *)
(***************************************************************************)
EXTENDS AgentflowShapes, TLC

CONSTANTS start, choice, a, b, c, more, join, ask, confirm, again, each, inner

Symmetric == Permutations(Run)

Edge(from, to, handle) == [from |-> from, to |-> to, handle |-> handle]

NoParent == [n \in Node |-> None]
NoLoop   == <<>>

KindsBut(special) == [n \in Node |-> IF n \in DOMAIN special THEN special[n] ELSE "plain"]

\* start -> choice -> a -> more -> join or choice -> b -> join, and start -> c -> join.
DiamondNodes == {start, choice, a, b, c, more, join}
DiamondKinds == KindsBut(choice :> "condition")
DiamondEdges == <<Edge(start, choice, 0), Edge(start, c, 0), Edge(choice, a, 0),
                  Edge(choice, b, 1), Edge(a, more, 0), Edge(more, join, 0), Edge(b, join, 0), Edge(c, join, 0)>>

\* What the theorems about joins and routes ask of a flow holds of this one.
DiamondGuard == [n \in Node |-> CASE n \in {a, more} -> {<<choice, 0>>}
                                  [] n = b            -> {<<choice, 1>>}
                                  [] OTHER            -> {}]
DiamondRank  == [n \in Node |-> CASE n = start -> 0 [] n = choice -> 1 [] n = a -> 2
                                  [] n = more -> 3 [] n = join -> 4 [] OTHER -> 2]

ASSUME DiamondFits ==
  Node = DiamondNodes => /\ NoQuestions /\ DistinctEdges /\ Acyclic(DiamondRank)
                         /\ GuardsHold(DiamondGuard) /\ InputsExclude(DiamondGuard)
                         /\ JoinsAreFed

\* start -> ask -> confirm -> a; a rejection leads to b or to c.
ApprovalNodes == {start, ask, confirm, a, b, c}
ApprovalKinds == KindsBut(ask :> "human" @@ confirm :> "human" @@ a :> "agent")
ApprovalEdges == <<Edge(start, ask, 0), Edge(ask, confirm, 0), Edge(ask, b, 1),
                   Edge(confirm, a, 0), Edge(confirm, c, 1)>>

\* start -> a -> choice -> ask -> b; the other outcome of choice and a rejection go back to
\* a, each through a loop of its own.
RevisionNodes == {start, a, choice, ask, b, again, more}
RevisionKinds == KindsBut(choice :> "condition" @@ ask :> "human" @@ again :> "loop" @@ more :> "loop")
RevisionEdges == <<Edge(start, a, 0), Edge(a, choice, 0), Edge(choice, ask, 0), Edge(choice, again, 1),
                   Edge(ask, b, 0), Edge(ask, more, 1)>>
RevisionLoop  == again :> a @@ more :> a

\* start -> ask -> each -> b, where each goes through items with an agent.
ItemsNodes  == {start, ask, each, inner, b}
ItemsKinds  == KindsBut(ask :> "human" @@ each :> "iteration" @@ inner :> "agent")
ItemsEdges  == <<Edge(start, ask, 0), Edge(ask, each, 0), Edge(each, b, 0)>>
ItemsParent == [n \in Node |-> IF n = inner THEN each ELSE None]
================================================================================
