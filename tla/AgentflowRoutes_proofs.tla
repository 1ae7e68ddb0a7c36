------------------------- MODULE AgentflowRoutes_proofs -------------------------
(***************************************************************************)
(* Which way the outputs of nodes take through a flow: proofs about        *)
(* AgentflowEngine for flows of the shapes that AgentflowShapes describes, *)
(* any number of requests and any limits.  Joins wait for all they are     *)
(* given, every node that runs was fed, and no route is lost.              *)
(***************************************************************************)
EXTENDS AgentflowEngine_proofs, AgentflowShapes

\* The nodes whose outputs a node was given, and whether they are all it needs.
Arrived(d, c) == {d[i].node : i \in FedBy(d, c)}

Ready(d, c) == HasRequiredInputs(c, Arrived(d, c))

\* A decision has taken an outcome, and all that a node presupposes have been taken.
Took(d, x) == \E i \in FinishedIn(d) : d[i].node = x[1] /\ d[i].outcome = x[2]

Allowed(guard, d, c) == \A x \in guard[c] : Took(d, x)

Done(d) == {d[i].node : i \in FinishedIn(d)}

--------------------------------------------------------------------------------
\* The graph

\* More inputs are as good as fewer.
LEMMA MoreInputs ==
  ASSUME NEW c, NEW few, NEW many, few \subseteq many, HasRequiredInputs(c, few)
  PROVE  HasRequiredInputs(c, many)
<1>1. ExpectedInputs(c) \subseteq many
  BY DEF HasRequiredInputs
<1>2. \A group \in ConditionalGroups(c) : group \cap many # {}
  BY DEF HasRequiredInputs
<1> QED
  BY <1>1, <1>2 DEF HasRequiredInputs

\* A node that needs no inputs has none.
LEMMA NeedsNone ==
  ASSUME NEW c \in Node, HasRequiredInputs(c, {})
  PROVE  c \in StartingNodes
<1>1. \A s \in Sources(c) : ConditionParent(s) = None
  <2> SUFFICES ASSUME NEW s \in Sources(c), ConditionParent(s) # None PROVE FALSE
    OBVIOUS
  <2>1. {t \in Sources(c) : ConditionParent(t) = ConditionParent(s)} \in ConditionalGroups(c)
    BY DEF ConditionalGroups
  <2> QED
    BY <2>1 DEF HasRequiredInputs
<1>2. Sources(c) = {}
  BY <1>1 DEF HasRequiredInputs, ExpectedInputs
<1> QED
  BY <1>2 DEF Sources, StartingNodes

\* Every input is needed, or shares its decision with another input that has arrived.
LEMMA NeedsAll ==
  ASSUME NEW c, NEW received, HasRequiredInputs(c, received), NEW s \in Sources(c), s \notin received
  PROVE  /\ ConditionParent(s) # None
         /\ \E t \in Sources(c) \cap received : ConditionParent(t) = ConditionParent(s)
<1>1. ConditionParent(s) # None
  BY DEF HasRequiredInputs, ExpectedInputs
<1>2. {t \in Sources(c) : ConditionParent(t) = ConditionParent(s)} \in ConditionalGroups(c)
  BY <1>1 DEF ConditionalGroups
<1> QED
  BY <1>1, <1>2 DEF HasRequiredInputs

\* A starting node needs no inputs.
LEMMA StartsReady ==
  ASSUME NEW n \in StartingNodes, NEW received
  PROVE  HasRequiredInputs(n, received)
<1>1. Sources(n) = {}
  BY DEF StartingNodes, Sources
<1> QED
  BY <1>1 DEF HasRequiredInputs, ExpectedInputs, ConditionalGroups

\* The output of a node goes along the edges its outcome leads to, no less and no more.
LEMMA EdgesTaken ==
  ASSUME DistinctEdges, NEW n, NEW outcome
  PROVE  /\ \A i \in EdgeIds : Receives(i, n, outcome) <=>
              Edges[i].from = n /\ (IsDecision(n) => Edges[i].handle = outcome)
         /\ \A c : c \in Fulfilled(n, outcome) <=>
              \E i \in EdgeIds : Receives(i, n, outcome) /\ Edges[i].to = c
<1>1. ASSUME IsDecision(n), NEW i \in EdgeIds, Edges[i].from = n
      PROVE  Edges[i].to \in NodesToIgnore(n, outcome) <=> Edges[i].handle # outcome
  <2>1. \A h \in Handles(n) : FirstOf(HandleEdges(n, h)) \in HandleEdges(n, h)
    <3> SUFFICES ASSUME NEW h \in Handles(n) PROVE FirstOf(HandleEdges(n, h)) \in HandleEdges(n, h)
      OBVIOUS
    <3>1. HandleEdges(n, h) \in SUBSET (0..Len(Edges)) /\ HandleEdges(n, h) # {} /\ Len(Edges) \in Nat
      BY EdgesAre DEF Handles, HandleEdges, EdgeIds
    <3>2. \E m \in HandleEdges(n, h) : \A k \in HandleEdges(n, h) : m <= k
      BY <3>1, LeastOf
    <3> QED
      BY <3>2 DEF FirstOf
  <2>2. \A h \in Handles(n) : HandleEdges(n, h) \subseteq {j \in EdgeIds : Edges[j].from = n /\ Edges[j].handle = h}
    BY DEF HandleEdges
  <2>3. Edges[i].handle \in Handles(n)
    BY <1>1 DEF Handles
  <2>4. NodesToIgnore(n, outcome) = {Edges[FirstOf(HandleEdges(n, h))].to : h \in Handles(n) \ {outcome}}
    BY <1>1 DEF NodesToIgnore
  <2>5. ASSUME NEW h \in Handles(n), Edges[FirstOf(HandleEdges(n, h))].to = Edges[i].to
        PROVE  Edges[i].handle = h
    BY <1>1, <2>1, <2>2, <2>5 DEF DistinctEdges
  <2>6. Edges[FirstOf(HandleEdges(n, Edges[i].handle))].to = Edges[i].to
    BY <1>1, <2>1, <2>2, <2>3 DEF DistinctEdges
  <2> QED
    BY <2>3, <2>4, <2>5, <2>6
<1>2. \A i \in EdgeIds : Receives(i, n, outcome) <=>
        Edges[i].from = n /\ (IsDecision(n) => Edges[i].handle = outcome)
  <2>1. CASE IsDecision(n)
    BY <1>1, <2>1 DEF Receives
  <2>2. CASE ~IsDecision(n)
    BY <2>2 DEF Receives, NodesToIgnore
  <2> QED
    BY <2>1, <2>2
<1>3. \A c : c \in Fulfilled(n, outcome) <=>
        \E i \in EdgeIds : /\ Edges[i].from = n /\ Edges[i].to = c
                           /\ IsDecision(n) => Edges[i].handle = outcome
  BY DEF Fulfilled, HandleEdges, Targets
<1> QED
  BY <1>2, <1>3

--------------------------------------------------------------------------------
\* The executed data

\* A node finished once, and every node waited for all that leads to it.
RanOnce(d) == \A i, j \in DOMAIN d : i # j /\ d[i].status = "FINISHED" => d[i].node # d[j].node

Waited(d) == \A i \in DOMAIN d : \A j \in FedBy(d, d[i].node) : j < i

DataFits(guard, d) ==
  /\ RanOnce(d) /\ Waited(d)
  /\ \A i \in DOMAIN d : Ready(d, d[i].node) /\ Allowed(guard, d, d[i].node)

\* What one more entry brings about.
LEMMA DataGrows ==
  ASSUME NEW d \in Seq(Entry), NEW e \in Entry
  PROVE  LET finished == e.status = "FINISHED"
             more     == Append(d, e)
         IN /\ \A c : FedBy(more, c) = FedBy(d, c) \cup
                 (IF finished /\ c \in Fulfilled(e.node, e.outcome) THEN {Len(d) + 1} ELSE {})
            /\ \A c : Arrived(more, c) = Arrived(d, c) \cup
                 (IF finished /\ c \in Fulfilled(e.node, e.outcome) THEN {e.node} ELSE {})
            /\ \A x : Took(more, x) <=>
                 Took(d, x) \/ (finished /\ e.node = x[1] /\ e.outcome = x[2])
            /\ Done(more) = Done(d) \cup (IF finished THEN {e.node} ELSE {})
<1> DEFINE more == Append(d, e)
           new  == Len(d) + 1
<1>1. /\ DOMAIN d = 1..Len(d) /\ Len(d) \in Nat /\ DOMAIN more = DOMAIN d \cup {new}
      /\ new \notin DOMAIN d /\ more[new] = e /\ \A i \in DOMAIN d : more[i] = d[i]
  BY Elements, OneMore
<1> HIDE DEF more, new
<1>2. FinishedIn(more) = FinishedIn(d) \cup (IF e.status = "FINISHED" THEN {new} ELSE {})
  BY <1>1 DEF FinishedIn
<1>3. \A i \in FinishedIn(d) : i \in DOMAIN d
  BY DEF FinishedIn
<1>4. \A c : FedBy(more, c) = FedBy(d, c) \cup
        (IF e.status = "FINISHED" /\ c \in Fulfilled(e.node, e.outcome) THEN {new} ELSE {})
  BY <1>1, <1>2, <1>3 DEF FedBy
<1>5. \A c : \A i \in FedBy(d, c) : i \in DOMAIN d
  BY <1>3 DEF FedBy
<1>6. \A c : Arrived(more, c) = Arrived(d, c) \cup
        (IF e.status = "FINISHED" /\ c \in Fulfilled(e.node, e.outcome) THEN {e.node} ELSE {})
  BY <1>1, <1>4, <1>5 DEF Arrived
<1>7. \A x : Took(more, x) <=>
        Took(d, x) \/ (e.status = "FINISHED" /\ e.node = x[1] /\ e.outcome = x[2])
  BY <1>1, <1>2, <1>3 DEF Took
<1>8. Done(more) = Done(d) \cup (IF e.status = "FINISHED" THEN {e.node} ELSE {})
  BY <1>1, <1>2, <1>3 DEF Done
<1> QED
  BY <1>4, <1>6, <1>7, <1>8 DEF more, new

\* A node whose inputs have arrived gets no other: the output of a node that runs leads to
\* a node that has not begun.
LEMMA NotAgain ==
  ASSUME DistinctEdges, NEW guard, InputsExclude(guard), NEW d \in Seq(Entry), DataFits(guard, d),
         NEW n \in Node, n \notin Done(d), Allowed(guard, d, n), NEW outcome,
         NEW c, c \in Fulfilled(n, outcome), Ready(d, c)
  PROVE  FALSE
<1>1. PICK i \in EdgeIds : /\ Edges[i].from = n /\ Edges[i].to = c
                           /\ IsDecision(n) => Edges[i].handle = outcome
  BY EdgesTaken
<1>2. n \in Sources(c)
  BY <1>1 DEF Sources, InEdges
<1>3. \A k \in FedBy(d, c) : k \in FinishedIn(d) /\ k \in DOMAIN d /\ d[k].status = "FINISHED"
  BY DEF FedBy, FinishedIn
<1>4. n \notin Arrived(d, c)
  BY <1>3 DEF Arrived, Done
<1>5. /\ ConditionParent(n) # None
      /\ \E t \in Sources(c) \cap Arrived(d, c) : ConditionParent(t) = ConditionParent(n)
  BY <1>2, <1>4, NeedsAll DEF Ready
<1>6. PICK s \in Arrived(d, c) : ConditionParent(s) = ConditionParent(n)
  BY <1>5
<1>7. PICK k \in FedBy(d, c) : d[k].node = s
  BY <1>6 DEF Arrived
<1>8. PICK j \in EdgeIds : /\ Edges[j].from = s /\ Edges[j].to = c
                           /\ IsDecision(s) => Edges[j].handle = d[k].outcome
  BY <1>7, EdgesTaken DEF FedBy
<1>9. PICK x \in Presumed(guard, j), y \in Presumed(guard, i) : x[1] = y[1] /\ x[2] # y[2]
  <2>1. s # n
    BY <1>4, <1>6
  <2> QED
    BY <1>1, <1>5, <1>6, <1>8, <2>1 DEF InputsExclude
<1>10. Took(d, x)
  <2>1. CASE x \in guard[s]
    BY <1>3, <1>7, <2>1 DEF DataFits, Allowed
  <2>2. CASE IsDecision(s) /\ x = <<s, Edges[j].handle>>
    BY <1>3, <1>7, <1>8, <2>2 DEF Took
  <2> QED
    BY <1>8, <1>9, <2>1, <2>2 DEF Presumed
<1>11. PICK a \in FinishedIn(d) : d[a].node = x[1] /\ d[a].outcome = x[2]
  BY <1>10 DEF Took
<1>12. y \in guard[n]
  <2>1. x[1] # n
    BY <1>11 DEF Done
  <2> QED
    BY <1>1, <1>9, <2>1 DEF Presumed
<1>13. PICK b \in FinishedIn(d) : d[b].node = y[1] /\ d[b].outcome = y[2]
  BY <1>12 DEF Allowed, Took
<1>14. a \in DOMAIN d /\ b \in DOMAIN d /\ d[a].status = "FINISHED"
  BY DEF FinishedIn
<1> QED
  BY <1>9, <1>11, <1>13, <1>14 DEF DataFits, RanOnce

\* The data of a node that waits, fails or is aborted still fits.
LEMMA EntryFits ==
  ASSUME NEW guard, NEW d \in Seq(Entry), DataFits(guard, d), NEW e \in Entry,
         e.node \notin Done(d), Ready(d, e.node), Allowed(guard, d, e.node),
         e.status # "FINISHED"
  PROVE  DataFits(guard, Append(d, e))
<1> DEFINE more == Append(d, e)
           new  == Len(d) + 1
<1>1. /\ DOMAIN d = 1..Len(d) /\ Len(d) \in Nat /\ DOMAIN more = DOMAIN d \cup {new}
      /\ new \notin DOMAIN d /\ more[new] = e /\ \A i \in DOMAIN d : more[i] = d[i]
  BY Elements, OneMore
<1>2. /\ \A c : FedBy(more, c) = FedBy(d, c) /\ Arrived(more, c) = Arrived(d, c)
      /\ \A x : Took(more, x) <=> Took(d, x)
  <2>1. \A c : FedBy(more, c) = FedBy(d, c) \cup {}
    BY DataGrows
  <2>2. \A c : Arrived(more, c) = Arrived(d, c) \cup {}
    BY DataGrows
  <2>3. \A x : Took(more, x) <=> Took(d, x)
    BY DataGrows
  <2> QED
    BY <2>1, <2>2, <2>3
<1> HIDE DEF more
<1>3. RanOnce(more)
  BY <1>1 DEF DataFits, RanOnce, Done, FinishedIn
<1>4. Waited(more)
  <2>1. \A c : \A j \in FedBy(d, c) : j \in DOMAIN d
    BY DEF FedBy, FinishedIn
  <2> QED
    BY <1>1, <1>2, <2>1 DEF DataFits, Waited
<1>5. \A i \in DOMAIN more : Ready(more, more[i].node) /\ Allowed(guard, more, more[i].node)
  BY <1>1, <1>2 DEF DataFits, Ready, Allowed
<1> QED
  BY <1>3, <1>4, <1>5 DEF DataFits, more

\* The data of a node that finishes fits: nothing ran that waits for its output.
LEMMA FinishFits ==
  ASSUME DistinctEdges, NEW guard, InputsExclude(guard), NEW d \in Seq(Entry), DataFits(guard, d),
         NEW e \in Entry, e.status = "FINISHED", e.node \notin Done(d), Answered(d),
         Ready(d, e.node), Allowed(guard, d, e.node)
  PROVE  DataFits(guard, Append(d, e))
<1> DEFINE more == Append(d, e)
           new  == Len(d) + 1
<1>1. /\ DOMAIN d = 1..Len(d) /\ Len(d) \in Nat /\ DOMAIN more = DOMAIN d \cup {new}
      /\ new \notin DOMAIN d /\ more[new] = e /\ \A i \in DOMAIN d : more[i] = d[i]
  BY Elements, OneMore
<1>2. /\ \A c : /\ FedBy(more, c) = FedBy(d, c) \cup
                     (IF c \in Fulfilled(e.node, e.outcome) THEN {new} ELSE {})
                /\ Arrived(d, c) \subseteq Arrived(more, c)
      /\ \A x : Took(d, x) => Took(more, x)
  BY DataGrows
<1>3. \A i \in DOMAIN more : more[i].node \notin Fulfilled(e.node, e.outcome)
  <2> SUFFICES ASSUME NEW i \in DOMAIN more, more[i].node \in Fulfilled(e.node, e.outcome) PROVE FALSE
    OBVIOUS
  <2>1. Ready(d, more[i].node)
    <3> HIDE DEF more
    <3> QED
      BY <1>1 DEF DataFits
  <2>2. e.node \in Node
    BY DEF Entry
  <2> HIDE DEF more
  <2> QED
    BY <2>1, <2>2, NotAgain
<1> HIDE DEF more
<1>4. RanOnce(more)
  BY <1>1 DEF DataFits, RanOnce, Done, FinishedIn, Answered
<1>5. Waited(more)
  <2>1. \A c : \A j \in FedBy(d, c) : j \in DOMAIN d
    BY DEF FedBy, FinishedIn
  <2> QED
    BY <1>1, <1>2, <1>3, <2>1 DEF DataFits, Waited
<1>6. \A i \in DOMAIN more : Ready(more, more[i].node) /\ Allowed(guard, more, more[i].node)
  <2> SUFFICES ASSUME NEW i \in DOMAIN more
               PROVE  Ready(more, more[i].node) /\ Allowed(guard, more, more[i].node)
    OBVIOUS
  <2>1. Ready(d, more[i].node) /\ Allowed(guard, d, more[i].node)
    BY <1>1 DEF DataFits
  <2> QED
    BY <1>2, <2>1, MoreInputs DEF Ready, Allowed
<1> QED
  BY <1>4, <1>5, <1>6 DEF DataFits, more

\* What data tells without a last entry that did not finish.
LEMMA LessFits ==
  ASSUME NEW guard, NEW d \in Seq(Entry), d # <<>>, d[Len(d)].status # "FINISHED"
  PROVE  /\ DropLast(d) \in Seq(Entry)
         /\ \A c : Arrived(DropLast(d), c) = Arrived(d, c)
         /\ \A x : Took(DropLast(d), x) <=> Took(d, x)
         /\ Done(DropLast(d)) = Done(d)
         /\ DataFits(guard, d) => DataFits(guard, DropLast(d))
<1> DEFINE less == DropLast(d)
<1>1. /\ DOMAIN d = 1..Len(d) /\ Len(d) \in Nat \ {0} /\ DOMAIN less = 1..(Len(d) - 1)
      /\ \A i \in DOMAIN less : less[i] = d[i]
  BY Elements, OneLess
<1>2. less \in Seq(Entry)
  BY OneLess
<1> HIDE DEF less
<1>3. FinishedIn(less) = FinishedIn(d) /\ \A i \in FinishedIn(d) : i \in DOMAIN less /\ less[i] = d[i]
  <2>1. \A i \in FinishedIn(d) : i \in DOMAIN d /\ d[i].status = "FINISHED" /\ i # Len(d)
    BY DEF FinishedIn
  <2>2. \A i \in FinishedIn(d) : i \in DOMAIN less /\ less[i] = d[i]
    BY <1>1, <2>1
  <2>3. FinishedIn(less) \subseteq FinishedIn(d)
    BY <1>1 DEF FinishedIn
  <2>4. FinishedIn(d) \subseteq FinishedIn(less)
    BY <2>1, <2>2 DEF FinishedIn
  <2> QED
    BY <2>2, <2>3, <2>4
<1>4. \A c : FedBy(less, c) = FedBy(d, c) /\ FedBy(d, c) \subseteq FinishedIn(d)
  BY <1>3 DEF FedBy
<1>5. \A c : Arrived(less, c) = Arrived(d, c)
  BY <1>3, <1>4 DEF Arrived
<1>6. \A x : Took(less, x) <=> Took(d, x)
  BY <1>3 DEF Took
<1>7. Done(less) = Done(d)
  BY <1>3 DEF Done
<1>8. ASSUME DataFits(guard, d) PROVE DataFits(guard, less)
  <2>1. RanOnce(less)
    BY <1>1, <1>8 DEF DataFits, RanOnce
  <2>2. Waited(less)
    BY <1>1, <1>4, <1>8 DEF DataFits, Waited
  <2>3. \A i \in DOMAIN less : Ready(less, less[i].node) /\ Allowed(guard, less, less[i].node)
    BY <1>1, <1>5, <1>6, <1>8 DEF DataFits, Ready, Allowed
  <2> QED
    BY <2>1, <2>2, <2>3 DEF DataFits
<1> QED
  BY <1>2, <1>5, <1>6, <1>7, <1>8 DEF less

\* Nothing ran at first.
LEMMA NoneFits == \A guard : DataFits(guard, <<>>)
  BY DEF DataFits, RanOnce, Waited

\* The first entries, and the next one.
LEMMA FrontAndNext ==
  ASSUME NEW S, NEW d \in Seq(S), NEW i \in 1..Len(d)
  PROVE  Append(SubSeq(d, 1, i - 1), d[i]) = SubSeq(d, 1, i)
<1>1. Len(d) \in Nat /\ i \in Nat /\ i - 1 \in Nat
  OBVIOUS
<1>2. SubSeq(d, 1, i - 1) \in Seq(S) /\ Len(SubSeq(d, 1, i - 1)) = i - 1
      /\ \A k \in 1..(i - 1) : SubSeq(d, 1, i - 1)[k] = d[k]
  OBVIOUS
<1>3. SubSeq(d, 1, i) \in Seq(S) /\ Len(SubSeq(d, 1, i)) = i
      /\ \A k \in 1..i : SubSeq(d, 1, i)[k] = d[k]
  OBVIOUS
<1> DEFINE s == Append(SubSeq(d, 1, i - 1), d[i])
<1>4. s \in Seq(S) /\ Len(s) = i /\ \A k \in 1..i : s[k] = d[k]
  BY <1>2
<1> HIDE DEF s
<1> QED
  BY <1>3, <1>4

\* Of a node that was asked, WithoutNode takes the question, the last entry, and nothing else.
LEMMA AnswerDrops ==
  ASSUME NEW d \in Seq(Entry), NEW h, h # None, Open(d, h), RanOnce(d)
  PROVE  WithoutNode(d, h) = DropLast(d)
<1>1. /\ d # <<>> /\ DOMAIN d = 1..Len(d) /\ Len(d) \in Nat \ {0}
      /\ d[Len(d)].node = h /\ \A i \in DOMAIN d : i < Len(d) => d[i].status = "FINISHED"
  <2>1. AskedBy(d) /\ d[Len(d)].node = h
    BY DEF Open
  <2> QED
    BY <2>1, Elements DEF AskedBy, EndsIn
<1>2. \A i \in DOMAIN d : i < Len(d) => d[i].node # h
  BY <1>1 DEF RanOnce
<1>3. PICK kept : Keeping(kept, d, h)
  BY WithoutNodeRuns
<1> DEFINE same == {i \in 0..(Len(d) - 1) : kept[i] = SubSeq(d, 1, i)}
<1>4. 0 \in same
  BY <1>1, <1>3 DEF Keeping
<1>5. ASSUME NEW i \in 1..(Len(d) - 1), i - 1 \in same PROVE i \in same
  <2>1. kept[i - 1] = SubSeq(d, 1, i - 1)
    BY <1>5
  <2>2. kept[i] = Append(kept[i - 1], d[i])
    <3>1. i \in 1..Len(d) /\ i < Len(d)
      BY <1>1
    <3> QED
      BY <1>1, <1>2, <1>3, <3>1 DEF Keeping
  <2>3. Append(SubSeq(d, 1, i - 1), d[i]) = SubSeq(d, 1, i)
    BY <1>1, FrontAndNext
  <2>4. kept[i] = SubSeq(d, 1, i)
    BY <2>1, <2>2, <2>3
  <2>5. i \in 0..(Len(d) - 1)
    BY <1>1
  <2> QED
    BY <2>4, <2>5
<1>6. Len(d) - 1 \in same
  <2> DEFINE b == Len(d) - 1
  <2>1. b \in Nat
    BY <1>1
  <2>2. \A i \in 1..b : i - 1 \in same => i \in same
    BY <1>5
  <2> HIDE DEF same, b
  <2>3. \A i \in 0..b : i \in same
    BY <1>4, <2>1, <2>2, UpToBound
  <2>4. b \in same
    BY <2>1, <2>3
  <2> QED
    BY <2>4 DEF b
<1>7. kept[Len(d)] = kept[Len(d) - 1]
  BY <1>1, <1>3 DEF Keeping
<1>8. kept[Len(d) - 1] = DropLast(d)
  BY <1>1, <1>6 DEF DropLast
<1> QED
  BY <1>3, <1>7, <1>8 DEF Keeping

\* The entries behind which a node records its own tell what the data told.
LEMMA BaseFits ==
  ASSUME NEW guard, NEW d \in Seq(Entry), DataFits(guard, d), NEW n \in Node,
         NEW h \in {None, n}, Open(d, h)
  PROVE  LET base == IF h = n THEN WithoutNode(d, n) ELSE d
         IN /\ base \in Seq(Entry) /\ DataFits(guard, base) /\ Answered(base)
            /\ \A c : Arrived(base, c) = Arrived(d, c)
            /\ \A x : Took(base, x) <=> Took(d, x)
            /\ Done(base) = Done(d)
<1>1. n # None
  BY GraphAssumption
<1>2. CASE h = None
  BY <1>1, <1>2 DEF Open
<1>3. CASE h = n
  <2>1. WithoutNode(d, n) = DropLast(d)
    BY <1>1, <1>3, AnswerDrops DEF DataFits
  <2>2. d # <<>> /\ d[Len(d)].status # "FINISHED"
    BY <1>1, <1>3 DEF Open, AskedBy, EndsIn
  <2>3. Answered(WithoutNode(d, n))
    BY <1>1, <1>3, AnswerEnds
  <2> QED
    BY <1>3, <2>1, <2>2, <2>3, LessFits
<1> QED
  BY <1>2, <1>3

--------------------------------------------------------------------------------
\* What is delivered

\* The nodes that wait in a queue, once each.
QueuedIn(q) == {q[k].node : k \in DOMAIN q}

OnceEach(q) == \A k, l \in DOMAIN q : k # l => q[k].node # q[l].node

\* One more item in a queue.
LEMMA QueueGrows ==
  ASSUME NEW q \in Seq(QItem), NEW item \in QItem
  PROVE  /\ QueuedIn(Append(q, item)) = QueuedIn(q) \cup {item.node}
         /\ (OnceEach(q) /\ item.node \notin QueuedIn(q) => OnceEach(Append(q, item)))
<1> DEFINE more == Append(q, item)
           new  == Len(q) + 1
<1>1. /\ DOMAIN q = 1..Len(q) /\ Len(q) \in Nat /\ DOMAIN more = DOMAIN q \cup {new}
      /\ new \notin DOMAIN q /\ more[new] = item /\ \A k \in DOMAIN q : more[k] = q[k]
  BY Elements, OneMore
<1> HIDE DEF more, new
<1>2. QueuedIn(more) = QueuedIn(q) \cup {item.node}
  BY <1>1 DEF QueuedIn
<1>3. OnceEach(q) /\ item.node \notin QueuedIn(q) => OnceEach(more)
  BY <1>1 DEF QueuedIn, OnceEach
<1> QED
  BY <1>2, <1>3 DEF more

\* The output of n has gone to the nodes in hit: those that have all they need are queued,
\* and the others wait on.
Sent(box, w, q, n, hit) ==
  /\ \A c \in Node : box.waiting[c] =
       IF c \notin hit THEN w[c]
       ELSE IF HasRequiredInputs(c, w[c] \cup {n}) THEN {} ELSE w[c] \cup {n}
  /\ QueuedIn(box.queue) = QueuedIn(q) \cup {c \in hit : HasRequiredInputs(c, w[c] \cup {n})}
  /\ OnceEach(box.queue)

\* One more child is given it.
LEMMA SentOn ==
  ASSUME NEW w \in [Node -> SUBSET Node], NEW q, NEW n \in Node, NEW hit, NEW box \in Box,
         Sent(box, w, q, n, hit), NEW child \in Node, child \notin hit, child \notin QueuedIn(q)
  PROVE  Sent(Deliver(n, box, child), w, q, n, hit \cup {child})
<1> DEFINE received == w[child] \cup {n}
<1>1. /\ box.waiting[child] = w[child] /\ box.waiting \in [Node -> SUBSET Node]
      /\ box.queue \in Seq(QItem) /\ received \in SUBSET Node
      /\ box \in [waiting : [Node -> SUBSET Node], queue : Seq(QItem)]
  BY DEF Sent, Box
<1>2. CASE HasRequiredInputs(child, received)
  <2> DEFINE item == Item(child, received)
             next == Deliver(n, box, child)
  <2>1. next.waiting = [box.waiting EXCEPT ![child] = {}] /\ next.queue = Append(box.queue, item)
    BY <1>1, <1>2 DEF Deliver
  <2>2. item \in QItem /\ item.node = child
    BY <1>1 DEF Item, QItem
  <2>3. child \notin QueuedIn(box.queue)
    BY DEF Sent
  <2> HIDE DEF item, next, received
  <2>4. QueuedIn(next.queue) = QueuedIn(box.queue) \cup {child} /\ OnceEach(next.queue)
    <3>1. OnceEach(box.queue)
      BY DEF Sent
    <3>2. QueuedIn(Append(box.queue, item)) = QueuedIn(box.queue) \cup {child}
      BY <1>1, <2>2, QueueGrows
    <3>3. OnceEach(Append(box.queue, item))
      BY <1>1, <2>2, <2>3, <3>1, QueueGrows
    <3> QED
      BY <2>1, <3>2, <3>3
  <2>5. {c \in hit \cup {child} : HasRequiredInputs(c, w[c] \cup {n})}
          = {c \in hit : HasRequiredInputs(c, w[c] \cup {n})} \cup {child}
    BY <1>2 DEF received
  <2>6. \A c \in Node : next.waiting[c] =
          IF c \notin hit \cup {child} THEN w[c]
          ELSE IF HasRequiredInputs(c, w[c] \cup {n}) THEN {} ELSE w[c] \cup {n}
    BY <1>1, <1>2, <2>1 DEF Sent, received
  <2> QED
    BY <2>4, <2>5, <2>6 DEF Sent, next
<1>3. CASE ~HasRequiredInputs(child, received)
  <2> DEFINE next == Deliver(n, box, child)
  <2>1. next = [box EXCEPT !.waiting[child] = received]
    BY <1>1, <1>3 DEF Deliver
  <2>2. next.waiting = [box.waiting EXCEPT ![child] = received] /\ next.queue = box.queue
    <3> HIDE DEF next, received
    <3> QED
      BY <1>1, <2>1
  <2> HIDE DEF next, received
  <2>3. {c \in hit \cup {child} : HasRequiredInputs(c, w[c] \cup {n})}
          = {c \in hit : HasRequiredInputs(c, w[c] \cup {n})}
    BY <1>3 DEF received
  <2>4. \A c \in Node : next.waiting[c] =
          IF c \notin hit \cup {child} THEN w[c]
          ELSE IF HasRequiredInputs(c, w[c] \cup {n}) THEN {} ELSE w[c] \cup {n}
    BY <1>1, <1>3, <2>2 DEF Sent, received
  <2> QED
    BY <2>2, <2>3, <2>4 DEF Sent, next
<1> QED
  BY <1>2, <1>3

\* Every node the outcome leads to is given the output, when none of them waits in the queue.
LEMMA AllSent ==
  ASSUME DistinctEdges, NEW p, waiting[p] \in [Node -> SUBSET Node], queue[p] \in Seq(QItem),
         NEW n \in Node, NEW outcome, OnceEach(queue[p]),
         Fulfilled(n, outcome) \cap QueuedIn(queue[p]) = {}
  PROVE  /\ DeliverAll(p, n, outcome) \in Box
         /\ Sent(DeliverAll(p, n, outcome), waiting[p], queue[p], n, Fulfilled(n, outcome))
<1>1. PICK box : Delivering(box, p, n, outcome)
  BY DeliverAllRuns
<1> DEFINE Hit(i) == {Edges[k].to : k \in {j \in 1..i : Receives(j, n, outcome)}}
           sent   == {i \in 0..Len(Edges) : Sent(box[i], waiting[p], queue[p], n, Hit(i))}
<1>2. /\ Len(Edges) \in Nat /\ EdgeIds = 1..Len(Edges)
      /\ \A i \in EdgeIds : Edges[i].from \in Node /\ Edges[i].to \in Node
  BY EdgesAre DEF EdgeIds
<1>3. 0 \in sent
  <2>1. Hit(0) = {}
    OBVIOUS
  <2>2. box[0].waiting = waiting[p] /\ box[0].queue = queue[p]
    BY <1>1 DEF Delivering
  <2> HIDE DEF Hit
  <2> QED
    BY <1>2, <2>1, <2>2 DEF Sent
<1>4. ASSUME NEW i \in 1..Len(Edges), i - 1 \in sent PROVE i \in sent
  <2>1. /\ i - 1 \in 0..Len(Edges) /\ box[i - 1] \in Box
        /\ Sent(box[i - 1], waiting[p], queue[p], n, Hit(i - 1))
    BY <1>1, <1>2, <1>4 DEF Delivering
  <2>2. CASE Receives(i, n, outcome)
    <3>1. Hit(i) = Hit(i - 1) \cup {Edges[i].to}
      BY <1>2, <2>2
    <3>2. Edges[i].to \notin Hit(i - 1)
      BY <1>2, <2>2 DEF Receives, DistinctEdges
    <3>3. Edges[i].to \notin QueuedIn(queue[p])
      BY <1>2, <2>2, EdgesTaken
    <3>4. box[i] = Deliver(n, box[i - 1], Edges[i].to)
      BY <1>1, <2>2 DEF Delivering
    <3> HIDE DEF Hit
    <3>5. Sent(box[i], waiting[p], queue[p], n, Hit(i))
      BY <1>2, <2>1, <3>1, <3>2, <3>3, <3>4, SentOn
    <3> QED
      BY <3>5
  <2>3. CASE ~Receives(i, n, outcome)
    <3>1. Hit(i) = Hit(i - 1)
      BY <1>2, <2>3
    <3>2. box[i] = box[i - 1]
      BY <1>1, <2>3 DEF Delivering
    <3> HIDE DEF Hit
    <3> QED
      BY <2>1, <3>1, <3>2
  <2> QED
    BY <2>2, <2>3
<1>5. Len(Edges) \in sent
  <2> HIDE DEF sent
  <2>1. \A i \in 0..Len(Edges) : i \in sent
    BY <1>2, <1>3, <1>4, UpToBound
  <2> QED
    BY <1>2, <2>1
<1>6. Hit(Len(Edges)) = Fulfilled(n, outcome)
  <2>1. \A c : c \in Hit(Len(Edges)) <=> c \in Fulfilled(n, outcome)
    BY <1>2, EdgesTaken
  <2> HIDE DEF Hit
  <2> QED
    BY <2>1
<1>7. DeliverAll(p, n, outcome) = box[Len(Edges)] /\ box[Len(Edges)] \in Box
  BY <1>1, <1>2 DEF Delivering
<1> QED
  BY <1>5, <1>6, <1>7

--------------------------------------------------------------------------------
\* What a request has in hand

\* The nodes of the queue, and the one that is being executed.
Busy(place, q, n) == QueuedIn(q) \cup (IF place = "executing" THEN {n} ELSE {})

\* Nodes are queued once, have not run, and may run; others wait with what they were given.
WorkFits(guard, place, d, q, w, n) ==
  /\ OnceEach(q) /\ (place = "executing" => n \notin QueuedIn(q))
  /\ Busy(place, q, n) \cap Done(d) = {}
  /\ \A c \in Busy(place, q, n) : Ready(d, c) /\ Allowed(guard, d, c)
  /\ \A c \in Node : w[c] \subseteq Arrived(d, c)

RunFits(guard, place, d, q, w, n) ==
  /\ DataFits(guard, d)
  /\ place = "new" => d = <<>>
  /\ place \in {"new", "claiming", "reclaiming", "reclaimed"} => q = <<>> /\ \A c \in Node : w[c] = {}
  /\ place \in {"running", "executing"} => WorkFits(guard, place, d, q, w, n)

RunsFit(guard) ==
  \A p \in Run : RunFits(guard, pc[p], data[p], queue[p], waiting[p], current[p])

RowsFit(guard) == \A e \in Row : DataFits(guard, rows[e].data)

FInv(guard) == RunsFit(guard) /\ RowsFit(guard)

\* One request at a time.
LEMMA FitsOn ==
  ASSUME NEW guard, RunsFit(guard), NEW p \in Run,
         RunFits(guard, pc'[p], data'[p], queue'[p], waiting'[p], current'[p]),
         \A r \in Run : r # p => /\ pc'[r] = pc[r] /\ data'[r] = data[r] /\ queue'[r] = queue[r]
                                 /\ waiting'[r] = waiting[r] /\ current'[r] = current[r]
  PROVE  RunsFit(guard)'
  BY DEF RunsFit

\* One node in the queue.
LEMMA OneQueued ==
  ASSUME NEW c, NEW inputs
  PROVE  /\ QueuedIn(<<Item(c, inputs)>>) = {c} /\ OnceEach(<<Item(c, inputs)>>)
         /\ QueuedIn(<<>>) = {} /\ OnceEach(<<>>)
  BY DEF QueuedIn, OnceEach, Item

\* The first node of a queue is taken.
LEMMA QueueShrinks ==
  ASSUME NEW q \in Seq(QItem), q # <<>>
  PROVE  /\ QueuedIn(q) = QueuedIn(Tail(q)) \cup {Head(q).node}
         /\ (OnceEach(q) => OnceEach(Tail(q)) /\ Head(q).node \notin QueuedIn(Tail(q)))
<1> DEFINE less == Tail(q)
<1>1. /\ DOMAIN q = 1..Len(q) /\ Len(q) \in Nat \ {0} /\ DOMAIN less = 1..(Len(q) - 1)
      /\ \A k \in 1..(Len(q) - 1) : less[k] = q[k + 1]
      /\ Head(q) = q[1]
  OBVIOUS
<1> HIDE DEF less
<1>2. \A k \in DOMAIN q : k = 1 \/ (k - 1 \in DOMAIN less /\ less[k - 1] = q[k])
  BY <1>1
<1>3. \A k \in DOMAIN less : k + 1 \in DOMAIN q /\ less[k] = q[k + 1] /\ k + 1 # 1
  BY <1>1
<1>4. QueuedIn(q) \subseteq QueuedIn(less) \cup {Head(q).node}
  BY <1>1, <1>2 DEF QueuedIn
<1>5. QueuedIn(less) \cup {Head(q).node} \subseteq QueuedIn(q)
  BY <1>1, <1>3 DEF QueuedIn
<1>6. ASSUME OnceEach(q) PROVE OnceEach(less)
  <2> SUFFICES ASSUME NEW k \in DOMAIN less, NEW l \in DOMAIN less, k # l
               PROVE  less[k].node # less[l].node
    BY DEF OnceEach
  <2>1. k + 1 # l + 1
    BY <1>1
  <2> QED
    BY <1>3, <1>6, <2>1 DEF OnceEach
<1>7. ASSUME OnceEach(q) PROVE Head(q).node \notin QueuedIn(less)
  BY <1>1, <1>3, <1>7 DEF OnceEach, QueuedIn
<1> QED
  BY <1>4, <1>5, <1>6, <1>7 DEF less

\* What was sent fits: the nodes that are queued have all they need, and have not run.
LEMMA SentFits ==
  ASSUME DistinctEdges, NEW guard, GuardsHold(guard), InputsExclude(guard),
         NEW d \in Seq(Entry), DataFits(guard, d),
         NEW e \in Entry, e.status = "FINISHED",
         NEW q, NEW w, WorkFits(guard, "executing", d, q, w, e.node), QueuedIn(q) \subseteq Node,
         NEW box, Sent(box, w, q, e.node, Fulfilled(e.node, e.outcome))
  PROVE  WorkFits(guard, "running", Append(d, e), box.queue, box.waiting, e.node)
<1> DEFINE n    == e.node
           more == Append(d, e)
           hit  == Fulfilled(n, e.outcome)
           now  == {c \in hit : HasRequiredInputs(c, w[c] \cup {n})}
<1>1. /\ n \in Node /\ n \notin Done(d) /\ Ready(d, n) /\ Allowed(guard, d, n) /\ n \notin QueuedIn(q)
      /\ OnceEach(q) /\ QueuedIn(q) \cap Done(d) = {}
      /\ \A c \in QueuedIn(q) : Ready(d, c) /\ Allowed(guard, d, c)
      /\ \A c \in Node : w[c] \subseteq Arrived(d, c)
  BY DEF Entry, WorkFits, Busy
<1>2. /\ \A c : Arrived(d, c) \subseteq Arrived(more, c)
      /\ \A c \in hit : n \in Arrived(more, c)
      /\ \A x : Took(d, x) => Took(more, x)
      /\ Took(more, <<n, e.outcome>>)
      /\ Done(more) = Done(d) \cup {n}
  BY DataGrows
<1>3. /\ QueuedIn(box.queue) = QueuedIn(q) \cup now /\ OnceEach(box.queue)
      /\ \A c \in Node : box.waiting[c] = IF c \notin hit THEN w[c]
                                        ELSE IF HasRequiredInputs(c, w[c] \cup {n}) THEN {}
                                        ELSE w[c] \cup {n}
  BY DEF Sent
<1> HIDE DEF more
<1>4. \A c \in hit : c \in Node /\ guard[c] \subseteq guard[n] \cup {<<n, e.outcome>>}
  <2> SUFFICES ASSUME NEW c \in hit
               PROVE  c \in Node /\ guard[c] \subseteq guard[n] \cup {<<n, e.outcome>>}
    OBVIOUS
  <2>1. PICK i \in EdgeIds : /\ Edges[i].from = n /\ Edges[i].to = c
                             /\ IsDecision(n) => Edges[i].handle = e.outcome
    BY EdgesTaken
  <2>2. guard[c] \subseteq Presumed(guard, i)
    BY <2>1 DEF GuardsHold
  <2>3. Edges[i].to \in Node
    BY EdgesAre DEF EdgeIds
  <2> QED
    BY <2>1, <2>2, <2>3 DEF Presumed
<1>5. \A c \in hit : ~Ready(d, c)
  <2> HIDE DEF n
  <2> QED
    BY <1>1, NotAgain
<1>6. \A c \in Done(d) : Ready(d, c)
  BY DEF DataFits, Done, FinishedIn
<1>7. QueuedIn(box.queue) \cap Done(more) = {}
  BY <1>1, <1>2, <1>3, <1>5, <1>6
<1>8. \A c \in now : Ready(more, c) /\ Allowed(guard, more, c)
  <2> SUFFICES ASSUME NEW c \in now PROVE Ready(more, c) /\ Allowed(guard, more, c)
    OBVIOUS
  <2>1. w[c] \cup {n} \subseteq Arrived(more, c) /\ HasRequiredInputs(c, w[c] \cup {n})
    BY <1>1, <1>2, <1>4
  <2>2. Allowed(guard, more, c)
    BY <1>1, <1>2, <1>4 DEF Allowed
  <2> QED
    BY <2>1, <2>2, MoreInputs DEF Ready
<1>9. \A c \in QueuedIn(q) : Ready(more, c) /\ Allowed(guard, more, c)
  <2> SUFFICES ASSUME NEW c \in QueuedIn(q) PROVE Ready(more, c) /\ Allowed(guard, more, c)
    OBVIOUS
  <2>1. Ready(more, c)
    BY <1>1, <1>2, MoreInputs DEF Ready
  <2> QED
    BY <1>1, <1>2, <2>1 DEF Allowed
<1>10. \A c \in Node : box.waiting[c] \subseteq Arrived(more, c)
  <2> SUFFICES ASSUME NEW c \in Node PROVE box.waiting[c] \subseteq Arrived(more, c)
    OBVIOUS
  <2>1. w[c] \subseteq Arrived(more, c) /\ (c \in hit => w[c] \cup {n} \subseteq Arrived(more, c))
    BY <1>1, <1>2
  <2>2. box.waiting[c] = w[c] \/ box.waiting[c] = {} \/ (c \in hit /\ box.waiting[c] = w[c] \cup {n})
    BY <1>3
  <2> QED
    BY <2>1, <2>2
<1>11. Busy("running", box.queue, n) = QueuedIn(q) \cup now
  BY <1>3 DEF Busy
<1>12. Busy("running", box.queue, n) \cap Done(more) = {}
  BY <1>3, <1>7, <1>11
<1>13. WorkFits(guard, "running", more, box.queue, box.waiting, n)
  <2> HIDE DEF n, now
  <2> QED
    BY <1>3, <1>8, <1>9, <1>10, <1>11, <1>12 DEF WorkFits
<1> QED
  BY <1>13 DEF more

\* The node that a claimed execution asked: it has not run, and its inputs arrived long ago.
LEMMA AskedFits ==
  ASSUME NEW guard, NEW d \in Seq(Entry), DataFits(guard, d), NEW h \in Node, Open(d, h)
  PROVE  h \notin Done(d) /\ Ready(d, h) /\ Allowed(guard, d, h)
<1>1. d # <<>> /\ d[Len(d)].status = "STOPPED" /\ d[Len(d)].node = h
  BY GraphAssumption DEF Open, AskedBy, EndsIn
<1>2. Len(d) \in DOMAIN d /\ DOMAIN d = 1..Len(d)
  BY <1>1, Elements
<1>3. Ready(d, h) /\ Allowed(guard, d, h)
  BY <1>1, <1>2 DEF DataFits
<1>4. \A i \in FinishedIn(d) : d[i].node # h
  <2>1. \A i \in FinishedIn(d) : i \in DOMAIN d /\ i # Len(d) /\ d[i].status = "FINISHED"
    BY <1>1 DEF FinishedIn
  <2> QED
    BY <1>1, <1>2, <2>1 DEF DataFits, RanOnce
<1> QED
  BY <1>3, <1>4 DEF Done

\* One node is queued first.
LEMMA FirstFits ==
  ASSUME NEW guard, NEW d \in Seq(Entry), DataFits(guard, d), NEW h, NEW w,
         h \notin Done(d), Ready(d, h), Allowed(guard, d, h), \A c \in Node : w[c] = {}, NEW n
  PROVE  /\ WorkFits(guard, "running", d, <<Item(h, {})>>, w, n)
         /\ WorkFits(guard, "running", d, <<>>, w, n)
<1>1. Busy("running", <<Item(h, {})>>, n) = {h} /\ Busy("running", <<>>, n) = {}
  BY OneQueued DEF Busy
<1> QED
  BY <1>1, OneQueued DEF WorkFits

\* A request begins, or claims its row.
LEMMA RequestFits ==
  ASSUME OneRoute, TInv, QInv, NEW guard, GuardsHold(guard), FInv(guard),
         NEW p \in Run, Request(p) \/ Reclaim(p) \/ Claim(p) \/ ClaimFails(p)
  PROVE  FInv(guard)'
<1> USE DEF FInv
<1>0. /\ pc = [r \in Run |-> pc[r]] /\ data \in [Run -> Seq(Entry)]
      /\ queue = [r \in Run |-> queue[r]] /\ waiting = [r \in Run |-> waiting[r]]
      /\ rows = [e \in Row |-> rows[e]]
  BY DEF TInv, TypeOK
<1>1. RunFits(guard, pc[p], data[p], queue[p], waiting[p], current[p])
  BY DEF RunsFit
<1>2. /\ pc[p] \in {"new", "claiming", "reclaiming", "reclaimed"}
      /\ queue[p] = <<>> /\ \A c \in Node : waiting[p][c] = {}
      /\ DataFits(guard, data[p]) /\ (pc[p] = "new" => data[p] = <<>>)
  <2>1. pc[p] \in {"new", "claiming", "reclaiming", "reclaimed"}
    BY DEF Request, Start, Resume, Refuse, Reclaim, Claim, ClaimFails
  <2> QED
    BY <1>1, <2>1 DEF RunFits
<1>3. CASE Start(p)
  <2>1. PICK n \in StartingNodes : queue' = [queue EXCEPT ![p] = <<Item(n, {})>>]
    BY <1>3 DEF Start, Outside
  <2>2. /\ pc[p] = "new" /\ pc' = [pc EXCEPT ![p] = "running"]
        /\ rows' = [rows EXCEPT ![p] = [state |-> "INPROGRESS", data |-> <<>>]]
        /\ UNCHANGED <<waiting, data, current>>
    BY <1>3 DEF Start
  <2>3. Done(data[p]) = {} /\ Ready(data[p], n) /\ Allowed(guard, data[p], n)
    BY <1>2, <2>2, StartsReady DEF Done, FinishedIn, Ready, Allowed, GuardsHold
  <2>4. WorkFits(guard, "running", data[p], <<Item(n, {})>>, waiting[p], current[p])
    BY <1>0, <1>2, <2>3, FirstFits
  <2>5. RunFits(guard, pc'[p], data'[p], queue'[p], waiting'[p], current'[p])
    BY <1>0, <1>2, <2>1, <2>2, <2>4 DEF RunFits
  <2>6. RunsFit(guard)'
    BY <1>0, <2>1, <2>2, <2>5, FitsOn
  <2>7. \A e \in Row : rows'[e] = rows[e] \/ rows'[e].data = <<>>
    BY <1>0, <2>2
  <2>8. RowsFit(guard)'
    BY <2>7, NoneFits DEF RowsFit
  <2> QED
    BY <2>6, <2>8
<1>4. CASE Resume(p, None)
  <2>1. /\ Latest \in Row /\ rows[Latest] \in RowValue /\ Resumable(rows[Latest])
        /\ DataOf(rows[Latest]) \in Seq(Entry)
    BY <1>4, LatestIs, DataOfIs DEF Resume, CanResume, TInv, TypeOK, RowValue
  <2>2. /\ \E place \in {"claiming", "reclaiming"} : pc' = [pc EXCEPT ![p] = place]
        /\ data' = [data EXCEPT ![p] = DataOf(rows[Latest])]
        /\ UNCHANGED <<queue, waiting, current, rows>>
    BY <1>4 DEF Resume
  <2>3. DataFits(guard, DataOf(rows[Latest]))
    <3>1. rows[Latest].data \in Seq(Entry) /\ DataFits(guard, rows[Latest].data)
      BY <2>1 DEF RowValue, RowsFit
    <3>2. CASE rows[Latest].state = "STOPPED"
      BY <3>1, <3>2 DEF DataOf
    <3>3. CASE rows[Latest].state # "STOPPED"
      <4> DEFINE d == rows[Latest].data
      <4>1. Len(d) >= 2 /\ d[Len(d)].status = "ERROR"
        BY <2>1, <3>3 DEF Resumable, FailedOnResume
      <4>2. d # <<>>
        BY <3>1, <4>1
      <4>3. DataOf(rows[Latest]) = DropLast(d)
        BY <3>3 DEF DataOf
      <4> HIDE DEF d
      <4> QED
        BY <3>1, <4>1, <4>2, <4>3, LessFits DEF d
    <3> QED
      BY <3>2, <3>3
  <2>4. RunFits(guard, pc'[p], data'[p], queue'[p], waiting'[p], current'[p])
    BY <1>0, <1>2, <2>2, <2>3 DEF RunFits
  <2>5. RunsFit(guard)'
    BY <1>0, <2>2, <2>4, FitsOn
  <2> QED
    BY <2>2, <2>5 DEF RowsFit
<1>5. CASE Reclaim(p)
  <2>1. /\ pc' = [pc EXCEPT ![p] = "reclaimed"] /\ UNCHANGED <<data, queue, waiting, current>>
        /\ rows' = [rows EXCEPT ![row[p]] = [state |-> "INPROGRESS", data |-> data[p]]]
    BY <1>5 DEF Reclaim, local
  <2>2. RunFits(guard, pc'[p], data'[p], queue'[p], waiting'[p], current'[p])
    BY <1>0, <1>2, <2>1 DEF RunFits
  <2>3. RunsFit(guard)'
    BY <1>0, <2>1, <2>2, FitsOn
  <2>4. \A e \in Row : rows'[e] = rows[e] \/ rows'[e].data = data[p]
    BY <1>0, <2>1
  <2>5. RowsFit(guard)'
    BY <1>2, <2>4 DEF RowsFit
  <2> QED
    BY <2>3, <2>5
<1>6. CASE Claim(p)
  <2>1. /\ pc[p] \in {"claiming", "reclaimed"} /\ pc' = [pc EXCEPT ![p] = "running"]
        /\ queue' = [queue EXCEPT ![p] =
                      IF Parent[human[p]] = None THEN <<Item(human[p], {})>> ELSE <<>>]
        /\ rows' = [rows EXCEPT ![row[p]] = [state |-> "INPROGRESS", data |-> rows[row[p]].data]]
        /\ UNCHANGED <<data, waiting, current>>
    BY <1>6 DEF Claim
  <2>2. human[p] \in Node /\ Open(data[p], human[p])
    BY <2>1 DEF TInv, Placed, QInv, RunsAsk
  <2>3. human[p] \notin Done(data[p]) /\ Ready(data[p], human[p]) /\ Allowed(guard, data[p], human[p])
    BY <1>0, <1>2, <2>2, AskedFits
  <2>4. /\ WorkFits(guard, "running", data[p], <<Item(human[p], {})>>, waiting[p], current[p])
        /\ WorkFits(guard, "running", data[p], <<>>, waiting[p], current[p])
    BY <1>0, <1>2, <2>3, FirstFits
  <2>5. WorkFits(guard, "running", data[p], queue'[p], waiting[p], current[p])
    BY <1>0, <2>1, <2>4
  <2>6. RunFits(guard, pc'[p], data'[p], queue'[p], waiting'[p], current'[p])
    BY <1>0, <1>2, <2>1, <2>5 DEF RunFits
  <2>7. RunsFit(guard)'
    BY <1>0, <2>1, <2>6, FitsOn
  <2>8. \A e \in Row : rows'[e].data = rows[e].data
    BY <1>0, <2>1
  <2>9. RowsFit(guard)'
    BY <2>8 DEF RowsFit
  <2> QED
    BY <2>7, <2>9
<1>7. CASE Refuse(p, None) \/ ClaimFails(p)
  <2>1. pc' = [pc EXCEPT ![p] = "refused"] /\ UNCHANGED <<data, queue, waiting, current, rows>>
    BY <1>7 DEF Refuse, ClaimFails, local, database
  <2>2. RunFits(guard, pc'[p], data'[p], queue'[p], waiting'[p], current'[p])
    BY <1>0, <1>2, <2>1 DEF RunFits
  <2>3. RunsFit(guard)'
    BY <1>0, <2>1, <2>2, FitsOn
  <2> QED
    BY <2>1, <2>3 DEF RowsFit
<1> QED
  BY <1>3, <1>4, <1>5, <1>6, <1>7 DEF Request, OneRoute

\* A request works: every node it runs has what it needs, and nothing waits for it twice.
LEMMA WorkFitsOn ==
  ASSUME NoLoops, DistinctEdges, OneRoute, TInv, IInv, QInv,
         NEW guard, GuardsHold(guard), InputsExclude(guard), FInv(guard), NEW p \in Run,
         \/ Execute(p) \/ AbortedBefore(p) \/ LimitReached(p)
         \/ Stop(p) \/ Throw(p) \/ Iterate(p) \/ Finish(p)
  PROVE  FInv(guard)'
<1> USE DEF FInv
<1> DEFINE n == current[p]
           d == data[p]
<1>0. /\ pc = [r \in Run |-> pc[r]] /\ data \in [Run -> Seq(Entry)]
      /\ queue = [r \in Run |-> queue[r]] /\ waiting = [r \in Run |-> waiting[r]]
      /\ current = [r \in Run |-> current[r]] /\ d \in Seq(Entry)
      /\ queue[p] \in Seq(QItem) /\ waiting[p] \in [Node -> SUBSET Node]
  BY DEF TInv, TypeOK, QItem
<1>1. ~ Iterate(p)
  BY DEF Iterate, OneRoute, TInv, Placed
<1>2. UNCHANGED rows
  BY <1>1 DEF Execute, AbortedBefore, LimitReached, Stop, Throw, Finish, database
<1>3. RowsFit(guard)'
  BY <1>2 DEF RowsFit
<1>4. /\ pc[p] \in {"running", "executing"} /\ Open(d, human[p])
      /\ DataFits(guard, d) /\ WorkFits(guard, pc[p], d, queue[p], waiting[p], n)
  <2>1. pc[p] \in {"running", "executing"}
    BY <1>1 DEF Execute, AbortedBefore, LimitReached, Turn, Stop, Throw, Finish
  <2> QED
    BY <2>1 DEF QInv, RunsAsk, RunsFit, RunFits
<1>5. ASSUME Turn(p), TakeNext(p)
      PROVE  /\ Head(queue[p]).node \in Node /\ Head(queue[p]).node \notin Done(d)
             /\ Ready(d, Head(queue[p]).node) /\ Allowed(guard, d, Head(queue[p]).node)
             /\ WorkFits(guard, "executing", d, Tail(queue[p]), waiting[p], Head(queue[p]).node)
             /\ queue' = [queue EXCEPT ![p] = Tail(queue[p])]
  <2>1. queue[p] # <<>> /\ Head(queue[p]).node \in Node /\ pc[p] = "running"
    BY <1>5, TurnIs DEF Turn, TInv
  <2>2. /\ QueuedIn(queue[p]) = QueuedIn(Tail(queue[p])) \cup {Head(queue[p]).node}
        /\ OnceEach(Tail(queue[p])) /\ Head(queue[p]).node \notin QueuedIn(Tail(queue[p]))
    BY <1>0, <1>4, <2>1, QueueShrinks DEF WorkFits
  <2>3. Busy("executing", Tail(queue[p]), Head(queue[p]).node) = Busy("running", queue[p], n)
    BY <2>2 DEF Busy
  <2>4. Head(queue[p]).node \in Busy("running", queue[p], n)
    BY <2>2 DEF Busy
  <2>5. WorkFits(guard, "executing", d, Tail(queue[p]), waiting[p], Head(queue[p]).node)
    <3> HIDE DEF n, d
    <3> QED
      BY <1>4, <2>1, <2>2, <2>3 DEF WorkFits
  <2>6. Head(queue[p]).node \notin Done(d) /\ Ready(d, Head(queue[p]).node)
        /\ Allowed(guard, d, Head(queue[p]).node)
    BY <1>4, <2>1, <2>4 DEF WorkFits
  <2> QED
    BY <1>5, <2>1, <2>5, <2>6 DEF TakeNext
<1>6. CASE Execute(p)
  <2>1. /\ pc' = [pc EXCEPT ![p] = "executing"] /\ queue' = [queue EXCEPT ![p] = Tail(queue[p])]
        /\ current' = [current EXCEPT ![p] = Head(queue[p]).node] /\ UNCHANGED <<data, waiting>>
        /\ WorkFits(guard, "executing", d, Tail(queue[p]), waiting[p], Head(queue[p]).node)
    BY <1>5, <1>6 DEF Execute
  <2>2. RunFits(guard, pc'[p], data'[p], queue'[p], waiting'[p], current'[p])
    BY <1>0, <1>4, <2>1 DEF RunFits
  <2> QED
    BY <1>0, <1>3, <2>1, <2>2, FitsOn
<1>7. CASE LimitReached(p)
  <2>1. pc' = [pc EXCEPT ![p] = "limit"] /\ UNCHANGED <<data, queue, waiting, current>>
    BY <1>7 DEF LimitReached, local
  <2>2. RunFits(guard, pc'[p], data'[p], queue'[p], waiting'[p], current'[p])
    BY <1>0, <1>4, <2>1 DEF RunFits
  <2> QED
    BY <1>0, <1>3, <2>1, <2>2, FitsOn
<1>8. ASSUME NEW m \in Node, m \notin Done(d), Ready(d, m), Allowed(guard, d, m),
             NEW status \in {"ERROR", "TERMINATED"}, Fail(p, m, status),
             \A r \in Run : r # p => queue'[r] = queue[r], UNCHANGED <<waiting, current>>
      PROVE  FInv(guard)'
  <2> DEFINE entry == [node |-> m, status |-> status, outcome |-> 0]
  <2>1. /\ entry \in Entry /\ data' = [data EXCEPT ![p] = Append(d, entry)]
        /\ \E place \in {"failing", "terminating"} : pc' = [pc EXCEPT ![p] = place]
    <3>1. CASE status = "ERROR"
      BY <1>8, <3>1, FailIs DEF TInv
    <3>2. CASE status = "TERMINATED"
      BY <1>8, <3>2, FailIs DEF TInv
    <3> QED
      BY <3>1, <3>2
  <2>2. entry.node = m /\ entry.status # "FINISHED"
    OBVIOUS
  <2> HIDE DEF entry, d
  <2>3. DataFits(guard, Append(d, entry))
    BY <1>0, <1>4, <1>8, <2>1, <2>2, EntryFits
  <2>4. RunFits(guard, pc'[p], data'[p], queue'[p], waiting'[p], current'[p])
    BY <1>0, <2>1, <2>3 DEF RunFits
  <2> QED
    BY <1>0, <1>3, <1>8, <2>1, <2>4, FitsOn
<1>9. CASE AbortedBefore(p)
  <2>1. /\ Turn(p) /\ TakeNext(p) /\ Fail(p, Head(queue[p]).node, "TERMINATED")
        /\ UNCHANGED <<waiting, current>>
    BY <1>9 DEF AbortedBefore
  <2>2. \A r \in Run : r # p => queue'[r] = queue[r]
    BY <1>0, <2>1 DEF TakeNext
  <2> QED
    BY <1>5, <1>8, <2>1, <2>2
<1>10. ASSUME pc[p] = "executing"
       PROVE  n \in Node /\ n \notin Done(d) /\ Ready(d, n) /\ Allowed(guard, d, n)
  <2>1. n \in Busy("executing", queue[p], n)
    BY DEF Busy
  <2> QED
    BY <1>4, <1>10, <2>1 DEF WorkFits, TInv, Placed
<1>11. CASE Throw(p)
  <2>1. /\ pc[p] = "executing" /\ \E status \in {"ERROR", "TERMINATED"} : Fail(p, n, status)
        /\ UNCHANGED <<queue, waiting, current>>
    BY <1>11 DEF Throw
  <2> QED
    BY <1>8, <1>10, <2>1
<1>12. ASSUME pc[p] = "executing"
       PROVE  /\ Recorded(p, n) \in Seq(Entry) /\ DataFits(guard, Recorded(p, n))
              /\ Answered(Recorded(p, n)) /\ Done(Recorded(p, n)) = Done(d)
              /\ \A c : Ready(d, c) <=> Ready(Recorded(p, n), c)
              /\ \A c : Allowed(guard, d, c) <=> Allowed(guard, Recorded(p, n), c)
              /\ WorkFits(guard, "executing", Recorded(p, n), queue[p], waiting[p], n)
  <2>1. human[p] \in {None, n} /\ n \in Node
    BY <1>12 DEF IInv, AnswerIsNext, TInv, Placed
  <2>2. Recorded(p, n) = IF human[p] = n THEN WithoutNode(d, n) ELSE d
    BY DEF Recorded, Consumed
  <2> HIDE DEF d, n
  <2>3. /\ Recorded(p, n) \in Seq(Entry) /\ DataFits(guard, Recorded(p, n))
        /\ Answered(Recorded(p, n)) /\ Done(Recorded(p, n)) = Done(d)
        /\ \A c : Arrived(Recorded(p, n), c) = Arrived(d, c)
        /\ \A x : Took(Recorded(p, n), x) <=> Took(d, x)
    BY <1>0, <1>4, <2>1, <2>2, BaseFits
  <2>4. /\ \A c : Ready(d, c) <=> Ready(Recorded(p, n), c)
        /\ \A c : Allowed(guard, d, c) <=> Allowed(guard, Recorded(p, n), c)
    BY <2>3 DEF Ready, Allowed
  <2>5. WorkFits(guard, "executing", Recorded(p, n), queue[p], waiting[p], n)
    BY <1>4, <1>12, <2>3, <2>4 DEF WorkFits
  <2> QED
    BY <2>3, <2>4, <2>5
<1>13. CASE Stop(p)
  <2> DEFINE entry == [node |-> n, status |-> "STOPPED", outcome |-> 0]
  <2>1. /\ pc[p] = "executing" /\ Record(p, n, "STOPPED", 0)
        /\ pc' = [pc EXCEPT ![p] = "stopping"] /\ UNCHANGED <<queue, waiting, current>>
    BY <1>13 DEF Stop
  <2>2. entry \in Entry /\ data' = [data EXCEPT ![p] = Append(Recorded(p, n), entry)]
    BY <1>10, <2>1, RecordIs DEF TInv, Status
  <2>3. entry.node = n /\ entry.status # "FINISHED"
    OBVIOUS
  <2>4. n \notin Done(d) /\ Ready(d, n) /\ Allowed(guard, d, n)
    BY <1>10, <2>1
  <2> HIDE DEF entry, n, d
  <2>5. DataFits(guard, Append(Recorded(p, n), entry))
    BY <1>12, <2>1, <2>2, <2>3, <2>4, EntryFits
  <2>6. RunFits(guard, pc'[p], data'[p], queue'[p], waiting'[p], current'[p])
    BY <1>0, <2>1, <2>2, <2>5 DEF RunFits
  <2> QED
    BY <1>0, <1>3, <2>1, <2>2, <2>6, FitsOn
<1>14. CASE Finish(p)
  <2>1. PICK outcome \in Outcomes(n) :
          /\ Record(p, n, "FINISHED", outcome)
          /\ waiting' = [waiting EXCEPT ![p] = DeliverAll(p, n, outcome).waiting]
          /\ queue' = [queue EXCEPT ![p] = IF LoopsAgain(p, n)
                                          THEN Append(DeliverAll(p, n, outcome).queue, Item(LoopTarget[n], {}))
                                          ELSE DeliverAll(p, n, outcome).queue]
    BY <1>14 DEF Finish
  <2>2. pc[p] = "executing" /\ pc' = [pc EXCEPT ![p] = "running"] /\ UNCHANGED current
    BY <1>14 DEF Finish
  <2>3. n \in Node /\ n \notin Done(d) /\ Ready(d, n) /\ Allowed(guard, d, n)
    BY <1>10, <2>2
  <2>4. ~ LoopsAgain(p, n)
    BY <2>3 DEF LoopsAgain, NoLoops
  <2>5. outcome \in Nat
    BY EdgesAre DEF Outcomes, Handles, EdgeIds
  <2> DEFINE entry == [node |-> n, status |-> "FINISHED", outcome |-> outcome]
             base  == Recorded(p, n)
             box   == DeliverAll(p, n, outcome)
  <2>6. entry \in Entry /\ data' = [data EXCEPT ![p] = Append(base, entry)]
    BY <2>1, <2>3, <2>5, RecordIs DEF TInv, Status
  <2>7. entry.node = n /\ entry.status = "FINISHED" /\ entry.outcome = outcome
    OBVIOUS
  <2>8. waiting' = [waiting EXCEPT ![p] = box.waiting] /\ queue' = [queue EXCEPT ![p] = box.queue]
    BY <2>1, <2>4
  <2>9. /\ base \in Seq(Entry) /\ DataFits(guard, base) /\ Answered(base) /\ Done(base) = Done(d)
        /\ Ready(base, n) /\ Allowed(guard, base, n)
        /\ WorkFits(guard, "executing", base, queue[p], waiting[p], n)
    BY <1>12, <2>2, <2>3
  <2> HIDE DEF entry, base, n, d
  <2>10. Fulfilled(n, outcome) \cap QueuedIn(queue[p]) = {}
    <3>1. \A c \in QueuedIn(queue[p]) : Ready(base, c)
      BY <2>9 DEF WorkFits, Busy
    <3> QED
      BY <2>3, <2>9, <3>1, NotAgain
  <2>11. Sent(box, waiting[p], queue[p], n, Fulfilled(n, outcome))
    <3>1. OnceEach(queue[p])
      BY <2>9 DEF WorkFits
    <3> QED
      BY <1>0, <2>3, <2>10, <3>1, AllSent
  <2>12. QueuedIn(queue[p]) \subseteq Node
    <3>1. \A k \in DOMAIN queue[p] : queue[p][k] \in QItem
      BY <1>0, Elements
    <3> QED
      BY <3>1 DEF QueuedIn, QItem
  <2> HIDE DEF box
  <2>13. WorkFits(guard, "running", Append(base, entry), box.queue, box.waiting, n)
    BY <2>6, <2>7, <2>9, <2>11, <2>12, SentFits
  <2>14. DataFits(guard, Append(base, entry))
    BY <2>3, <2>6, <2>7, <2>9, FinishFits
  <2>15. RunFits(guard, pc'[p], data'[p], queue'[p], waiting'[p], n)
    BY <1>0, <2>2, <2>6, <2>8, <2>13, <2>14 DEF RunFits
  <2>16. RunFits(guard, pc'[p], data'[p], queue'[p], waiting'[p], current'[p])
    BY <2>2, <2>15 DEF n
  <2> QED
    BY <1>0, <1>3, <2>2, <2>6, <2>8, <2>16, FitsOn
<1> QED
  BY <1>1, <1>6, <1>7, <1>9, <1>11, <1>13, <1>14

\* A request writes its row for the last time.
LEMMA EndFits ==
  ASSUME TInv, NEW guard, FInv(guard), NEW p \in Run, Complete(p) \/ WriteFailure(p)
  PROVE  FInv(guard)'
<1> USE DEF FInv
<1>0. pc = [r \in Run |-> pc[r]] /\ RunFits(guard, pc[p], data[p], queue[p], waiting[p], current[p])
  BY DEF TInv, TypeOK, RunsFit
<1>1. PICK state : Write(p, state)
  BY DEF Complete, WriteFailure
<1>2. /\ pc[p] \in {"running", "stopping", "failing", "terminating"}
      /\ \E place \in {"done", "failed"} : pc' = [pc EXCEPT ![p] = place]
      /\ UNCHANGED <<data, queue, waiting, current>>
  BY DEF Complete, WriteFailure, local
<1>3. \A e \in Row : rows'[e] = rows[e] \/ rows'[e].data = data[p]
  <2>1. rows = [e \in Row |-> rows[e]]
    BY DEF TInv, TypeOK
  <2> QED
    BY <1>1, <2>1 DEF Write
<1>4. RowsFit(guard)'
  BY <1>0, <1>3 DEF RowsFit, RunFits
<1>5. RunFits(guard, pc'[p], data'[p], queue'[p], waiting'[p], current'[p])
  BY <1>0, <1>2 DEF RunFits
<1> QED
  BY <1>0, <1>2, <1>4, <1>5, FitsOn

\* Every step keeps what fits.
LEMMA StepFits ==
  ASSUME ResumeAt = {}, NoLoops, DistinctEdges, NEW guard, GuardsHold(guard), InputsExclude(guard)
  PROVE  TInv /\ IInv /\ QInv /\ FInv(guard) /\ [Next]_vars => FInv(guard)'
<1>0. OneRoute
  BY DEF OneRoute, NoLoops
<1>1. ASSUME FInv(guard), UNCHANGED <<pc, data, queue, waiting, current, rows>> PROVE FInv(guard)'
  BY <1>1 DEF FInv, RunsFit, RowsFit
<1>2. ASSUME FInv(guard), NEW p \in Run, Abort(p) PROVE FInv(guard)'
  BY <1>1, <1>2 DEF Abort, local, database
<1>3. ASSUME TInv, FInv(guard), NEW e \in Row, Delete(e) PROVE FInv(guard)'
  <2>1. /\ UNCHANGED <<pc, data, queue, waiting, current>>
        /\ rows' = [rows EXCEPT ![e] = [state |-> "absent", data |-> <<>>]]
        /\ rows = [f \in Row |-> rows[f]]
    BY <1>3 DEF Delete, local, TInv, TypeOK
  <2>2. \A f \in Row : rows'[f] = rows[f] \/ rows'[f].data = <<>>
    BY <2>1
  <2> QED
    BY <1>3, <2>1, <2>2, NoneFits DEF FInv, RunsFit, RowsFit
<1> QED
  BY <1>0, <1>1, <1>2, <1>3, RequestFits, WorkFitsOn, EndFits DEF Next, Step, vars, local, database

\* At first nothing is queued, and nothing ran.
LEMMA InitFits == ASSUME NEW guard PROVE Init => FInv(guard)
<1> SUFFICES ASSUME Init PROVE FInv(guard)
  OBVIOUS
<1>1. /\ \A p \in Run : /\ pc[p] = "new" /\ data[p] = <<>> /\ queue[p] = <<>>
                        /\ \A c \in Node : waiting[p][c] = {}
      /\ \A e \in Row : rows[e].data = <<>>
  BY DEF Init
<1> QED
  BY <1>1, NoneFits DEF FInv, RunsFit, RowsFit, RunFits

\* What holds of every reachable state of such flows.
LEMMA AlwaysFits ==
  ASSUME ResumeAt = {}, NoLoops, DistinctEdges, NEW guard, GuardsHold(guard), InputsExclude(guard)
  PROVE  Spec => [](TInv /\ IInv /\ QInv /\ FInv(guard))
<1>1. TInv /\ IInv /\ QInv /\ [Next]_vars => QInv'
  BY StepAsks DEF OneRoute, NoLoops
<1>2. TInv /\ IInv /\ QInv /\ FInv(guard) /\ [Next]_vars => FInv(guard)'
  BY StepFits
<1>3. Init => FInv(guard)
  BY InitFits
<1> QED
  BY <1>1, <1>2, <1>3, InitTypes, StepTypes, InitInv, StepInv, InitAsks, PTL DEF Spec

\* In every flow without loops whose joins have inputs that exclude each other wherever the
\* engine asks for one of them only, and however requests, answers, aborts and deletions
\* interleave: a node ran after all the nodes whose outcomes lead to it.
THEOREM JoinsWaitForAll ==
  ASSUME ResumeAt = {}, NoLoops, DistinctEdges, NEW guard, GuardsHold(guard), InputsExclude(guard)
  PROVE  Spec => []JoinsWait
<1>1. Spec => [](TInv /\ IInv /\ QInv /\ FInv(guard))
  BY AlwaysFits
<1>2. FInv(guard) => JoinsWait
  BY DEF FInv, RowsFit, DataFits, Waited, JoinsWait
<1> QED
  BY <1>1, <1>2, PTL

\* In such flows every node that ran is a starting node or was fed by an earlier node whose
\* outcome leads to it: no branch ran that a decision ruled out.
THEOREM EveryRunIsFed ==
  ASSUME ResumeAt = {}, NoLoops, DistinctEdges, NEW guard, GuardsHold(guard), InputsExclude(guard)
  PROVE  Spec => []RunsAreFed
<1>1. Spec => [](TInv /\ IInv /\ QInv /\ FInv(guard))
  BY AlwaysFits
<1>2. TInv /\ FInv(guard) => RunsAreFed
  <2> SUFFICES ASSUME TInv, FInv(guard), NEW e \in Row, NEW i \in DOMAIN rows[e].data,
                      rows[e].data[i].node \notin StartingNodes
               PROVE  \E j \in FedBy(rows[e].data, rows[e].data[i].node) : j < i
    BY DEF RunsAreFed
  <2> DEFINE d == rows[e].data
             c == d[i].node
  <2>1. DataFits(guard, d) /\ c \in Node /\ c \notin StartingNodes
    <3>1. d \in Seq(Entry)
      BY DEF TInv, TypeOK
    <3>2. d[i] \in Entry
      BY <3>1, Elements
    <3> QED
      BY <3>2 DEF FInv, RowsFit, Entry
  <2>2. Arrived(d, c) # {}
    <3>1. HasRequiredInputs(c, Arrived(d, c))
      BY <2>1 DEF DataFits, Ready
    <3> HIDE DEF c
    <3> QED
      BY <2>1, <3>1, NeedsNone
  <2>3. FedBy(d, c) # {}
    BY <2>2 DEF Arrived
  <2> QED
    BY <2>1, <2>3 DEF DataFits, Waited
<1> QED
  BY <1>1, <1>2, PTL

--------------------------------------------------------------------------------
\* Flows that ask nobody: no route is lost

\* The nodes that ran, run or are queued.
Begun(place, d, q, n) == Done(d) \cup Busy(place, q, n)

\* A node that has not begun lacks an input, and waits with all it was given.
RoutesFit(place, d, q, w, n) ==
  /\ Outside(StartingNodes) \subseteq Begun(place, d, q, n)
  /\ Begun(place, d, q, n) \cap StartingNodes \subseteq Outside(StartingNodes)
  /\ \A i \in FinishedIn(d) : d[i].outcome \in Outcomes(d[i].node)
  /\ \A c \in Node \ Begun(place, d, q, n) :
       /\ w[c] = Arrived(d, c)
       /\ c \notin StartingNodes => ~Ready(d, c)

\* A request that was never asked anything.
NeverAsked(d) == \A i \in DOMAIN d : d[i].status # "STOPPED"

KeepsOn(place, d, q, w, n, h) ==
  /\ h = None /\ place \notin {"claiming", "reclaiming", "reclaimed", "stopping"} /\ NeverAsked(d)
  /\ place \in {"running", "executing"} => RoutesFit(place, d, q, w, n)

RunsKeepOn ==
  \A p \in Run : KeepsOn(pc[p], data[p], queue[p], waiting[p], current[p], human[p])

\* A row that was never asked anything, and lost no route.
LosesNothing(r) ==
  /\ r.state # "STOPPED" /\ NeverAsked(r.data)
  /\ r.state = "FINISHED" =>
       \A c \in Node : FedBy(r.data, c) # {} => \E i \in DOMAIN r.data : r.data[i].node = c

RowsAreComplete == \A e \in Row : LosesNothing(rows[e])

KInv == RunsKeepOn /\ RowsAreComplete

\* Some node of a set comes first.
LEMMA LeastRank ==
  ASSUME NEW rank \in [Node -> Nat], NEW S \in SUBSET Node, S # {}
  PROVE  \E c \in S : \A x \in S : rank[c] <= rank[x]
<1>1. PICK z \in S : TRUE
  OBVIOUS
<1> DEFINE ranks == {rank[x] : x \in {y \in S : rank[y] <= rank[z]}}
<1>2. rank[z] \in Nat /\ ranks \in SUBSET (0..rank[z]) /\ ranks # {}
  BY <1>1
<1>3. PICK m \in ranks : \A k \in ranks : m <= k
  <2> HIDE DEF ranks
  <2> QED
    BY <1>2, LeastOf
<1>4. PICK c \in S : rank[c] = m /\ rank[c] <= rank[z]
  BY <1>3
<1>5. \A x \in S : rank[x] \in Nat /\ (rank[x] <= rank[z] => rank[c] <= rank[x])
  BY <1>3, <1>4
<1> QED
  BY <1>1, <1>2, <1>4, <1>5

\* When nothing is left to run, every node that an outcome leads to has run.
LEMMA AllArrive ==
  ASSUME DistinctEdges, NEW rank \in [Node -> Nat], Acyclic(rank), JoinsAreFed,
         NEW guard, NEW d \in Seq(Entry), DataFits(guard, d),
         NEW w, NEW n, RoutesFit("running", d, <<>>, w, n)
  PROVE  \A c \in Node : FedBy(d, c) # {} => c \in Done(d)
<1> DEFINE Finished(m, o) == \E i \in FinishedIn(d) : d[i].node = m /\ d[i].outcome = o
           chosen == [m \in Node |-> IF m \in Done(d) THEN CHOOSE o : Finished(m, o) ELSE 0]
<1>1. \A i \in FinishedIn(d) : /\ i \in DOMAIN d /\ d[i].status = "FINISHED"
                               /\ d[i].node \in Node /\ d[i].outcome \in Outcomes(d[i].node)
  <2>1. \A i \in FinishedIn(d) : i \in DOMAIN d /\ d[i].status = "FINISHED" /\ d[i] \in Entry
    BY Elements DEF FinishedIn
  <2> QED
    BY <2>1 DEF Entry, RoutesFit
<1>2. \A i, j \in FinishedIn(d) : d[i].node = d[j].node => i = j
  BY <1>1 DEF DataFits, RanOnce
<1>3. \A i \in FinishedIn(d) : chosen[d[i].node] = d[i].outcome
  <2> SUFFICES ASSUME NEW i \in FinishedIn(d) PROVE chosen[d[i].node] = d[i].outcome
    OBVIOUS
  <2> DEFINE o == CHOOSE x : Finished(d[i].node, x)
  <2>1. Finished(d[i].node, d[i].outcome)
    OBVIOUS
  <2>2. Finished(d[i].node, o)
    <3> HIDE DEF Finished
    <3> QED
      BY <2>1, Zenon
  <2>3. o = d[i].outcome
    <3> HIDE DEF o
    <3> QED
      BY <1>2, <2>2
  <2>4. d[i].node \in Done(d) /\ d[i].node \in Node
    BY <1>1 DEF Done
  <2>5. chosen[d[i].node] = o
    BY <2>4
  <2> QED
    BY <2>3, <2>5
<1>4. chosen \in Choices
  <2>1. \A m \in Node : chosen[m] \in Outcomes(m)
    <3> SUFFICES ASSUME NEW m \in Node PROVE chosen[m] \in Outcomes(m)
      OBVIOUS
    <3>1. CASE m \in Done(d)
      BY <1>1, <1>3, <3>1 DEF Done
    <3>2. CASE m \notin Done(d)
      BY <3>2 DEF Outcomes
    <3> QED
      BY <3>1, <3>2
  <2>2. chosen = [m \in Node |-> chosen[m]]
    OBVIOUS
  <2> HIDE DEF chosen
  <2>3. chosen \in [Node -> UNION {Outcomes(m) : m \in Node}]
    BY <2>1, <2>2
  <2> QED
    BY <2>1, <2>3 DEF Choices
<1> HIDE DEF chosen
<1>5. PICK live \in SUBSET Node : LiveUnder(live, chosen)
  BY <1>4 DEF JoinsAreFed
<1>6. /\ live \cap StartingNodes = Outside(StartingNodes)
      /\ \A i \in EdgeIds : Edges[i].from \in live /\ Taken(i, chosen) => Edges[i].to \in live
  BY <1>5 DEF LiveUnder
<1>7. \A i \in EdgeIds : /\ Edges[i].from \in Node /\ Edges[i].to \in Node
                         /\ rank[Edges[i].from] \in Nat /\ rank[Edges[i].to] \in Nat
                         /\ rank[Edges[i].from] < rank[Edges[i].to]
  BY EdgesAre DEF EdgeIds, Acyclic
<1>8. \A c : \A k \in FedBy(d, c) :
        \E i \in EdgeIds : /\ Edges[i].from = d[k].node /\ Edges[i].to = c /\ Taken(i, chosen)
                           /\ d[k].node \in Done(d)
  <2> SUFFICES ASSUME NEW c, NEW k \in FedBy(d, c)
               PROVE  \E i \in EdgeIds : /\ Edges[i].from = d[k].node /\ Edges[i].to = c
                                         /\ Taken(i, chosen) /\ d[k].node \in Done(d)
    OBVIOUS
  <2>1. k \in FinishedIn(d) /\ c \in Fulfilled(d[k].node, d[k].outcome)
    BY DEF FedBy
  <2>2. PICK i \in EdgeIds : /\ Edges[i].from = d[k].node /\ Edges[i].to = c
                             /\ IsDecision(d[k].node) => Edges[i].handle = d[k].outcome
    BY <2>1, EdgesTaken
  <2>3. Taken(i, chosen) /\ d[k].node \in Done(d)
    BY <1>3, <2>1, <2>2 DEF Taken, Done
  <2> QED
    BY <2>2, <2>3
<1>9. Done(d) \subseteq Node
  BY <1>1 DEF Done
<1>10. Begun("running", d, <<>>, n) = Done(d)
  BY OneQueued DEF Begun, Busy
<1>11. live \subseteq Done(d)
  <2> SUFFICES ASSUME live \ Done(d) # {} PROVE FALSE
    OBVIOUS
  <2>1. PICK c \in live \ Done(d) : \A x \in live \ Done(d) : rank[c] <= rank[x]
    BY LeastRank
  <2>2. c \in Node \ StartingNodes
    BY <1>6, <1>10, <2>1 DEF RoutesFit
  <2> DEFINE inputs == {Edges[i].from : i \in {j \in InEdges(c) : /\ Edges[j].from \in live
                                                               /\ Taken(j, chosen)}}
  <2>3. HasRequiredInputs(c, inputs)
    BY <1>5, <2>1, <2>2 DEF LiveUnder
  <2>4. inputs \subseteq Arrived(d, c)
    <3> SUFFICES ASSUME NEW i \in InEdges(c), Edges[i].from \in live, Taken(i, chosen)
                 PROVE  Edges[i].from \in Arrived(d, c)
      OBVIOUS
    <3>1. i \in EdgeIds /\ Edges[i].to = c
      BY DEF InEdges
    <3>2. Edges[i].from \in Done(d)
      BY <1>7, <2>1, <2>2, <3>1
    <3>3. PICK k \in FinishedIn(d) : d[k].node = Edges[i].from
      BY <3>2 DEF Done
    <3>4. c \in Fulfilled(d[k].node, d[k].outcome)
      BY <1>3, <3>1, <3>3, EdgesTaken DEF Taken
    <3> QED
      BY <3>3, <3>4 DEF Arrived, FedBy
  <2>5. Ready(d, c)
    <3> HIDE DEF inputs
    <3> QED
      BY <2>3, <2>4, MoreInputs DEF Ready
  <2> QED
    BY <1>10, <2>1, <2>2, <2>5 DEF RoutesFit
<1>12. Done(d) \subseteq live
  <2> SUFFICES ASSUME Done(d) \ live # {} PROVE FALSE
    OBVIOUS
  <2>1. PICK c \in Done(d) \ live : \A x \in Done(d) \ live : rank[c] <= rank[x]
    BY <1>9, LeastRank
  <2>2. c \in Node \ StartingNodes
    BY <1>6, <1>9, <1>10, <2>1 DEF RoutesFit
  <2>3. Ready(d, c)
    <3>1. PICK i \in FinishedIn(d) : d[i].node = c
      BY <2>1 DEF Done
    <3> QED
      BY <1>1, <3>1 DEF DataFits
  <2>4. PICK k \in FedBy(d, c) : TRUE
    <3>1. Arrived(d, c) # {}
      BY <2>2, <2>3, NeedsNone DEF Ready
    <3> QED
      BY <3>1 DEF Arrived
  <2>5. PICK i \in EdgeIds : /\ Edges[i].from = d[k].node /\ Edges[i].to = c /\ Taken(i, chosen)
                             /\ d[k].node \in Done(d)
    BY <1>8
  <2>6. d[k].node \in live
    BY <1>7, <2>1, <2>5
  <2> QED
    BY <1>6, <2>1, <2>5, <2>6
<1> QED
  <2> SUFFICES ASSUME NEW c \in Node, NEW k \in FedBy(d, c) PROVE c \in Done(d)
    OBVIOUS
  <2>1. PICK i \in EdgeIds : /\ Edges[i].from = d[k].node /\ Edges[i].to = c /\ Taken(i, chosen)
                             /\ d[k].node \in Done(d)
    BY <1>8
  <2> QED
    BY <1>6, <1>11, <1>12, <2>1

\* One request at a time.
LEMMA KeepsOnOn ==
  ASSUME RunsKeepOn, NEW p \in Run,
         KeepsOn(pc'[p], data'[p], queue'[p], waiting'[p], current'[p], human'[p]),
         \A r \in Run : r # p => /\ pc'[r] = pc[r] /\ data'[r] = data[r] /\ queue'[r] = queue[r]
                                 /\ waiting'[r] = waiting[r] /\ current'[r] = current[r]
                                 /\ human'[r] = human[r]
  PROVE  RunsKeepOn'
  BY DEF RunsKeepOn

\* One more entry that asks nothing.
LEMMA AsksNothing ==
  ASSUME NEW d \in Seq(Entry), NeverAsked(d), NEW e \in Entry, e.status # "STOPPED"
  PROVE  NeverAsked(Append(d, e))
  BY OneMore DEF NeverAsked

\* A flow begins at its starting node.
LEMMA StartRoutes ==
  ASSUME NEW m, Outside(StartingNodes) = {m}, NEW w, \A c \in Node : w[c] = {}, NEW n
  PROVE  RoutesFit("running", <<>>, <<Item(m, {})>>, w, n)
<1>1. Begun("running", <<>>, <<Item(m, {})>>, n) = {m}
  BY OneQueued DEF Begun, Busy, Done, FinishedIn
<1>2. FinishedIn(<<>>) = {} /\ \A c : Arrived(<<>>, c) = {}
  BY DEF FinishedIn, FedBy, Arrived
<1>3. m \in StartingNodes
  BY DEF Outside
<1>4. \A c \in Node : c \notin StartingNodes => ~Ready(<<>>, c)
  BY <1>2, NeedsNone DEF Ready
<1> QED
  BY <1>1, <1>2, <1>3, <1>4 DEF RoutesFit

\* A node finishes: the nodes it leads to are queued, or lack another input.
LEMMA FinishRoutes ==
  ASSUME DistinctEdges, NEW d \in Seq(Entry), NEW e \in Entry, e.status = "FINISHED",
         e.outcome \in Outcomes(e.node), NEW q, NEW w, RoutesFit("executing", d, q, w, e.node),
         NEW box, Sent(box, w, q, e.node, Fulfilled(e.node, e.outcome))
  PROVE  RoutesFit("running", Append(d, e), box.queue, box.waiting, e.node)
<1> DEFINE n    == e.node
           more == Append(d, e)
           hit  == Fulfilled(n, e.outcome)
           now  == {c \in hit : HasRequiredInputs(c, w[c] \cup {n})}
           had  == Begun("executing", d, q, n)
<1>1. /\ \A c : Arrived(more, c) = Arrived(d, c) \cup (IF c \in hit THEN {n} ELSE {})
      /\ Done(more) = Done(d) \cup {n}
  BY DataGrows
<1>2. /\ QueuedIn(box.queue) = QueuedIn(q) \cup now
      /\ \A c \in Node : box.waiting[c] = IF c \notin hit THEN w[c]
                                        ELSE IF HasRequiredInputs(c, w[c] \cup {n}) THEN {}
                                        ELSE w[c] \cup {n}
  BY DEF Sent
<1>3. Begun("running", more, box.queue, n) = had \cup now
  BY <1>1, <1>2 DEF Begun, Busy
<1>4. now \cap StartingNodes = {}
  <2>1. \A c \in hit : \E i \in EdgeIds : Edges[i].to = c
    BY EdgesTaken
  <2> QED
    BY <2>1 DEF StartingNodes, InEdges
<1>5. \A i \in FinishedIn(more) : more[i].outcome \in Outcomes(more[i].node)
  <2>1. /\ DOMAIN more = DOMAIN d \cup {Len(d) + 1} /\ more[Len(d) + 1] = e
        /\ \A i \in DOMAIN d : more[i] = d[i]
    BY OneMore
  <2> HIDE DEF more
  <2>2. \A i \in FinishedIn(more) : i = Len(d) + 1 \/ (i \in FinishedIn(d) /\ more[i] = d[i])
    BY <2>1 DEF FinishedIn
  <2> QED
    BY <2>1, <2>2 DEF RoutesFit
<1> HIDE DEF more
<1>6. ASSUME NEW c \in Node, c \notin had, c \notin now
      PROVE  box.waiting[c] = Arrived(more, c) /\ (c \notin StartingNodes => ~Ready(more, c))
  <2>1. w[c] = Arrived(d, c) /\ (c \notin StartingNodes => ~Ready(d, c))
    BY <1>6 DEF RoutesFit
  <2>2. CASE c \notin hit
    <3>1. Arrived(more, c) = Arrived(d, c)
      <4>1. Arrived(more, c) = Arrived(d, c) \cup {}
        BY <1>1, <2>2
      <4> QED
        BY <4>1
    <3> QED
      BY <1>2, <2>1, <2>2, <3>1 DEF Ready
  <2>3. CASE c \in hit
    <3>1. Arrived(more, c) = w[c] \cup {n}
      BY <1>1, <2>1, <2>3
    <3>2. ~HasRequiredInputs(c, w[c] \cup {n})
      BY <1>6, <2>3
    <3> QED
      BY <1>2, <2>3, <3>1, <3>2 DEF Ready
  <2> QED
    BY <2>2, <2>3
<1>7. Outside(StartingNodes) \subseteq had \cup now
  BY DEF RoutesFit
<1>8. (had \cup now) \cap StartingNodes \subseteq Outside(StartingNodes)
  BY <1>4 DEF RoutesFit
<1>9. RoutesFit("running", more, box.queue, box.waiting, n)
  <2> HIDE DEF had, now, n
  <2> QED
    BY <1>3, <1>5, <1>6, <1>7, <1>8 DEF RoutesFit
<1> QED
  BY <1>9 DEF more

\* A request of such a flow begins, and none resumes.
LEMMA RequestKeepsOn ==
  ASSUME OneRoute, TInv, NEW guard, FInv(guard), KInv,
         NEW p \in Run, Request(p) \/ Reclaim(p) \/ Claim(p) \/ ClaimFails(p)
  PROVE  KInv'
<1> USE DEF KInv
<1>0. /\ pc = [r \in Run |-> pc[r]] /\ data \in [Run -> Seq(Entry)]
      /\ queue = [r \in Run |-> queue[r]] /\ waiting = [r \in Run |-> waiting[r]]
      /\ rows = [e \in Row |-> rows[e]]
  BY DEF TInv, TypeOK
<1>1. KeepsOn(pc[p], data[p], queue[p], waiting[p], current[p], human[p])
  BY DEF RunsKeepOn
<1>2. human[p] = None /\ NeverAsked(data[p]) /\ pc[p] \notin {"claiming", "reclaiming", "reclaimed"}
  BY <1>1 DEF KeepsOn
<1>3. ~ Resume(p, None)
  <2> SUFFICES ASSUME Resume(p, None) PROVE FALSE
    OBVIOUS
  <2> DEFINE r == rows[Latest]
  <2>1. Latest \in Row /\ r \in RowValue /\ Resumable(r)
    BY LatestIs DEF Resume, CanResume, TInv, TypeOK, RowValue
  <2>2. LosesNothing(r) /\ r.data \in Seq(Entry)
    BY <2>1 DEF RowsAreComplete, RowValue
  <2>3. Len(r.data) >= 2 /\ r.data[Len(r.data) - 1].status = "STOPPED"
    BY <2>1, <2>2 DEF LosesNothing, Resumable, FailedOnResume
  <2>4. Len(r.data) - 1 \in DOMAIN r.data
    <3>1. DOMAIN r.data = 1..Len(r.data) /\ Len(r.data) \in Nat
      BY <2>2, Elements
    <3> HIDE DEF r
    <3> QED
      BY <2>3, <3>1
  <2> QED
    BY <2>2, <2>3, <2>4 DEF LosesNothing, NeverAsked
<1>4. CASE Start(p)
  <2>1. PICK m \in Outside(StartingNodes) : /\ Outside(StartingNodes) = {m}
                                            /\ queue' = [queue EXCEPT ![p] = <<Item(m, {})>>]
    BY <1>4 DEF Start
  <2>2. /\ pc[p] = "new" /\ pc' = [pc EXCEPT ![p] = "running"]
        /\ rows' = [rows EXCEPT ![p] = [state |-> "INPROGRESS", data |-> <<>>]]
        /\ UNCHANGED <<waiting, data, current, human>>
    BY <1>4 DEF Start
  <2>3. data[p] = <<>> /\ \A c \in Node : waiting[p][c] = {}
    BY <2>2 DEF FInv, RunsFit, RunFits
  <2>4. RoutesFit("running", data[p], <<Item(m, {})>>, waiting[p], current[p])
    BY <2>1, <2>3, StartRoutes
  <2>5. KeepsOn(pc'[p], data'[p], queue'[p], waiting'[p], current'[p], human'[p])
    BY <1>0, <1>2, <2>1, <2>2, <2>4 DEF KeepsOn
  <2>6. RunsKeepOn'
    BY <1>0, <2>1, <2>2, <2>5, KeepsOnOn
  <2>7. \A e \in Row : rows'[e] = rows[e] \/ rows'[e] = [state |-> "INPROGRESS", data |-> <<>>]
    BY <1>0, <2>2
  <2>8. LosesNothing([state |-> "INPROGRESS", data |-> <<>>])
    BY DEF LosesNothing, NeverAsked
  <2>9. RowsAreComplete'
    BY <2>7, <2>8 DEF RowsAreComplete
  <2> QED
    BY <2>6, <2>9
<1>5. CASE Refuse(p, None)
  <2>1. pc' = [pc EXCEPT ![p] = "refused"] /\ UNCHANGED <<data, queue, waiting, current, human, rows>>
    BY <1>5 DEF Refuse, local, database
  <2>2. KeepsOn(pc'[p], data'[p], queue'[p], waiting'[p], current'[p], human'[p])
    BY <1>0, <1>2, <2>1 DEF KeepsOn
  <2>3. RunsKeepOn'
    BY <1>0, <2>1, <2>2, KeepsOnOn
  <2> QED
    BY <2>1, <2>3 DEF RowsAreComplete
<1>6. ~Reclaim(p) /\ ~Claim(p) /\ ~ClaimFails(p)
  BY <1>2 DEF Reclaim, Claim, ClaimFails
<1> QED
  BY <1>3, <1>4, <1>5, <1>6 DEF Request, OneRoute

\* A request works: whatever has not begun when its node finished is still missing an input.
LEMMA WorkKeepsOn ==
  ASSUME NoQuestions, DistinctEdges, TInv, NEW guard, InputsExclude(guard), FInv(guard), KInv,
         NEW p \in Run,
         \/ Execute(p) \/ AbortedBefore(p) \/ LimitReached(p)
         \/ Stop(p) \/ Throw(p) \/ Iterate(p) \/ Finish(p)
  PROVE  KInv'
<1> USE DEF KInv
<1> DEFINE n == current[p]
           d == data[p]
<1>0. /\ pc = [r \in Run |-> pc[r]] /\ data \in [Run -> Seq(Entry)]
      /\ queue = [r \in Run |-> queue[r]] /\ waiting = [r \in Run |-> waiting[r]]
      /\ current = [r \in Run |-> current[r]] /\ human = [r \in Run |-> human[r]]
      /\ d \in Seq(Entry) /\ queue[p] \in Seq(QItem) /\ waiting[p] \in [Node -> SUBSET Node]
  BY DEF TInv, TypeOK, QItem
<1>1. ~ Iterate(p) /\ ~ Stop(p)
  BY DEF Iterate, Stop, NoQuestions, TInv, Placed
<1>2. UNCHANGED rows
  BY <1>1 DEF Execute, AbortedBefore, LimitReached, Throw, Finish, database
<1>3. RowsAreComplete'
  BY <1>2 DEF RowsAreComplete
<1>4. /\ human[p] = None /\ NeverAsked(d) /\ pc[p] \in {"running", "executing"}
      /\ RoutesFit(pc[p], d, queue[p], waiting[p], n)
      /\ DataFits(guard, d) /\ WorkFits(guard, pc[p], d, queue[p], waiting[p], n)
  <2>1. pc[p] \in {"running", "executing"}
    BY <1>1 DEF Execute, AbortedBefore, LimitReached, Turn, Throw, Finish
  <2> QED
    BY <2>1 DEF RunsKeepOn, KeepsOn, FInv, RunsFit, RunFits
<1>5. CASE Execute(p)
  <2>1. /\ queue[p] # <<>> /\ pc[p] = "running" /\ pc' = [pc EXCEPT ![p] = "executing"]
        /\ queue' = [queue EXCEPT ![p] = Tail(queue[p])]
        /\ current' = [current EXCEPT ![p] = Head(queue[p]).node] /\ UNCHANGED <<data, waiting, human>>
    BY <1>5 DEF Execute, Turn, TakeNext
  <2>2. QueuedIn(queue[p]) = QueuedIn(Tail(queue[p])) \cup {Head(queue[p]).node}
    BY <1>0, <2>1, QueueShrinks
  <2>3. Begun("executing", d, Tail(queue[p]), Head(queue[p]).node) = Begun("running", d, queue[p], n)
    BY <2>2 DEF Begun, Busy
  <2>4. RoutesFit("executing", d, Tail(queue[p]), waiting[p], Head(queue[p]).node)
    <3> HIDE DEF d, n
    <3> QED
      BY <1>4, <2>1, <2>3 DEF RoutesFit
  <2>5. KeepsOn(pc'[p], data'[p], queue'[p], waiting'[p], current'[p], human'[p])
    BY <1>0, <1>4, <2>1, <2>4 DEF KeepsOn
  <2> QED
    BY <1>0, <1>3, <2>1, <2>5, KeepsOnOn
<1>6. CASE LimitReached(p)
  <2>1. pc' = [pc EXCEPT ![p] = "limit"] /\ UNCHANGED <<data, queue, waiting, current, human>>
    BY <1>6 DEF LimitReached, local
  <2>2. KeepsOn(pc'[p], data'[p], queue'[p], waiting'[p], current'[p], human'[p])
    BY <1>0, <1>4, <2>1 DEF KeepsOn
  <2> QED
    BY <1>0, <1>3, <2>1, <2>2, KeepsOnOn
<1>7. ASSUME NEW m \in Node, NEW status \in {"ERROR", "TERMINATED"}, Fail(p, m, status),
             \A r \in Run : r # p => queue'[r] = queue[r], UNCHANGED <<waiting, current, human>>
      PROVE  KInv'
  <2> DEFINE entry == [node |-> m, status |-> status, outcome |-> 0]
  <2>1. /\ entry \in Entry /\ data' = [data EXCEPT ![p] = Append(d, entry)]
        /\ \E place \in {"failing", "terminating"} : pc' = [pc EXCEPT ![p] = place]
    <3>1. CASE status = "ERROR"
      BY <1>7, <3>1, FailIs DEF TInv
    <3>2. CASE status = "TERMINATED"
      BY <1>7, <3>2, FailIs DEF TInv
    <3> QED
      BY <3>1, <3>2
  <2>2. entry.status # "STOPPED"
    OBVIOUS
  <2> HIDE DEF entry, d
  <2>3. NeverAsked(Append(d, entry))
    BY <1>0, <1>4, <2>1, <2>2, AsksNothing
  <2>4. KeepsOn(pc'[p], data'[p], queue'[p], waiting'[p], current'[p], human'[p])
    BY <1>0, <1>4, <1>7, <2>1, <2>3 DEF KeepsOn
  <2> QED
    BY <1>0, <1>3, <1>7, <2>1, <2>4, KeepsOnOn
<1>8. CASE AbortedBefore(p)
  <2>1. /\ Turn(p) /\ TakeNext(p) /\ Fail(p, Head(queue[p]).node, "TERMINATED")
        /\ UNCHANGED <<waiting, current, human>>
    BY <1>8 DEF AbortedBefore
  <2>2. \A r \in Run : r # p => queue'[r] = queue[r]
    BY <1>0, <2>1 DEF TakeNext
  <2>3. Head(queue[p]).node \in Node
    BY <2>1, TurnIs DEF TInv
  <2> QED
    BY <1>7, <2>1, <2>2, <2>3
<1>9. CASE Throw(p)
  <2>1. /\ pc[p] = "executing" /\ \E status \in {"ERROR", "TERMINATED"} : Fail(p, n, status)
        /\ UNCHANGED <<queue, waiting, current, human>>
    BY <1>9 DEF Throw
  <2>2. n \in Node
    BY <2>1 DEF TInv, Placed
  <2> QED
    BY <1>7, <2>1, <2>2
<1>10. CASE Finish(p)
  <2>1. PICK outcome \in Outcomes(n) :
          /\ Record(p, n, "FINISHED", outcome)
          /\ waiting' = [waiting EXCEPT ![p] = DeliverAll(p, n, outcome).waiting]
          /\ queue' = [queue EXCEPT ![p] = IF LoopsAgain(p, n)
                                          THEN Append(DeliverAll(p, n, outcome).queue, Item(LoopTarget[n], {}))
                                          ELSE DeliverAll(p, n, outcome).queue]
    BY <1>10 DEF Finish
  <2>2. pc[p] = "executing" /\ pc' = [pc EXCEPT ![p] = "running"] /\ UNCHANGED current
    BY <1>10 DEF Finish
  <2>3. n \in Node /\ n \notin Done(d) /\ Allowed(guard, d, n)
    <3>1. n \in Busy("executing", queue[p], n)
      BY DEF Busy
    <3> QED
      BY <1>4, <2>2, <3>1 DEF WorkFits, TInv, Placed
  <2>4. ~ LoopsAgain(p, n)
    BY <2>3 DEF LoopsAgain, NoQuestions
  <2>5. outcome \in Nat
    BY EdgesAre DEF Outcomes, Handles, EdgeIds
  <2> DEFINE entry == [node |-> n, status |-> "FINISHED", outcome |-> outcome]
             box   == DeliverAll(p, n, outcome)
  <2>6. human'[p] = None /\ \A r \in Run : human'[r] = human[r]
    BY <1>0, <1>4, <2>1, <2>4 DEF Record
  <2>7. Recorded(p, n) = d
    BY <1>4, <2>3, GraphAssumption DEF Recorded, Consumed
  <2>8. entry \in Entry /\ data' = [data EXCEPT ![p] = Append(d, entry)]
    BY <2>1, <2>3, <2>5, <2>7, RecordIs DEF TInv, Status
  <2>9. entry.node = n /\ entry.status = "FINISHED" /\ entry.outcome = outcome
    OBVIOUS
  <2>10. waiting' = [waiting EXCEPT ![p] = box.waiting] /\ queue' = [queue EXCEPT ![p] = box.queue]
    BY <2>1, <2>4
  <2> HIDE DEF entry, n, d
  <2>11. Fulfilled(n, outcome) \cap QueuedIn(queue[p]) = {}
    <3>1. \A c \in QueuedIn(queue[p]) : Ready(d, c)
      BY <1>4 DEF WorkFits, Busy
    <3> QED
      BY <1>0, <1>4, <2>3, <3>1, NotAgain
  <2>12. Sent(box, waiting[p], queue[p], n, Fulfilled(n, outcome))
    <3>1. OnceEach(queue[p])
      BY <1>4 DEF WorkFits
    <3> QED
      BY <1>0, <2>3, <2>11, <3>1, AllSent
  <2> HIDE DEF box
  <2>13. RoutesFit("running", Append(d, entry), box.queue, box.waiting, n)
    BY <1>0, <1>4, <2>1, <2>2, <2>8, <2>9, <2>12, FinishRoutes
  <2>14. NeverAsked(Append(d, entry))
    BY <1>0, <1>4, <2>8, <2>9, AsksNothing
  <2>15. KeepsOn(pc'[p], data'[p], queue'[p], waiting'[p], n, human'[p])
    BY <1>0, <2>2, <2>6, <2>8, <2>10, <2>13, <2>14 DEF KeepsOn
  <2>16. KeepsOn(pc'[p], data'[p], queue'[p], waiting'[p], current'[p], human'[p])
    BY <2>2, <2>15 DEF n
  <2> QED
    BY <1>0, <1>3, <2>2, <2>6, <2>8, <2>10, <2>16, KeepsOnOn
<1> QED
  BY <1>1, <1>5, <1>6, <1>8, <1>9, <1>10

\* A request ends: when it is finished, nothing is left that an outcome leads to.
LEMMA EndKeepsOn ==
  ASSUME DistinctEdges, NEW rank \in [Node -> Nat], Acyclic(rank), JoinsAreFed,
         TInv, NEW guard, FInv(guard), KInv, NEW p \in Run, Complete(p) \/ WriteFailure(p)
  PROVE  KInv'
<1> USE DEF KInv
<1> DEFINE d == data[p]
<1>0. pc = [r \in Run |-> pc[r]] /\ d \in Seq(Entry) /\ rows = [e \in Row |-> rows[e]]
  BY DEF TInv, TypeOK
<1>1. KeepsOn(pc[p], d, queue[p], waiting[p], current[p], human[p]) /\ DataFits(guard, d)
  BY DEF RunsKeepOn, FInv, RunsFit, RunFits
<1>2. PICK state :
        /\ Write(p, state) /\ state # "STOPPED"
        /\ state = "FINISHED" =>
             \A c \in Node : FedBy(d, c) # {} => \E i \in DOMAIN d : d[i].node = c
  <2>1. CASE Complete(p)
    <3>1. Write(p, Verdict(d)) /\ pc[p] = "running" /\ queue[p] = <<>>
      BY <1>1, <2>1 DEF Complete, KeepsOn
    <3>2. Verdict(d) # "STOPPED"
      BY <1>1 DEF Verdict, KeepsOn, NeverAsked, StatusesIn
    <3>3. RoutesFit("running", d, <<>>, waiting[p], current[p])
      BY <1>1, <3>1 DEF KeepsOn
    <3>4. \A c \in Node : FedBy(d, c) # {} => c \in Done(d)
      BY <1>0, <1>1, <3>3, AllArrive
    <3>5. \A c \in Done(d) : \E i \in DOMAIN d : d[i].node = c
      BY DEF Done, FinishedIn
    <3> QED
      BY <3>1, <3>2, <3>4, <3>5
  <2>2. CASE WriteFailure(p)
    BY <2>2 DEF WriteFailure
  <2> QED
    BY <2>1, <2>2
<1>3. /\ pc[p] \in {"running", "failing", "terminating"}
      /\ \E place \in {"done", "failed"} : pc' = [pc EXCEPT ![p] = place]
      /\ UNCHANGED <<data, queue, waiting, current, human>>
  BY <1>1 DEF Complete, WriteFailure, KeepsOn, local
<1>4. \A e \in Row : rows'[e] = rows[e] \/ rows'[e] = [state |-> state, data |-> d]
  BY <1>0, <1>2 DEF Write
<1>5. LosesNothing([state |-> state, data |-> d])
  BY <1>1, <1>2 DEF LosesNothing, KeepsOn
<1>6. RowsAreComplete'
  BY <1>4, <1>5 DEF RowsAreComplete
<1>7. KeepsOn(pc'[p], data'[p], queue'[p], waiting'[p], current'[p], human'[p])
  BY <1>0, <1>1, <1>3 DEF KeepsOn
<1>8. RunsKeepOn'
  BY <1>0, <1>3, <1>7, KeepsOnOn
<1> QED
  BY <1>6, <1>8

\* Every step keeps the routes.
LEMMA StepKeepsOn ==
  ASSUME ResumeAt = {}, NoQuestions, DistinctEdges, NEW guard, InputsExclude(guard),
         NEW rank \in [Node -> Nat], Acyclic(rank), JoinsAreFed
  PROVE  TInv /\ FInv(guard) /\ KInv /\ [Next]_vars => KInv'
<1>0. OneRoute
  BY DEF OneRoute, NoQuestions
<1>1. ASSUME KInv, UNCHANGED <<pc, data, queue, waiting, current, human, rows>> PROVE KInv'
  BY <1>1 DEF KInv, RunsKeepOn, RowsAreComplete
<1>2. ASSUME KInv, NEW p \in Run, Abort(p) PROVE KInv'
  BY <1>1, <1>2 DEF Abort, local, database
<1>3. ASSUME TInv, KInv, NEW e \in Row, Delete(e) PROVE KInv'
  <2>1. /\ UNCHANGED <<pc, data, queue, waiting, current, human>>
        /\ rows' = [rows EXCEPT ![e] = [state |-> "absent", data |-> <<>>]]
        /\ rows = [f \in Row |-> rows[f]]
    BY <1>3 DEF Delete, local, TInv, TypeOK
  <2>2. \A f \in Row : rows'[f] = rows[f] \/ rows'[f] = [state |-> "absent", data |-> <<>>]
    BY <2>1
  <2>3. LosesNothing([state |-> "absent", data |-> <<>>])
    BY DEF LosesNothing, NeverAsked
  <2>4. RowsAreComplete'
    BY <1>3, <2>2, <2>3 DEF KInv, RowsAreComplete
  <2>5. RunsKeepOn'
    BY <1>3, <2>1 DEF KInv, RunsKeepOn
  <2> QED
    BY <2>4, <2>5 DEF KInv
<1> QED
  BY <1>0, <1>1, <1>2, <1>3, RequestKeepsOn, WorkKeepsOn, EndKeepsOn
     DEF Next, Step, vars, local, database

\* At first nothing was asked, and no execution is finished.
LEMMA InitKeepsOn == Init => KInv
<1> SUFFICES ASSUME Init PROVE KInv
  OBVIOUS
<1>1. /\ \A p \in Run : pc[p] = "new" /\ data[p] = <<>> /\ human[p] = None
      /\ \A e \in Row : rows[e] = [state |-> "absent", data |-> <<>>]
  BY DEF Init
<1> QED
  BY <1>1 DEF KInv, RunsKeepOn, KeepsOn, RowsAreComplete, LosesNothing, NeverAsked

\* In every flow of plain nodes and conditions that leads nowhere back, whose joins need no
\* input that the decisions ruled out and get no input twice, and however requests, aborts
\* and deletions interleave: an execution that finished ran every node that an outcome led to.
THEOREM EveryRouteArrives ==
  ASSUME ResumeAt = {}, NoQuestions, DistinctEdges, NEW guard, GuardsHold(guard), InputsExclude(guard),
         NEW rank \in [Node -> Nat], Acyclic(rank), JoinsAreFed
  PROVE  Spec => []NoRouteLost
<1>1. NoLoops
  BY DEF NoQuestions, NoLoops
<1>2. Spec => [](TInv /\ IInv /\ QInv /\ FInv(guard))
  BY <1>1, AlwaysFits
<1>3. TInv /\ FInv(guard) /\ KInv /\ [Next]_vars => KInv'
  BY StepKeepsOn
<1>4. Init => KInv
  BY InitKeepsOn
<1>5. KInv => NoRouteLost
  BY DEF KInv, RowsAreComplete, LosesNothing, NoRouteLost
<1> QED
  BY <1>2, <1>3, <1>4, <1>5, PTL DEF Spec
================================================================================
