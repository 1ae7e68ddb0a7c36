--------------------------- MODULE ChatflowBuild_proofs ---------------------------
(***************************************************************************)
(* Proofs about the evaluation of chat flows of any size: see              *)
(* ChatflowBuild.  Four invariants build on each other: IInv, the order of *)
(* initialisations; EInv, how often a node is queued; LInv, which levels   *)
(* are done; MInv, which node moves last.                                  *)
(***************************************************************************)
EXTENDS ChatflowBuild, SequenceLemmas, TLAPS

--------------------------------------------------------------------------------
\* Numbers up to a bound

\* Min and Max of such a set are what they are called.
LEMMA MinOf ==
  ASSUME NEW b \in Nat, NEW S \in SUBSET (0..b), S # {}
  PROVE  Min(S) \in S /\ \A k \in S : Min(S) <= k
<1>1. PICK m \in S : \A k \in S : m <= k
  BY LeastOf
<1> QED
  BY <1>1 DEF Min

\* The same for the greatest one.
LEMMA MaxOf ==
  ASSUME NEW b \in Nat, NEW S \in SUBSET (0..b), S # {}
  PROVE  Max(S) \in S /\ \A k \in S : k <= Max(S)
<1>1. PICK m \in S : \A k \in S : k <= m
  BY GreatestOf
<1>2. Max(S) \in S /\ \A k \in S : Max(S) >= k
  BY <1>1 DEF Max
<1> QED
  BY <1>2

--------------------------------------------------------------------------------
\* Depths

\* The distance of a node, from the distances of the nodes above it.
DistanceFrom(edges, end, distance, n) ==
  LET below == {m \in Successors(edges, n) : distance[m] # None}
  IN IF n = end THEN 0
     ELSE IF below = {} THEN None ELSE 1 + Max({distance[m] : m \in below})

\* What holds of the distance of a node, as edges lead upwards: the way is no longer than
\* the numbers left, and only smaller nodes have one.
DistanceFits(end, distance, n) ==
  distance[n] # None => distance[n] \in 0..(Size - n) /\ n <= end

\* One more node: its distance follows from those of greater nodes.
LEMMA DistanceGrows ==
  ASSUME NEW edges \in SUBSET Upwards, NEW end \in Node, NEW n \in Node,
         NEW f \in [Node -> (0..Size) \cup {None}],
         \A m \in Node : m > n => DistanceFits(end, f, m)
  PROVE  LET d == DistanceFrom(edges, end, f, n)
         IN /\ d \in (0..Size) \cup {None}
            /\ d # None => d \in 0..(Size - n) /\ n <= end
            /\ d # None /\ n # end =>
                 \E m \in Successors(edges, n) : f[m] # None /\ d = 1 + f[m]
            /\ \A m \in Successors(edges, n) : f[m] # None /\ n # end => d # None /\ d > f[m]
<1> DEFINE below == {m \in Successors(edges, n) : f[m] # None}
           ways  == {f[m] : m \in below}
<1>1. \A m \in below : m \in Node /\ m > n /\ f[m] \in 0..(Size - m) /\ m <= end
  BY DEF Successors, Upwards, Node, DistanceFits
<1>2. DistanceFrom(edges, end, f, n) =
        IF n = end THEN 0 ELSE IF below = {} THEN None ELSE 1 + Max(ways)
  BY DEF DistanceFrom
<1>3. n \in Nat /\ end \in Nat /\ Size - n \in Nat /\ Size \in Nat
  BY BuildAssumption DEF Node
<1>4. CASE n = end
  BY <1>2, <1>3, <1>4, BuildAssumption
<1>5. CASE n # end /\ below = {}
  BY <1>2, <1>5
<1>6. CASE n # end /\ below # {}
  <2>1. ways \in SUBSET (0..Size) /\ ways # {}
    BY <1>1, <1>3, <1>6 DEF Node
  <2>2. Max(ways) \in ways /\ \A k \in ways : k <= Max(ways)
    <3> HIDE DEF ways
    <3> QED
      BY <2>1, <1>3, MaxOf
  <2>3. PICK m \in below : Max(ways) = f[m]
    BY <2>2
  <2>4. DistanceFrom(edges, end, f, n) = 1 + f[m]
    BY <1>2, <1>6, <2>3
  <2>5. \A k \in below : f[k] <= f[m]
    BY <2>2, <2>3
  <2>6. 1 + f[m] \in 0..(Size - n) /\ n <= end /\ 1 + f[m] # None
    BY <1>1, <1>3, <2>3, BuildAssumption DEF Node
  <2>7. \A k \in Successors(edges, n) : f[k] # None => 1 + f[m] > f[k]
    BY <1>1, <2>5, <2>3
  <2>8. 1 + f[m] \in 0..Size
    BY <2>6, <1>3
  <2> HIDE DEF below
  <2>9. m \in Successors(edges, n) /\ f[m] # None
    BY <2>3 DEF below
  <2> QED
    BY <2>4, <2>6, <2>7, <2>8, <2>9, <1>6
<1> QED
  BY <1>4, <1>5, <1>6

\* The recursion of getStartingNodes has a result, and every distance follows from those of
\* greater nodes.
LEMMA DistanceIs ==
  ASSUME NEW edges \in SUBSET Upwards, NEW end \in Node
  PROVE  LET distance == Distance(edges, end)
         IN /\ distance \in [Node -> (0..Size) \cup {None}]
            /\ \A n \in Node : /\ DistanceFits(end, distance, n)
                              /\ distance[n] = DistanceFrom(edges, end, distance, n)
<1> DEFINE Step(f, n) == DistanceFrom(edges, end, f, n)
           Right(f, k) == /\ f = [n \in Node |-> f[n]]
                          /\ \A n \in Node : n > Size - k => f[n] = Step(f, n)
           Bad == {k \in 0..Size : ~ \E f : Right(f, k)}
<1>0. Size \in Nat
  BY BuildAssumption
<1>local. ASSUME NEW f, NEW g, NEW n \in Node, \A m \in Node : m > n => g[m] = f[m]
      PROVE  Step(g, n) = Step(f, n)
  <2>1. \A m \in Successors(edges, n) : g[m] = f[m]
    BY <1>local DEF Successors, Upwards, Node
  <2>2. {m \in Successors(edges, n) : g[m] # None} = {m \in Successors(edges, n) : f[m] # None}
    BY <2>1
  <2>3. {g[m] : m \in {l \in Successors(edges, n) : g[l] # None}}
          = {f[m] : m \in {l \in Successors(edges, n) : f[l] # None}}
    BY <2>1, <2>2
  <2> QED
    BY <2>2, <2>3 DEF DistanceFrom
<1>1. 0 \notin Bad
  <2> DEFINE f == [n \in Node |-> None]
  <2>1. Right(f, 0)
    BY <1>0 DEF Node
  <2> QED
    BY <2>1
<1>2. ASSUME NEW k \in 0..Size, k # 0, k - 1 \notin Bad PROVE k \notin Bad
  <2>1. k - 1 \in 0..Size /\ k \in Nat
    BY <1>0, <1>2
  <2>2. PICK f : Right(f, k - 1)
    BY <2>1, <1>2
  <2> DEFINE v == Size - k + 1
             g == [n \in Node |-> IF n = v THEN Step(f, v) ELSE f[n]]
  <2>3. v \in Node /\ \A n \in Node : n > Size - k => n = v \/ n > v
    BY <1>0, <1>2, <2>1 DEF Node
  <2>4. \A n \in Node : n > v => f[n] = Step(f, n)
    BY <2>2, <1>0, <2>1 DEF Node
  <2> HIDE DEF Step, v
  <2>5. g[v] = Step(f, v) /\ \A n \in Node : n # v => g[n] = f[n]
    BY <2>3
  <2>6. g = [n \in Node |-> g[n]]
    OBVIOUS
  <2> HIDE DEF g
  <2>7. \A n \in Node : n = v \/ n > v => Step(g, n) = Step(f, n)
    <3> SUFFICES ASSUME NEW n \in Node, n = v \/ n > v PROVE Step(g, n) = Step(f, n)
      OBVIOUS
    <3>1. \A m \in Node : m > n => g[m] = f[m]
      BY <2>3, <2>5 DEF Node
    <3> QED
      BY <3>1, <1>local
  <2>8. Right(g, k)
    BY <2>3, <2>4, <2>5, <2>6, <2>7 DEF Node
  <2> HIDE DEF Right
  <2> QED
    BY <2>8
<1> HIDE DEF Right
<1>3. Bad = {}
  <2> SUFFICES ASSUME Bad # {} PROVE FALSE
    OBVIOUS
  <2>0. Bad \in SUBSET (0..Size)
    OBVIOUS
  <2> HIDE DEF Bad
  <2>1. PICK k \in Bad : \A l \in Bad : k <= l
    BY <1>0, <2>0, LeastOf
  <2>2. k \in 0..Size /\ k # 0 /\ k - 1 \notin Bad
    BY <1>0, <1>1, <2>0, <2>1
  <2> QED
    BY <1>2, <2>1, <2>2
<1>4. PICK f : Right(f, Size)
  <2>1. Size \in 0..Size
    BY <1>0
  <2> QED
    BY <1>3, <2>1
<1>5. \A n \in Node : n > Size - Size
  BY <1>0 DEF Node
<1>6. f = [n \in Node |-> f[n]] /\ \A n \in Node : f[n] = Step(f, n)
  BY <1>4, <1>5 DEF Right
<1> DEFINE Solves(h) == h = [n \in Node |-> Step(h, n)]
<1>7. Solves(f)
  <2> HIDE DEF Step
  <2> QED
    BY <1>6
<1>8. Distance(edges, end) = CHOOSE h : Solves(h)
  BY DEF Distance, DistanceFrom
<1> QED
  <2> DEFINE d == CHOOSE h : Solves(h)
  <2>1. Solves(d)
    <3> HIDE DEF Solves
    <3> QED
      BY <1>7, Zenon
  <2>2. d = [n \in Node |-> Step(d, n)]
    BY <2>1
  <2> HIDE DEF d, Step
  <2>3. \A n \in Node : d[n] = Step(d, n)
    BY <2>2
  <2> DEFINE Wrong == {n \in Node : ~(DistanceFits(end, d, n) /\ d[n] \in (0..Size) \cup {None})}
             Back == {Size - n : n \in Wrong}
  <2>4. Wrong = {}
    <3> SUFFICES ASSUME Wrong # {} PROVE FALSE
      OBVIOUS
    <3>1. Back \in SUBSET (0..Size) /\ Back # {}
      BY <1>0 DEF Node
    <3>2. PICK b \in Back : \A c \in Back : b <= c
      <4> HIDE DEF Back
      <4> QED
        BY <3>1, <1>0, LeastOf
    <3>3. PICK n \in Wrong : b = Size - n
      BY <3>2
    <3>4. ASSUME NEW m \in Node, m > n, m \in Wrong PROVE FALSE
      <4>1. Size - m \in Back
        BY <3>4
      <4> QED
        BY <3>2, <3>3, <3>4, <4>1, <1>0 DEF Node
    <3> DEFINE e == [m \in Node |-> IF m > n THEN d[m] ELSE None]
    <3>5. \A m \in Node : m > n => DistanceFits(end, d, m) /\ d[m] \in (0..Size) \cup {None}
      BY <3>4
    <3>6. e \in [Node -> (0..Size) \cup {None}]
      BY <3>5
    <3>7. \A m \in Node : m > n => DistanceFits(end, e, m)
      BY <3>5 DEF DistanceFits
    <3>8. n \in Node
      OBVIOUS
    <3>9. \A m \in Node : m > n => e[m] = d[m]
      OBVIOUS
    <3> HIDE DEF e, Wrong
    <3>10. Step(e, n) = Step(d, n)
      BY <3>8, <3>9, <1>local
    <3>11. /\ Step(e, n) \in (0..Size) \cup {None}
           /\ Step(e, n) # None => Step(e, n) \in 0..(Size - n) /\ n <= end
      BY <3>6, <3>7, <3>8, DistanceGrows DEF Step
    <3>12. d[n] = Step(e, n)
      BY <2>3, <3>8, <3>10
    <3> QED
      BY <3>3, <3>8, <3>11, <3>12 DEF DistanceFits, Wrong
  <2>5. d \in [Node -> (0..Size) \cup {None}]
    <3>1. \A n \in Node : d[n] \in (0..Size) \cup {None}
      BY <2>4
    <3> QED
      BY <2>2, <3>1
  <2>6. \A n \in Node : DistanceFits(end, d, n)
    BY <2>4
  <2>7. Distance(edges, end) = d
    BY <1>8 DEF d
  <2> QED
    BY <2>3, <2>5, <2>6, <2>7 DEF Step

\* The greatest distance is the depth of the ending node.  What leads to a node is less deep,
\* so nothing leads to a node of depth 0, there is one, and from every node a way that grows
\* deeper by one leads on, up to the ending node.
LEMMA DepthsAre ==
  ASSUME NEW edges \in SUBSET Upwards, NEW end \in Node
  PROVE  LET depths == Depths(edges, end)
         IN /\ DOMAIN depths \subseteq Node /\ end \in DOMAIN depths
            /\ DOMAIN depths = {n \in Node : Distance(edges, end)[n] # None}
            /\ depths \in [DOMAIN depths -> 0..Size]
            /\ \A n \in StartsOf(depths) : Predecessors(edges, n) = {}
            /\ \A n \in DOMAIN depths : \A m \in Predecessors(edges, n) :
                 m \in DOMAIN depths /\ depths[m] < depths[n]
            /\ \E n \in DOMAIN depths : depths[n] = 0
            /\ \A n \in DOMAIN depths : depths[end] >= depths[n]
            /\ \A n \in DOMAIN depths \ {end} : \E m \in Successors(edges, n) :
                 m \in DOMAIN depths /\ depths[m] = depths[n] + 1
<1> DEFINE d     == Distance(edges, end)
           above == {n \in Node : d[n] # None}
           ways  == {d[n] : n \in above}
<1>0. Size \in Nat
  BY BuildAssumption
<1> HIDE DEF d
<1>1. /\ d \in [Node -> (0..Size) \cup {None}]
      /\ \A n \in Node : DistanceFits(end, d, n) /\ d[n] = DistanceFrom(edges, end, d, n)
  BY DistanceIs DEF d
<1>2. d[end] = 0 /\ end \in above
  <2>1. d[end] = DistanceFrom(edges, end, d, end)
    BY <1>1
  <2>2. DistanceFrom(edges, end, d, end) = 0
    BY DEF DistanceFrom
  <2> QED
    BY <1>0, <2>1, <2>2, BuildAssumption
<1>3. ways \in SUBSET (0..Size) /\ ways # {}
  BY <1>1, <1>2
<1>4. Max(ways) \in ways /\ \A k \in ways : k <= Max(ways)
  <2> HIDE DEF ways
  <2> QED
    BY <1>0, <1>3, MaxOf
<1>5. Depths(edges, end) = [n \in above |-> Max(ways) - d[n]]
  BY DEF Depths, d
<1>6. \A n \in above : d[n] \in 0..Size /\ d[n] <= Max(ways)
  BY <1>1, <1>4
<1>7. Max(ways) \in 0..Size
  BY <1>3, <1>4
<1> DEFINE depths == Depths(edges, end)
<1>8. DOMAIN depths = above /\ \A n \in above : depths[n] = Max(ways) - d[n]
  BY <1>5
<1>9. depths \in [above -> 0..Size]
  <2>1. \A n \in above : Max(ways) - d[n] \in 0..Size
    BY <1>6, <1>7, <1>0
  <2> HIDE DEF above
  <2> QED
    BY <1>5, <2>1
<1>10. ASSUME NEW n \in above, NEW m \in Predecessors(edges, n)
       PROVE  m \in above /\ depths[m] < depths[n]
  <2>2. m \in Node /\ n \in Successors(edges, m) /\ m < n
    BY <1>10 DEF Predecessors, Successors, Upwards
  <2>3. m # end
    BY <1>1, <1>10, <2>2 DEF DistanceFits, Node
  <2>4. d[m] # None /\ d[m] > d[n]
    <3>1. \A k \in Node : k > m => DistanceFits(end, d, k)
      BY <1>1
    <3> QED
      BY <1>1, <1>10, <2>2, <2>3, <3>1, DistanceGrows
  <2>5. m \in above
    BY <2>2, <2>4
  <2> HIDE DEF above
  <2> QED
    BY <1>6, <1>7, <1>8, <1>10, <2>4, <2>5
<1>11. ASSUME NEW n \in StartsOf(depths), NEW m \in Predecessors(edges, n) PROVE FALSE
  <2> HIDE DEF above, depths
  <2>1. n \in above /\ depths[n] = 0
    BY <1>8, <1>11 DEF StartsOf
  <2>2. m \in above /\ depths[m] < depths[n]
    BY <1>10, <1>11, <2>1
  <2>3. depths[m] \in 0..Size
    BY <1>9, <2>2 DEF depths
  <2> QED
    BY <1>0, <2>1, <2>2, <2>3
<1>12. \E n \in above : depths[n] = 0
  <2>1. PICK n \in above : d[n] = Max(ways)
    BY <1>4
  <2> QED
    BY <1>6, <1>8, <2>1
<1>13. ASSUME NEW n \in above \ {end}
       PROVE  \E m \in Successors(edges, n) : m \in above /\ depths[m] = depths[n] + 1
  <2>1. \A k \in Node : k > n => DistanceFits(end, d, k)
    BY <1>1
  <2>2. PICK m \in Successors(edges, n) : d[m] # None /\ d[n] = 1 + d[m]
    BY <1>1, <1>13, <2>1, DistanceGrows
  <2>3. m \in above
    BY <2>2 DEF Successors
  <2> HIDE DEF above
  <2> QED
    BY <1>6, <1>7, <1>8, <1>13, <2>2, <2>3
<1>14. \A n \in above : depths[end] >= depths[n]
  <2> HIDE DEF above
  <2> QED
    BY <1>2, <1>6, <1>7, <1>8
<1> QED
  <2> HIDE DEF above, depths
  <2>1. DOMAIN depths = above
    BY <1>8 DEF depths
  <2>2. depths \in [above -> 0..Size]
    BY <1>9 DEF depths
  <2>3. above \subseteq Node /\ above = {n \in Node : Distance(edges, end)[n] # None}
    BY DEF above, d
  <2> QED
    BY <1>2, <1>10, <1>11, <1>12, <1>13, <1>14, <2>1, <2>2, <2>3 DEF depths

\* The depth of n is counted from the last of the ends it leads to.
CountedFrom(edges, ends, n, i) ==
  /\ i \in DOMAIN ends /\ n \in DOMAIN Depths(edges, ends[i])
  /\ DepthQueue(edges, ends)[n] = Depths(edges, ends[i])[n]
  /\ \A j \in DOMAIN ends : n \in DOMAIN Depths(edges, ends[j]) => j <= i

\* The depths of several ends are depths of one of them, and the starting nodes are starting
\* nodes of one of them.
LEMMA DepthQueueIs ==
  ASSUME NEW edges \in SUBSET Upwards, NEW ends \in Seq(Node)
  PROVE  /\ DOMAIN DepthQueue(edges, ends) \subseteq Node
         /\ DepthQueue(edges, ends) \in [DOMAIN DepthQueue(edges, ends) -> 0..Size]
         /\ StartingNodes(edges, ends) \subseteq Node
         /\ StartingNodes(edges, ends) \subseteq DOMAIN DepthQueue(edges, ends)
         /\ \A n \in StartingNodes(edges, ends) : Predecessors(edges, n) = {}
         /\ Len(ends) = 1 => \A n \in StartingNodes(edges, ends) :
              n \in DOMAIN DepthQueue(edges, ends) /\ DepthQueue(edges, ends)[n] = 0
         /\ \A n \in DOMAIN DepthQueue(edges, ends) :
              /\ \E i : CountedFrom(edges, ends, n, i)
              /\ DepthQueue(edges, ends)[n] = 0 => n \in StartingNodes(edges, ends)
         /\ \A i \in DOMAIN ends :
              DOMAIN Depths(edges, ends[i]) \subseteq DOMAIN DepthQueue(edges, ends)
<1> DEFINE depths   == [i \in DOMAIN ends |-> Depths(edges, ends[i])]
           known(n) == {i \in DOMAIN ends : n \in DOMAIN depths[i]}
           nodes    == {m \in Node : known(m) # {}}
           all      == DepthQueue(edges, ends)
<1>1. all = [n \in nodes |-> depths[Max(known(n))][n]]
  BY DEF DepthQueue
<1>2. \A i \in DOMAIN ends : ends[i] \in Node /\ depths[i] = Depths(edges, ends[i])
  OBVIOUS
<1> HIDE DEF depths
<1>3. ASSUME NEW i \in DOMAIN ends
      PROVE  /\ DOMAIN depths[i] \subseteq Node
             /\ depths[i] \in [DOMAIN depths[i] -> 0..Size]
             /\ \A n \in StartsOf(depths[i]) : Predecessors(edges, n) = {}
  BY <1>2, DepthsAre
<1>4. ASSUME NEW n \in nodes
      PROVE  Max(known(n)) \in known(n) /\ \A j \in known(n) : j <= Max(known(n))
  <2>1. known(n) \in SUBSET (0..Len(ends)) /\ known(n) # {} /\ Len(ends) \in Nat
    OBVIOUS
  <2> HIDE DEF known
  <2> QED
    BY <2>1, MaxOf
<1>5. \A n \in nodes : Max(known(n)) \in DOMAIN ends /\ n \in DOMAIN depths[Max(known(n))]
  BY <1>4
<1>6. \A n \in nodes : depths[Max(known(n))][n] \in 0..Size
  BY <1>3, <1>5
<1>7. StartingNodes(edges, ends) = UNION {StartsOf(depths[i]) : i \in DOMAIN ends}
  BY <1>2 DEF StartingNodes
<1>8. \A n \in StartingNodes(edges, ends) : \E i \in DOMAIN ends : n \in StartsOf(depths[i])
  BY <1>7
<1>9. \A n \in StartingNodes(edges, ends) :
        n \in Node /\ Predecessors(edges, n) = {} /\ n \in nodes
  BY <1>3, <1>8 DEF StartsOf
<1>10. ASSUME Len(ends) = 1, NEW n \in StartingNodes(edges, ends)
       PROVE  n \in nodes /\ depths[Max(known(n))][n] = 0
  <2>1. DOMAIN ends = {1}
    BY <1>10
  <2>2. n \in StartsOf(depths[1])
    BY <1>8, <2>1
  <2>3. n \in nodes /\ Max(known(n)) = 1
    BY <1>5, <1>9, <2>1
  <2> HIDE DEF known
  <2> QED
    BY <2>2, <2>3 DEF StartsOf
<1>11. DOMAIN all = nodes /\ \A n \in nodes : all[n] = depths[Max(known(n))][n]
  <2> HIDE DEF nodes, known
  <2> QED
    BY <1>1
<1>12. all \in [nodes -> 0..Size]
  <2> HIDE DEF nodes, known
  <2> QED
    BY <1>1, <1>6
<1>13. ASSUME NEW n \in nodes
       PROVE  /\ CountedFrom(edges, ends, n, Max(known(n)))
              /\ all[n] = 0 => n \in StartingNodes(edges, ends)
  <2>1. \A j \in DOMAIN ends : n \in DOMAIN depths[j] => j <= Max(known(n))
    BY <1>4
  <2> DEFINE i == Max(known(n))
  <2>2. /\ i \in DOMAIN ends /\ n \in DOMAIN depths[i] /\ all[n] = depths[i][n]
        /\ \A j \in DOMAIN ends : n \in DOMAIN depths[j] => j <= i
    BY <1>5, <1>11, <2>1
  <2> HIDE DEF i, all, nodes, known
  <2>3. CountedFrom(edges, ends, n, i)
    BY <1>2, <2>2 DEF CountedFrom, all
  <2>4. all[n] = 0 => n \in StartingNodes(edges, ends)
    <3>1. all[n] = 0 => n \in StartsOf(depths[i])
      BY <2>2 DEF StartsOf
    <3>2. \A m \in StartsOf(depths[i]) : m \in StartingNodes(edges, ends)
      BY <1>7, <2>2
    <3> QED
      BY <3>1, <3>2
  <2> QED
    BY <2>3, <2>4 DEF i
<1>14. ASSUME NEW i \in DOMAIN ends PROVE DOMAIN Depths(edges, ends[i]) \subseteq nodes
  <2>1. \A n \in DOMAIN depths[i] : n \in Node /\ i \in known(n)
    BY <1>3
  <2> QED
    BY <1>2, <2>1
<1> HIDE DEF known, all
<1>15. nodes \subseteq Node
  OBVIOUS
<1> HIDE DEF nodes
<1> QED
  BY <1>9, <1>10, <1>11, <1>12, <1>13, <1>14, <1>15 DEF all

--------------------------------------------------------------------------------
\* What an ifElse node rules out

\* The recursion of getAllConnectedNodes ends with a set of nodes that holds the first, and
\* that no edge leaves or enters: a set that grows with every step holds all nodes after Size.
LEMMA ConnectedIs ==
  ASSUME NEW edges \in SUBSET Upwards, NEW n \in Node
  PROVE  /\ Connected(edges, n) \subseteq Node /\ n \in Connected(edges, n)
         /\ \A edge \in edges :
              edge[1] \in Connected(edges, n) <=> edge[2] \in Connected(edges, n)
<1> DEFINE More(S) == S \cup UNION {Successors(edges, m) \cup Predecessors(edges, m) : m \in S}
           Step(f, k) == IF k = 0 THEN {n} ELSE More(f[k - 1])
           Right(f, k) == /\ f = [l \in 0..Size |-> f[l]]
                          /\ \A l \in 0..k : f[l] = Step(f, l)
           Bad == {k \in 0..Size : ~ \E f : Right(f, k)}
<1>0. Size \in Nat
  BY BuildAssumption
<1> HIDE DEF More
<1>1. 0 \notin Bad
  <2> DEFINE f == [l \in 0..Size |-> {n}]
  <2>1. Right(f, 0)
    BY <1>0
  <2> QED
    BY <2>1
<1>2. ASSUME NEW k \in 0..Size, k # 0, k - 1 \notin Bad PROVE k \notin Bad
  <2>1. k - 1 \in 0..Size /\ k \in Nat
    BY <1>0, <1>2
  <2>2. PICK f : Right(f, k - 1)
    BY <2>1, <1>2
  <2> DEFINE v == More(f[k - 1])
             g == [l \in 0..Size |-> IF l = k THEN v ELSE f[l]]
  <2> HIDE DEF v
  <2>3. g[k] = v /\ \A l \in 0..(k - 1) : g[l] = f[l]
    <3>1. \A l \in 0..(k - 1) : l \in 0..Size /\ l # k
      BY <1>0, <2>1
    <3> QED
      BY <3>1
  <2>4. g = [l \in 0..Size |-> g[l]]
    OBVIOUS
  <2> HIDE DEF g
  <2>5. \A l \in 0..(k - 1) : l # 0 => l - 1 \in 0..(k - 1)
    BY <2>1
  <2>6. \A l \in 0..(k - 1) : g[l] = Step(g, l)
    BY <2>2, <2>3, <2>5
  <2>7. g[k] = Step(g, k)
    BY <2>3, <2>1, <1>2 DEF v
  <2>8. \A l \in 0..k : l = k \/ l \in 0..(k - 1)
    BY <2>1
  <2>9. Right(g, k)
    <3> HIDE DEF Step
    <3> QED
      BY <2>4, <2>6, <2>7, <2>8
  <2> HIDE DEF Right
  <2> QED
    BY <2>9
<1> HIDE DEF Right
<1>3. Bad = {}
  <2> SUFFICES ASSUME Bad # {} PROVE FALSE
    OBVIOUS
  <2>0. Bad \in SUBSET (0..Size)
    OBVIOUS
  <2> HIDE DEF Bad
  <2>1. PICK k \in Bad : \A l \in Bad : k <= l
    BY <1>0, <2>0, LeastOf
  <2>2. k \in 0..Size /\ k # 0 /\ k - 1 \notin Bad
    BY <1>0, <1>1, <2>0, <2>1
  <2> QED
    BY <1>2, <2>1, <2>2
<1>4. PICK f : Right(f, Size)
  <2>1. Size \in 0..Size
    BY <1>0
  <2> QED
    BY <1>3, <2>1
<1> DEFINE Solves(h) == h = [k \in 0..Size |-> Step(h, k)]
<1>5. Solves(f)
  <2> HIDE DEF Step
  <2> QED
    BY <1>4 DEF Right
<1> DEFINE reach == CHOOSE h : Solves(h)
<1>6. Connected(edges, n) = reach[Size]
  BY DEF Connected, More
<1>7. Solves(reach)
  <2> HIDE DEF Solves
  <2> QED
    BY <1>5, Zenon
<1> HIDE DEF reach
<1>8. \A k \in 0..Size : reach[k] = Step(reach, k)
  <2> HIDE DEF Step
  <2> QED
    BY <1>7
<1> DEFINE Wrong == {k \in 0..Size : ~(reach[k] \subseteq Node /\ n \in reach[k])}
<1>9. Wrong = {}
  <2> SUFFICES ASSUME Wrong # {} PROVE FALSE
    OBVIOUS
  <2>0. Wrong \in SUBSET (0..Size)
    OBVIOUS
  <2>1. PICK k \in Wrong : \A l \in Wrong : k <= l
    <3> HIDE DEF Wrong
    <3> QED
      BY <1>0, <2>0, LeastOf
  <2>2. reach[0] = {n} /\ 0 \in 0..Size
    BY <1>0, <1>8
  <2>3. k # 0
    BY <2>1, <2>2
  <2>4. k - 1 \in 0..Size /\ k - 1 \notin Wrong
    BY <1>0, <2>1, <2>3
  <2>5. reach[k] = More(reach[k - 1])
    BY <1>8, <2>3
  <2>6. reach[k - 1] \subseteq Node /\ n \in reach[k - 1]
    BY <2>4
  <2>7. reach[k] \subseteq Node /\ n \in reach[k]
    BY <2>5, <2>6 DEF More, Successors, Predecessors
  <2> QED
    BY <2>1, <2>7
<1>10. Size \in 0..Size
  BY <1>0
<1> DEFINE Small == {k \in 0..Size : ~(Cardinality(reach[k]) > k \/ More(reach[k]) = reach[k])}
<1>11. IsFiniteSet(Node) /\ Cardinality(Node) = Size
  BY <1>0, FS_Interval DEF Node
<1>12. \A k \in 0..Size : /\ IsFiniteSet(reach[k]) /\ Cardinality(reach[k]) \in Nat
                          /\ Cardinality(reach[k]) <= Size
  <2> SUFFICES ASSUME NEW k \in 0..Size
               PROVE  /\ IsFiniteSet(reach[k]) /\ Cardinality(reach[k]) \in Nat
                      /\ Cardinality(reach[k]) <= Size
    OBVIOUS
  <2>1. reach[k] \in SUBSET Node
    BY <1>9
  <2> QED
    BY <1>11, <2>1, FS_Subset, FS_CardinalityType
<1>13. Small = {}
  <2> SUFFICES ASSUME Small # {} PROVE FALSE
    OBVIOUS
  <2>0. Small \in SUBSET (0..Size)
    OBVIOUS
  <2>1. PICK k \in Small : \A l \in Small : k <= l
    <3> HIDE DEF Small
    <3> QED
      BY <1>0, <2>0, LeastOf
  <2>2. k # 0
    <3>1. reach[0] = {n} /\ Cardinality({n}) = 1
      BY <1>0, <1>8, FS_Singleton
    <3> QED
      BY <2>1, <3>1
  <2>3. k - 1 \in 0..Size /\ k - 1 \notin Small
    BY <1>0, <2>1, <2>2
  <2>4. reach[k] = More(reach[k - 1])
    BY <1>8, <2>2
  <2>5. More(reach[k - 1]) # reach[k - 1] /\ Cardinality(reach[k - 1]) > k - 1
    BY <2>1, <2>3, <2>4
  <2>6. reach[k - 1] \in SUBSET reach[k] /\ reach[k - 1] # reach[k]
    BY <2>4, <2>5 DEF More
  <2>7. Cardinality(reach[k - 1]) <= Cardinality(reach[k])
        /\ Cardinality(reach[k - 1]) # Cardinality(reach[k])
    BY <1>12, <2>3, <2>6, FS_Subset
  <2>8. Cardinality(reach[k]) > k
    BY <1>12, <2>3, <2>5, <2>7
  <2> QED
    BY <2>1, <2>8
<1>14. More(reach[Size]) = reach[Size]
  BY <1>0, <1>10, <1>12, <1>13
<1>15. ASSUME NEW edge \in edges PROVE edge[1] \in reach[Size] <=> edge[2] \in reach[Size]
  <2>1. edge[1] \in Predecessors(edges, edge[2]) /\ edge[2] \in Successors(edges, edge[1])
    BY DEF Predecessors, Successors, Upwards
  <2> QED
    BY <1>14, <2>1 DEF More
<1> QED
  BY <1>6, <1>9, <1>10, <1>15

--------------------------------------------------------------------------------
\* The invariant

IsQueued(n) == \E i \in DOMAIN queue : queue[i].node = n

\* What a flow and its callers guarantee: the ifElse node refuses nodes it leads to, and an
\* upsert has one node to stop at.
FlowsFit ==
  /\ flow.refused # {} => /\ flow.chooser \in Node
                          /\ flow.refused \subseteq Successors(flow.edges, flow.chooser)
                          /\ flow.first \in flow.refused
  /\ flow.refused = {} => flow.first = None
  /\ flow.upsert => Len(flow.ends) = 1

\* A node is queued when nothing it depends on is left.
QueuedIsReady ==
  \A i \in DOMAIN queue : Predecessors(flow.edges, queue[i].node) \subseteq initialized

\* A node is queued at depth d after d other nodes were initialised, so depths are bounded.
DepthsAreCounted ==
  \A i \in DOMAIN queue : \E before \in SUBSET initialized :
    Cardinality(before) = queue[i].depth /\ queue[i].node \notin before

\* The first refused node waits for the ifElse node, and is ignored from then on.
RefusedIsIgnored ==
  /\ flow.first # None /\ flow.chooser \in initialized => flow.first \in ignored
  /\ ~IsQueued(flow.first)

\* In an upsert, neighbours are initialised before a node is queued, so only its own level
\* queues it, and does so once.
LevelsQueueOnce ==
  flow.upsert /\ pc = "building" =>
    /\ \A n \in Node : inits[n] = IF n \in initialized THEN 1 ELSE 0
    /\ \A n \in Node \ initialized : graph[n] \subseteq Predecessors(flow.edges, n)
    /\ \A n \in Node : Seen(n) =>
         n \in DOMAIN depthQueue /\ explored[n].lastSeenDepth = depthQueue[n]
    /\ \A i \in DOMAIN queue : queue[i].node \notin initialized /\ Seen(queue[i].node)
    /\ \A i, j \in DOMAIN queue : i # j => queue[i].node # queue[j].node

IInv ==
  /\ TypeOK
  /\ FlowsFit
  /\ QueuedIsReady
  /\ DependenciesFirst
  /\ DepthsAreCounted
  /\ RefusedIsIgnored
  /\ RefusedIsOut
  /\ LevelsQueueOnce
  /\ UpsertOnce

\* The shape of a flow's values, and of the first item of the queue.
LEMMA Types ==
  ASSUME TypeOK
  PROVE  /\ flow.edges \in SUBSET Upwards /\ flow.ends \in Seq(Node) /\ flow.refused \subseteq Node
         /\ flow.first \in Node \cup {None}
         /\ initialized \subseteq Node /\ ignored \subseteq Node /\ graph \in [Node -> SUBSET Node]
         /\ \A i \in DOMAIN queue : queue[i].node \in Node /\ queue[i].depth \in 0..Size
         /\ \A n \in Node : SameDepth(n) \subseteq Node
         /\ queue # <<>> =>
              /\ Len(queue) \in Nat \ {0} /\ 1 \in DOMAIN queue /\ Head(queue) = queue[1]
              /\ Current = queue[1].node /\ Current \in Node
<1>1. /\ flow.edges \in SUBSET Upwards /\ flow.ends \in Seq(Node) /\ flow.refused \subseteq Node
      /\ flow.first \in Node \cup {None}
      /\ initialized \subseteq Node /\ ignored \subseteq Node /\ graph \in [Node -> SUBSET Node]
  BY DEF TypeOK
<1>2. queue \in Seq([node : Node, depth : 0..Size])
  BY DEF TypeOK
<1>3. ASSUME NEW i \in DOMAIN queue PROVE queue[i].node \in Node /\ queue[i].depth \in 0..Size
  <2>1. queue[i] \in [node : Node, depth : 0..Size]
    BY <1>2, Elements
  <2> QED
    BY <2>1
<1>4. \A n \in Node : SameDepth(n) \subseteq Node
  BY DEF TypeOK, SameDepth
<1>5. ASSUME queue # <<>>
      PROVE  Len(queue) \in Nat \ {0} /\ 1 \in DOMAIN queue /\ Head(queue) = queue[1]
  BY <1>2, <1>5, Elements
<1> QED
  BY <1>1, <1>3, <1>4, <1>5 DEF Current

\* The initial states.
LEMMA InitHolds == Init => IInv
<1> SUFFICES ASSUME Init PROVE IInv
  OBVIOUS
<1>1. PICK edges \in SUBSET Upwards, upsert \in BOOLEAN, chooser \in Node \cup {None} :
        \E ends \in Ends(edges, upsert),
           refused \in IF chooser = None THEN {{}} ELSE (SUBSET Successors(edges, chooser)) \ {{}} :
        \E first \in IF refused = {} THEN {None} ELSE refused :
          /\ flow = [edges |-> edges, chooser |-> chooser, refused |-> refused, first |-> first,
                     upsert |-> upsert, ends |-> ends]
          /\ depthQueue = DepthQueue(edges, ends)
          /\ graph = [n \in Node |-> IF upsert THEN Predecessors(edges, n) ELSE Successors(edges, n)]
          /\ \E order \in Orders(StartingNodes(edges, ends)) :
               LET starts == {order[i] : i \in DOMAIN order} IN
               /\ queue = [i \in DOMAIN order |-> [node |-> order[i], depth |-> 0]]
               /\ explored = [n \in Node |-> IF n \in starts
                                             THEN [remainingLoop |-> MaxLoop, lastSeenDepth |-> 0]
                                             ELSE None]
  BY DEF Init
<1>2. PICK ends \in Ends(edges, upsert),
           refused \in IF chooser = None THEN {{}} ELSE (SUBSET Successors(edges, chooser)) \ {{}} :
        \E first \in IF refused = {} THEN {None} ELSE refused :
          /\ flow = [edges |-> edges, chooser |-> chooser, refused |-> refused, first |-> first,
                     upsert |-> upsert, ends |-> ends]
          /\ depthQueue = DepthQueue(edges, ends)
          /\ \E order \in Orders(StartingNodes(edges, ends)) :
               LET starts == {order[i] : i \in DOMAIN order} IN
               /\ queue = [i \in DOMAIN order |-> [node |-> order[i], depth |-> 0]]
               /\ explored = [n \in Node |-> IF n \in starts
                                             THEN [remainingLoop |-> MaxLoop, lastSeenDepth |-> 0]
                                             ELSE None]
  BY <1>1
<1>pick. PICK first \in IF refused = {} THEN {None} ELSE refused :
        /\ flow = [edges |-> edges, chooser |-> chooser, refused |-> refused, first |-> first,
                   upsert |-> upsert, ends |-> ends]
        /\ depthQueue = DepthQueue(edges, ends)
        /\ \E order \in Orders(StartingNodes(edges, ends)) :
             LET starts == {order[i] : i \in DOMAIN order} IN
             /\ queue = [i \in DOMAIN order |-> [node |-> order[i], depth |-> 0]]
             /\ explored = [n \in Node |-> IF n \in starts
                                           THEN [remainingLoop |-> MaxLoop, lastSeenDepth |-> 0]
                                           ELSE None]
  BY <1>2
<1>3. graph = [n \in Node |-> IF upsert THEN Predecessors(edges, n) ELSE Successors(edges, n)]
  BY <1>1
<1> DEFINE starts == StartingNodes(edges, ends)
<1>4. PICK order \in Orders(starts) :
        /\ queue = [i \in DOMAIN order |-> [node |-> order[i], depth |-> 0]]
        /\ explored = [n \in Node |-> IF n \in {order[i] : i \in DOMAIN order}
                                      THEN [remainingLoop |-> MaxLoop, lastSeenDepth |-> 0]
                                      ELSE None]
  BY <1>pick
<1>5. ends \in Seq(Node) /\ (upsert => Len(ends) = 1)
  <2>1. CASE upsert
    <3>1. PICK n \in Node : ends = <<n>>
      BY <2>1 DEF Ends
    <3> QED
      BY <3>1
  <2>2. CASE ~upsert
    <3>1. PICK S \in (SUBSET EndingNodes(edges)) \ {{}} : ends \in Orders(S)
      BY <2>2 DEF Ends
    <3>2. S \in SUBSET Node /\ IsFiniteSet(Node)
      BY FS_Interval, BuildAssumption DEF EndingNodes, Node
    <3>3. Cardinality(S) \in Nat
      BY <3>2, FS_Subset, FS_CardinalityType
    <3> QED
      BY <3>1, <3>2, <3>3, <2>2 DEF Orders, SetToSeqs
  <2> QED
    BY <2>1, <2>2
<1>6. /\ DOMAIN depthQueue \subseteq Node
      /\ depthQueue \in [DOMAIN depthQueue -> 0..Size]
      /\ starts \subseteq Node
      /\ \A n \in starts : Predecessors(edges, n) = {}
      /\ upsert => \A n \in starts : n \in DOMAIN depthQueue /\ depthQueue[n] = 0
  BY <1>pick, <1>5, DepthQueueIs
<1> HIDE DEF starts
<1>7. Cardinality(starts) \in Nat
  <2>1. IsFiniteSet(Node)
    BY FS_Interval, BuildAssumption DEF Node
  <2> QED
    BY <1>6, <2>1, FS_Subset, FS_CardinalityType
<1>8. /\ order \in [1..Cardinality(starts) -> starts]
      /\ \A i, j \in 1..Cardinality(starts) : i # j => order[i] # order[j]
  BY DEF Orders, SetToSeqs
<1>9. /\ DOMAIN order = 1..Cardinality(starts) /\ DOMAIN queue = DOMAIN order
      /\ \A i \in DOMAIN queue : queue[i] = [node |-> order[i], depth |-> 0] /\ order[i] \in starts
      /\ \A n \in Node : Seen(n) => n \in starts /\ explored[n].lastSeenDepth = 0
      /\ \A i \in DOMAIN queue : Seen(order[i])
  <2>1. DOMAIN order = 1..Cardinality(starts) /\ \A i \in DOMAIN order : order[i] \in starts
    BY <1>8
  <2>2. /\ DOMAIN queue = DOMAIN order
        /\ \A i \in DOMAIN queue : queue[i] = [node |-> order[i], depth |-> 0]
    BY <1>4
  <2>3. \A n \in Node : explored[n] = IF n \in {order[i] : i \in DOMAIN order}
                                      THEN [remainingLoop |-> MaxLoop, lastSeenDepth |-> 0]
                                      ELSE None
    BY <1>4
  <2>4. [remainingLoop |-> MaxLoop, lastSeenDepth |-> 0] # None
    BY BuildAssumption
  <2> QED
    BY <2>1, <2>2, <2>3, <2>4, <1>6 DEF Seen
<1>10. /\ pc = "building" /\ initialized = {} /\ ignored = {} /\ last = None
       /\ inits = [n \in Node |-> 0]
  BY DEF Init
<1>11. /\ flow.edges = edges /\ flow.refused = refused /\ flow.chooser = chooser
       /\ flow.upsert = upsert /\ flow.ends = ends /\ flow.first = first
       /\ first \in Node \cup {None}
       /\ refused = {} => first = None
       /\ refused # {} => first \in refused
       /\ refused \in SUBSET Node
       /\ refused # {} => chooser \in Node /\ refused \subseteq Successors(edges, chooser)
  BY <1>pick DEF Successors
<1>12. TypeOK
  <2>1. queue \in Seq([node : Node, depth : 0..Size])
    <3>1. ASSUME NEW i \in 1..Cardinality(starts) PROVE queue[i] \in [node : Node, depth : 0..Size]
      <4>1. queue[i] = [node |-> order[i], depth |-> 0] /\ order[i] \in Node /\ 0 \in 0..Size
        BY <1>6, <1>9, BuildAssumption
      <4> QED
        BY <4>1
    <3>2. queue = [i \in 1..Cardinality(starts) |-> queue[i]]
      BY <1>4, <1>9
    <3> QED
      BY <1>7, <3>1, <3>2, Listing
  <2>2. explored \in [Node -> [remainingLoop : 0..MaxLoop, lastSeenDepth : 0..Size] \cup {None}]
    BY <1>4, BuildAssumption
  <2>3. graph \in [Node -> SUBSET Node]
    BY <1>3 DEF Predecessors, Successors
  <2>4. flow \in [edges : SUBSET Upwards, chooser : Node \cup {None}, refused : SUBSET Node,
                  first : Node \cup {None}, upsert : BOOLEAN, ends : Seq(Node)]
    BY <1>pick, <1>5, <1>11
  <2> QED
    BY <1>6, <1>10, <2>1, <2>2, <2>3, <2>4 DEF TypeOK
<1>13. FlowsFit
  BY <1>5, <1>11 DEF FlowsFit
<1>14. QueuedIsReady /\ DependenciesFirst
  BY <1>6, <1>9, <1>10, <1>11 DEF QueuedIsReady, DependenciesFirst
<1>15. DepthsAreCounted
  BY <1>9, <1>10, FS_EmptySet DEF DepthsAreCounted
<1>16. RefusedIsIgnored /\ RefusedIsOut
  <2>1. ASSUME IsQueued(first) PROVE FALSE
    <3>1. first \in starts
      BY <1>9, <2>1 DEF IsQueued
    <3>2. first \in Successors(edges, chooser) /\ chooser \in Node
      BY <1>6, <1>11, <3>1, BuildAssumption DEF Node
    <3>3. chooser \in Predecessors(edges, first)
      BY <3>2 DEF Successors, Predecessors
    <3> QED
      BY <1>6, <3>1, <3>3
  <2> QED
    BY <1>10, <1>11, <2>1 DEF RefusedIsIgnored, RefusedIsOut
<1>17. LevelsQueueOnce
  <2>1. \A n \in Node : inits[n] = 0 /\ (upsert => graph[n] = Predecessors(edges, n))
    BY <1>3, <1>10
  <2> QED
    BY <1>6, <1>8, <1>9, <1>10, <1>11, <2>1 DEF LevelsQueueOnce
<1>18. UpsertOnce
  BY <1>10 DEF UpsertOnce
<1> QED
  BY <1>12, <1>13, <1>14, <1>15, <1>16, <1>17, <1>18 DEF IInv

--------------------------------------------------------------------------------
\* What a turn queues

Exhausted(m) == Seen(m) /\ explored[m].remainingLoop = 0

\* The nodes queued by a turn: each of them is ready, was not queued too often, and is queued
\* once; none that is ready is left out, unless one was queued too often.
Queueing(order, near, depth, done) ==
  /\ order \in Seq(Node)
  /\ \A i \in DOMAIN order : /\ order[i] \in near /\ Ready(order[i], done, depth)
                             /\ Seen(order[i]) => explored[order[i]].remainingLoop # 0
  /\ \A i, j \in DOMAIN order : i # j => order[i] # order[j]
  /\ \/ \E m \in near : Exhausted(m)
     \/ \A m \in near : Ready(m, done, depth) => \E i \in DOMAIN order : order[i] = m

\* The loop over the neighbours leaves a beginning of their list.
LEMMA UpToExhaustedIs ==
  ASSUME NEW order \in Seq(Node)
  PROVE  \E k \in 0..Len(order) :
           /\ UpToExhausted(order) = SubSeq(order, 1, k)
           /\ \A i \in 1..k : Seen(order[i]) => explored[order[i]].remainingLoop # 0
           /\ k = Len(order) \/ \E i \in 1..Len(order) : Exhausted(order[i])
<1> DEFINE exhausted ==
             {i \in DOMAIN order : Seen(order[i]) /\ explored[order[i]].remainingLoop = 0}
<1>0. Len(order) \in Nat /\ DOMAIN order = 1..Len(order)
  OBVIOUS
<1>1. UpToExhausted(order) = IF exhausted = {} THEN order ELSE SubSeq(order, 1, Min(exhausted) - 1)
  BY DEF UpToExhausted
<1>2. CASE exhausted = {}
  <2>1. order = SubSeq(order, 1, Len(order))
    OBVIOUS
  <2>2. \A i \in 1..Len(order) : Seen(order[i]) => explored[order[i]].remainingLoop # 0
    BY <1>0, <1>2
  <2>3. Len(order) \in 0..Len(order)
    BY <1>0
  <2> QED
    BY <1>1, <1>2, <2>1, <2>2, <2>3
<1>3. CASE exhausted # {}
  <2>1. exhausted \in SUBSET (0..Len(order))
    BY <1>0
  <2> HIDE DEF exhausted
  <2>2. Min(exhausted) \in exhausted /\ \A i \in exhausted : Min(exhausted) <= i
    BY <1>0, <1>3, <2>1, MinOf
  <2>3. Min(exhausted) \in 1..Len(order)
    BY <1>0, <2>2 DEF exhausted
  <2>4. \A i \in 1..(Min(exhausted) - 1) : i \notin exhausted /\ i \in DOMAIN order
    BY <1>0, <2>1, <2>2, <2>3
  <2>5. \A i \in 1..(Min(exhausted) - 1) : Seen(order[i]) => explored[order[i]].remainingLoop # 0
    BY <2>4 DEF exhausted
  <2>6. Min(exhausted) - 1 \in 0..Len(order)
    BY <1>0, <2>3
  <2>7. \E i \in 1..Len(order) : Exhausted(order[i])
    BY <1>0, <1>3 DEF exhausted, Exhausted
  <2> QED
    BY <1>1, <1>3, <2>5, <2>6, <2>7
<1> QED
  BY <1>2, <1>3

\* The orders of a set of nodes are lists of them, and of all of them.
LEMMA OrdersAre ==
  ASSUME NEW S \in SUBSET Node, NEW s \in SetToSeqs(S)
  PROVE  /\ s \in Seq(Node) /\ \A i \in DOMAIN s : s[i] \in S
         /\ \A i, j \in DOMAIN s : i # j => s[i] # s[j]
         /\ \A m \in S : \E i \in DOMAIN s : s[i] = m
<1>1. IsFiniteSet(S) /\ Cardinality(S) \in Nat
  <2>1. IsFiniteSet(Node)
    BY FS_Interval, BuildAssumption DEF Node
  <2> QED
    BY <2>1, FS_Subset, FS_CardinalityType
<1>2. s \in [1..Cardinality(S) -> S] /\ \A i, j \in 1..Cardinality(S) : i # j => s[i] # s[j]
  BY DEF SetToSeqs
<1>3. s \in Injection(1..Cardinality(S), S)
  BY <1>2 DEF Injection, IsInjective
<1>4. Cardinality(1..Cardinality(S)) = Cardinality(S)
  BY <1>1, FS_Interval
<1>5. s \in Surjection(1..Cardinality(S), S)
  BY <1>1, <1>3, <1>4, FS_Injection
<1>6. \A m \in S : \E i \in 1..Cardinality(S) : s[i] = m
  BY <1>5 DEF Surjection
<1> QED
  BY <1>1, <1>2, <1>6

\* What Enqueue does to the queue and to the notes about nodes.
LEMMA EnqueueIs ==
  ASSUME TypeOK, NEW n \in Node, NEW depth \in Nat,
         Enqueue(n, depth, initialized', ignored')
  PROVE  \E order :
           /\ Queueing(order, (graph[n] \cup SameDepth(depth)) \ ignored', depth, initialized')
           /\ queue' = Tail(queue) \o [i \in DOMAIN order |-> [node |-> order[i], depth |-> depth]]
           /\ explored' = [m \in Node |-> IF m \in {order[i] : i \in DOMAIN order}
                                          THEN Explored(m, depth) ELSE explored[m]]
<1> DEFINE near  == graph[n] \cup SameDepth(depth)
           ready == {m \in near \ ignored' : Ready(m, initialized', depth)}
<1>1. near \in SUBSET Node
  <2>1. graph[n] \subseteq Node /\ DOMAIN depthQueue \subseteq Node
    BY DEF TypeOK
  <2> QED
    BY <2>1 DEF SameDepth
<1>2. PICK first \in SetToSeqs(ready \cap graph[n]), second \in SetToSeqs(ready \ graph[n]) :
        LET order  == UpToExhausted(first \o second)
            queued == {order[i] : i \in DOMAIN order}
        IN /\ queue' = Tail(queue) \o [i \in DOMAIN order |-> [node |-> order[i], depth |-> depth]]
           /\ explored' = [m \in Node |-> IF m \in queued THEN Explored(m, depth) ELSE explored[m]]
  BY DEF Enqueue
<1> DEFINE both  == first \o second
           order == UpToExhausted(both)
<1>3. /\ queue' = Tail(queue) \o [i \in DOMAIN order |-> [node |-> order[i], depth |-> depth]]
      /\ explored' = [m \in Node |-> IF m \in {order[i] : i \in DOMAIN order}
                                     THEN Explored(m, depth) ELSE explored[m]]
  BY <1>2
<1>4. ready \subseteq near \ ignored' /\ \A m \in ready : Ready(m, initialized', depth)
  OBVIOUS
<1>5. ready \in SUBSET Node
  BY <1>1, <1>4
<1> HIDE DEF near, ready
<1>6. /\ first \in Seq(Node) /\ \A i \in DOMAIN first : first[i] \in ready \cap graph[n]
      /\ \A i, j \in DOMAIN first : i # j => first[i] # first[j]
  BY <1>5, OrdersAre
<1>7. /\ second \in Seq(Node) /\ \A i \in DOMAIN second : second[i] \in ready \ graph[n]
      /\ \A i, j \in DOMAIN second : i # j => second[i] # second[j]
  BY <1>5, OrdersAre
<1>8. /\ Len(first) \in Nat /\ Len(second) \in Nat
      /\ DOMAIN first = 1..Len(first) /\ DOMAIN second = 1..Len(second)
  BY <1>6, <1>7
<1>9. /\ both \in Seq(Node) /\ Len(both) = Len(first) + Len(second)
      /\ \A i \in 1..Len(first) : both[i] = first[i]
      /\ \A i \in 1..Len(both) : i > Len(first) =>
           i - Len(first) \in 1..Len(second) /\ both[i] = second[i - Len(first)]
  BY <1>6, <1>7, <1>8
<1>10. \A i \in 1..Len(both) :
         \/ i \in 1..Len(first) /\ both[i] = first[i]
         \/ i > Len(first) /\ i - Len(first) \in 1..Len(second) /\ both[i] = second[i - Len(first)]
  BY <1>8, <1>9
<1> HIDE DEF both
<1>11. \A i \in 1..Len(both) : both[i] \in ready
  BY <1>6, <1>7, <1>8, <1>10
<1>12. ASSUME NEW i \in 1..Len(both), NEW j \in 1..Len(both), i # j PROVE both[i] # both[j]
  <2>1. i - Len(first) # j - Len(first)
    BY <1>8, <1>9, <1>12
  <2>2. CASE i \in 1..Len(first) /\ both[i] = first[i]
    BY <1>6, <1>7, <1>8, <1>10, <1>12, <2>2
  <2>3. CASE i - Len(first) \in 1..Len(second) /\ both[i] = second[i - Len(first)]
    BY <1>6, <1>7, <1>8, <1>10, <1>12, <2>1, <2>3
  <2> QED
    BY <1>10, <2>2, <2>3
<1>13. PICK k \in 0..Len(both) :
         /\ order = SubSeq(both, 1, k)
         /\ \A i \in 1..k : Seen(both[i]) => explored[both[i]].remainingLoop # 0
         /\ k = Len(both) \/ \E i \in 1..Len(both) : Exhausted(both[i])
  BY <1>9, UpToExhaustedIs
<1>onto. /\ \A m \in ready \cap graph[n] : \E i \in DOMAIN first : first[i] = m
         /\ \A m \in ready \ graph[n] : \E i \in DOMAIN second : second[i] = m
  BY <1>5, OrdersAre
<1>all. \A m \in ready : \E i \in 1..Len(both) : both[i] = m
  <2> SUFFICES ASSUME NEW m \in ready PROVE \E i \in 1..Len(both) : both[i] = m
    OBVIOUS
  <2>1. CASE m \in graph[n]
    <3>1. PICK i \in 1..Len(first) : first[i] = m
      BY <1>8, <1>onto, <2>1
    <3>2. i \in 1..Len(both)
      BY <1>8, <1>9
    <3> QED
      BY <1>9, <3>1, <3>2
  <2>2. CASE m \notin graph[n]
    <3>1. PICK i \in 1..Len(second) : second[i] = m
      BY <1>8, <1>onto, <2>2
    <3>2. Len(first) + i \in 1..Len(both) /\ Len(first) + i > Len(first)
          /\ Len(first) + i - Len(first) = i
      BY <1>8, <1>9
    <3> QED
      BY <1>9, <3>1, <3>2
  <2> QED
    BY <2>1, <2>2
<1> HIDE DEF order
<1>14. /\ order \in Seq(Node) /\ DOMAIN order = 1..k
       /\ \A i \in 1..k : order[i] = both[i] /\ i \in 1..Len(both)
  BY <1>9, <1>13
<1> DEFINE rest == near \ ignored'
<1>chosen. \A m \in ready : m \in rest /\ Ready(m, initialized', depth)
  BY <1>4
<1>choice. \A m \in rest : Ready(m, initialized', depth) => m \in ready
  BY DEF ready
<1> HIDE DEF rest
<1>15. \/ \E m \in rest : Exhausted(m)
       \/ \A m \in rest : Ready(m, initialized', depth) => \E i \in DOMAIN order : order[i] = m
  <2>1. CASE k = Len(both)
    <3>1. \A i \in 1..Len(both) : i \in DOMAIN order /\ order[i] = both[i]
      BY <1>14, <2>1
    <3> QED
      BY <1>all, <1>choice, <3>1
  <2>2. CASE \E i \in 1..Len(both) : Exhausted(both[i])
    BY <1>chosen, <1>11, <2>2
  <2> QED
    BY <1>13, <2>1, <2>2
<1>16. /\ order \in Seq(Node)
       /\ \A i \in DOMAIN order : /\ order[i] \in rest
                                  /\ Ready(order[i], initialized', depth)
                                  /\ Seen(order[i]) => explored[order[i]].remainingLoop # 0
       /\ \A i, j \in DOMAIN order : i # j => order[i] # order[j]
  <2>1. \A i \in DOMAIN order : order[i] \in ready /\ i \in 1..k /\ order[i] = both[i]
    BY <1>11, <1>14
  <2>2. \A i, j \in DOMAIN order : i # j => order[i] # order[j]
    BY <1>12, <1>14
  <2> QED
    BY <1>13, <1>14, <1>chosen, <2>1, <2>2
<1>17. Queueing(order, rest, depth, initialized')
  BY <1>15, <1>16 DEF Queueing
<1> QED
  BY <1>3, <1>17 DEF near, rest

\* No item behind the first is lost, and every node of order is queued.
NoneLost(order, depth) ==
  /\ \A k \in DOMAIN queue \ {1} : k - 1 \in DOMAIN queue' /\ queue'[k - 1] = queue[k]
  /\ \A i \in DOMAIN order : \E k \in DOMAIN queue' :
       queue'[k] = [node |-> order[i], depth |-> depth]

\* The queue after a turn: the items behind the first, and the nodes the turn queued.
LEMMA QueueIs ==
  ASSUME TypeOK, queue # <<>>, NEW order \in Seq(Node), NEW depth \in 0..Size,
         queue' = Tail(queue) \o [i \in DOMAIN order |-> [node |-> order[i], depth |-> depth]]
  PROVE  /\ queue' \in Seq([node : Node, depth : 0..Size])
         /\ \A k \in DOMAIN queue' :
              \/ k + 1 \in DOMAIN queue /\ k + 1 # 1 /\ queue'[k] = queue[k + 1]
              \/ LET i == k - (Len(queue) - 1)
                 IN i \in DOMAIN order /\ queue'[k] = [node |-> order[i], depth |-> depth]
         /\ NoneLost(order, depth)
<1> DEFINE Item == [node : Node, depth : 0..Size]
           added == [i \in 1..Len(order) |-> [node |-> order[i], depth |-> depth]]
<1>1. /\ Len(order) \in Nat /\ DOMAIN order = 1..Len(order)
      /\ \A i \in 1..Len(order) : order[i] \in Node
  OBVIOUS
<1>2. queue' = Tail(queue) \o added /\ queue \in Seq(Item)
  BY <1>1 DEF TypeOK
<1>3. \A i \in 1..Len(order) : added[i] = [node |-> order[i], depth |-> depth] /\ added[i] \in Item
  BY <1>1
<1>4. added = [i \in 1..Len(order) |-> added[i]]
  OBVIOUS
<1> HIDE DEF added, Item
<1>5. added \in Seq(Item) /\ Len(added) = Len(order)
  BY <1>1, <1>3, <1>4, Listing
<1>6. Len(queue) \in Nat \ {0} /\ DOMAIN queue = 1..Len(queue)
  BY <1>2, Elements
<1>7. /\ queue' \in Seq(Item) /\ DOMAIN queue' = 1..(Len(queue) - 1 + Len(order))
      /\ \A i \in 1..(Len(queue) - 1) : queue'[i] = queue[i + 1]
      /\ \A i \in 1..Len(order) : queue'[Len(queue) - 1 + i] = added[i]
  <2> DEFINE u == Tail(queue) \o added
  <2>1. /\ u \in Seq(Item) /\ DOMAIN u = 1..(Len(queue) - 1 + Len(added))
        /\ \A i \in 1..(Len(queue) - 1) : u[i] = queue[i + 1]
        /\ \A i \in 1..Len(added) : u[Len(queue) - 1 + i] = added[i]
    BY <1>2, <1>5, TailAnd
  <2>2. queue' = u
    BY <1>2
  <2> HIDE DEF u
  <2> QED
    BY <1>5, <2>1, <2>2
<1>8. ASSUME NEW k \in DOMAIN queue'
      PROVE  \/ k + 1 \in DOMAIN queue /\ k + 1 # 1 /\ queue'[k] = queue[k + 1]
             \/ LET i == k - (Len(queue) - 1)
                IN i \in DOMAIN order /\ queue'[k] = [node |-> order[i], depth |-> depth]
  <2>1. CASE k \in 1..(Len(queue) - 1)
    BY <1>6, <1>7, <2>1
  <2>2. CASE k \notin 1..(Len(queue) - 1)
    <3>1. k - (Len(queue) - 1) \in 1..Len(order)
      BY <1>1, <1>6, <1>7, <2>2
    <3>2. Len(queue) - 1 + (k - (Len(queue) - 1)) = k
      BY <1>6, <1>7
    <3> QED
      BY <1>1, <1>3, <1>7, <3>1, <3>2
  <2> QED
    BY <2>1, <2>2
<1>9. \A k \in DOMAIN queue \ {1} : k - 1 \in DOMAIN queue' /\ queue'[k - 1] = queue[k]
  <2> SUFFICES ASSUME NEW k \in DOMAIN queue, k # 1
               PROVE  k - 1 \in DOMAIN queue' /\ queue'[k - 1] = queue[k]
    OBVIOUS
  <2>1. k - 1 \in 1..(Len(queue) - 1) /\ (k - 1) + 1 = k
    BY <1>6
  <2> QED
    BY <1>1, <1>6, <1>7, <2>1
<1>10. \A i \in DOMAIN order : \E k \in DOMAIN queue' :
         queue'[k] = [node |-> order[i], depth |-> depth]
  <2> SUFFICES ASSUME NEW i \in 1..Len(order)
               PROVE  \E k \in DOMAIN queue' : queue'[k] = [node |-> order[i], depth |-> depth]
    BY <1>1
  <2>1. Len(queue) - 1 + i \in DOMAIN queue'
    BY <1>1, <1>6, <1>7
  <2> QED
    BY <1>3, <1>7, <2>1
<1> QED
  BY <1>7, <1>8, <1>9, <1>10 DEF Item, NoneLost

--------------------------------------------------------------------------------
\* The steps

\* What a turn does, in terms of the node that is initialised and the nodes that are queued.
Turn(order, n, depth) ==
  /\ Queueing(order, (graph[n] \cup SameDepth(depth)) \ ignored', depth, initialized')
  /\ queue' \in Seq([node : Node, depth : 0..Size])
  /\ \A k \in DOMAIN queue' :
       \/ k + 1 \in DOMAIN queue /\ k + 1 # 1 /\ queue'[k] = queue[k + 1]
       \/ LET i == k - (Len(queue) - 1)
          IN i \in DOMAIN order /\ queue'[k] = [node |-> order[i], depth |-> depth]
  /\ NoneLost(order, depth)
  /\ explored' = [m \in Node |-> IF m \in {order[i] : i \in DOMAIN order}
                                 THEN Explored(m, depth) ELSE explored[m]]
  /\ graph' = [graph EXCEPT ![n] = graph[n] \cup SameDepth(depth)]

\* Every turn is of this kind.
LEMMA TurnIs ==
  ASSUME TypeOK, Initialize,
         NEW n, NEW depth, n = Current, depth = Head(queue).depth + 1, depth \in 0..Size
  PROVE  \E order : Turn(order, n, depth)
<1>1. n \in Node /\ depth \in Nat /\ queue # <<>>
  BY Types, BuildAssumption DEF Initialize, Building
<1>2. Enqueue(n, depth, initialized', ignored')
  BY DEF Initialize
<1>3. graph' = [graph EXCEPT ![n] = graph[n] \cup SameDepth(depth)]
  BY <1>2 DEF Enqueue
<1>4. PICK order :
        /\ Queueing(order, (graph[n] \cup SameDepth(depth)) \ ignored', depth, initialized')
        /\ queue' = Tail(queue) \o [i \in DOMAIN order |-> [node |-> order[i], depth |-> depth]]
        /\ explored' = [m \in Node |-> IF m \in {order[i] : i \in DOMAIN order}
                                       THEN Explored(m, depth) ELSE explored[m]]
  BY <1>1, <1>2, EnqueueIs
<1>5. order \in Seq(Node)
  BY <1>4 DEF Queueing
<1>6. /\ queue' \in Seq([node : Node, depth : 0..Size])
      /\ \A k \in DOMAIN queue' :
           \/ k + 1 \in DOMAIN queue /\ k + 1 # 1 /\ queue'[k] = queue[k + 1]
           \/ LET i == k - (Len(queue) - 1)
              IN i \in DOMAIN order /\ queue'[k] = [node |-> order[i], depth |-> depth]
      /\ NoneLost(order, depth)
  BY <1>1, <1>4, <1>5, QueueIs
<1>7. Turn(order, n, depth)
  BY <1>3, <1>4, <1>6 DEF Turn
<1> QED
  BY <1>7

\* A turn at depth d leads to depth d + 1, which is within the bound.
LEMMA NextDepth ==
  ASSUME TypeOK, DepthsAreCounted, queue # <<>>
  PROVE  Head(queue).depth + 1 \in 0..Size
<1>1. /\ 1 \in DOMAIN queue /\ Head(queue) = queue[1] /\ queue[1].node \in Node
      /\ queue[1].depth \in 0..Size /\ initialized \subseteq Node
  BY Types
<1>2. PICK before \in SUBSET initialized :
        Cardinality(before) = queue[1].depth /\ queue[1].node \notin before
  BY <1>1 DEF DepthsAreCounted
<1>3. IsFiniteSet(Node) /\ Cardinality(Node) = Size
  BY FS_Interval, BuildAssumption DEF Node
<1>4. IsFiniteSet(before)
  BY <1>1, <1>2, <1>3, FS_Subset
<1> DEFINE all == before \cup {queue[1].node}
<1>5. Cardinality(all) = queue[1].depth + 1
  BY <1>2, <1>4, FS_AddElement
<1>6. all \in SUBSET Node
  BY <1>1, <1>2
<1> HIDE DEF all
<1>7. Cardinality(all) <= Size
  BY <1>3, <1>6, FS_Subset
<1> QED
  BY <1>1, <1>5, <1>7, BuildAssumption

\* What is known of a step that takes a turn.
LEMMA TurnFacts ==
  ASSUME IInv, Initialize
  PROVE  LET n == Current  depth == Head(queue).depth + 1
         IN /\ n \in Node /\ depth \in 1..Size /\ depth = queue[1].depth + 1
            /\ 1 \in DOMAIN queue /\ queue[1].node = n
            /\ initialized' = initialized \cup {n}
            /\ inits' = [inits EXCEPT ![n] = @ + 1]
            /\ UNCHANGED <<pc, flow, depthQueue>>
            /\ pc = "building"
<1>1. TypeOK /\ DepthsAreCounted
  BY DEF IInv
<1>2. queue # <<>> /\ pc = "building"
  BY DEF Initialize, Building
<1>3. Head(queue).depth + 1 \in 0..Size
  BY <1>1, <1>2, NextDepth
<1>4. /\ 1 \in DOMAIN queue /\ Head(queue) = queue[1] /\ Current = queue[1].node /\ Current \in Node
      /\ queue[1].depth \in 0..Size
  BY <1>1, <1>2, Types
<1> QED
  BY <1>2, <1>3, <1>4, BuildAssumption DEF Initialize

\* An ifElse node ignores nodes, at least the first it refuses.
LEMMA IgnoreIs ==
  ASSUME TypeOK, FlowsFit, NEW n \in Node, Ignore(n)
  PROVE  /\ ignored \subseteq ignored' /\ ignored' \subseteq Node
         /\ flow.first # None /\ n = flow.chooser => flow.first \in ignored'
<1>1. flow.refused \subseteq Node /\ flow.edges \in SUBSET Upwards /\ ignored \subseteq Node
  BY Types
<1>2. CASE n # flow.chooser \/ flow.refused = {}
  <2>1. ignored' = ignored
    BY <1>2 DEF Ignore
  <2> QED
    BY <1>1, <1>2, <2>1 DEF FlowsFit
<1>3. CASE ~(n # flow.chooser \/ flow.refused = {})
  <2>1. ignored' = ignored \cup Connected(Uncut, flow.first)
    BY <1>3 DEF Ignore, FirstRefused
  <2>2. Uncut \in SUBSET Upwards /\ flow.first \in Node
    BY <1>1, <1>3 DEF Uncut, FlowsFit
  <2>3. Connected(Uncut, flow.first) \subseteq Node /\ flow.first \in Connected(Uncut, flow.first)
    BY <2>2, ConnectedIs
  <2> QED
    BY <1>1, <2>1, <2>3
<1> QED
  BY <1>2, <1>3

\* A node that is queued is noted with its depth, and with the repetitions it has left.
LEMMA ExploredIs ==
  ASSUME TypeOK, NEW m \in Node, NEW depth \in 0..Size,
         Seen(m) => explored[m].remainingLoop # 0
  PROVE  /\ Explored(m, depth) \in [remainingLoop : 0..MaxLoop, lastSeenDepth : 0..Size]
         /\ Explored(m, depth) # None /\ Explored(m, depth).lastSeenDepth = depth
<1>1. Seen(m) => explored[m].remainingLoop \in 0..MaxLoop
  BY DEF TypeOK, Seen
<1>2. (IF Seen(m) THEN explored[m].remainingLoop - 1 ELSE MaxLoop) \in 0..MaxLoop
  BY <1>1, BuildAssumption
<1>3. Explored(m, depth) \in [remainingLoop : 0..MaxLoop, lastSeenDepth : 0..Size]
  BY <1>2 DEF Explored
<1>4. Explored(m, depth).lastSeenDepth = depth
  BY DEF Explored
<1> QED
  BY <1>3, <1>4, BuildAssumption

\* A turn keeps the type of everything.
LEMMA TurnKeepsTypes ==
  ASSUME IInv, Initialize
  PROVE  TypeOK'
<1> DEFINE n == Current
           depth == Head(queue).depth + 1
<1>1. TypeOK /\ FlowsFit
  BY DEF IInv
<1>2. /\ n \in Node /\ depth \in 1..Size /\ initialized' = initialized \cup {n}
      /\ inits' = [inits EXCEPT ![n] = @ + 1] /\ UNCHANGED <<pc, flow, depthQueue>>
  BY TurnFacts
<1>3. Ignore(n) /\ last' = IF graph[n] \cup SameDepth(depth) \subseteq ignored' THEN n ELSE last
  BY DEF Initialize, Enqueue
<1> HIDE DEF n
<1>4. ignored' \subseteq Node
  BY <1>1, <1>2, <1>3, IgnoreIs
<1>5. PICK order : Turn(order, n, depth)
  <2>1. depth \in 0..Size
    BY <1>2
  <2> QED
    BY <1>1, <2>1, TurnIs DEF n
<1> HIDE DEF depth
<1>6. SameDepth(depth) \subseteq Node
  BY <1>1 DEF TypeOK, SameDepth
<1>7. graph' \in [Node -> SUBSET Node]
  BY <1>1, <1>2, <1>5, <1>6 DEF TypeOK, Turn
<1>8. explored' \in [Node -> [remainingLoop : 0..MaxLoop, lastSeenDepth : 0..Size] \cup {None}]
  <2>1. ASSUME NEW i \in DOMAIN order
        PROVE  Explored(order[i], depth) \in [remainingLoop : 0..MaxLoop, lastSeenDepth : 0..Size]
    <3>1. order[i] \in Node /\ (Seen(order[i]) => explored[order[i]].remainingLoop # 0)
      BY <1>5, <2>1 DEF Queueing, Turn
    <3>2. depth \in 0..Size
      BY <1>2
    <3> QED
      BY <1>1, <3>1, <3>2, ExploredIs
  <2>2. \A m \in Node :
          explored[m] \in [remainingLoop : 0..MaxLoop, lastSeenDepth : 0..Size] \cup {None}
    BY <1>1 DEF TypeOK
  <2> DEFINE Entry == [remainingLoop : 0..MaxLoop, lastSeenDepth : 0..Size] \cup {None}
  <2>3. \A m \in Node : (IF m \in {order[i] : i \in DOMAIN order}
                         THEN Explored(m, depth) ELSE explored[m]) \in Entry
    BY <2>1, <2>2
  <2> HIDE DEF Entry
  <2>4. explored' \in [Node -> Entry]
    BY <1>5, <2>3 DEF Turn
  <2> QED
    BY <2>4 DEF Entry
<1>9. initialized' \subseteq Node
  BY <1>1, <1>2 DEF TypeOK
<1>10. inits' \in [Node -> Nat]
  BY <1>1, <1>2 DEF TypeOK
<1>11. last' \in Node \cup {None}
  BY <1>1, <1>2, <1>3 DEF TypeOK
<1>12. /\ pc' \in {"building", "built", "upserted", "failed"}
       /\ flow' \in [edges : SUBSET Upwards, chooser : Node \cup {None}, refused : SUBSET Node,
                     first : Node \cup {None}, upsert : BOOLEAN, ends : Seq(Node)]
       /\ DOMAIN depthQueue' \subseteq Node /\ depthQueue' \in [DOMAIN depthQueue' -> 0..Size]
  BY <1>1, <1>2 DEF TypeOK
<1> QED
  BY <1>4, <1>5, <1>7, <1>8, <1>9, <1>10, <1>11, <1>12 DEF TypeOK, Turn

\* A turn keeps the order of dependencies, the count of depths, and what is refused apart.
LEMMA TurnKeepsOrder ==
  ASSUME IInv, Initialize
  PROVE  /\ QueuedIsReady' /\ DependenciesFirst' /\ DepthsAreCounted'
         /\ RefusedIsIgnored' /\ RefusedIsOut'
<1> DEFINE n == Current
           depth == Head(queue).depth + 1
<1>1. /\ TypeOK /\ FlowsFit /\ QueuedIsReady /\ DependenciesFirst /\ DepthsAreCounted
      /\ RefusedIsIgnored /\ RefusedIsOut
  BY DEF IInv
<1>2. /\ n \in Node /\ depth \in 1..Size /\ depth = queue[1].depth + 1
      /\ 1 \in DOMAIN queue /\ queue[1].node = n
      /\ initialized' = initialized \cup {n} /\ UNCHANGED <<pc, flow, depthQueue>>
  BY TurnFacts
<1>3. Ignore(n)
  BY DEF Initialize
<1> HIDE DEF n
<1>4. PICK order : Turn(order, n, depth)
  <2>1. depth \in 0..Size
    BY <1>2
  <2> QED
    BY <1>1, <2>1, TurnIs DEF n
<1> HIDE DEF depth
<1>5. ASSUME NEW k \in DOMAIN queue'
      PROVE  \/ \E i \in DOMAIN queue : queue'[k] = queue[i]
             \/ \E i \in DOMAIN order : queue'[k].node = order[i] /\ queue'[k].depth = depth
  BY <1>4 DEF Turn
<1>6. \A i \in DOMAIN order : /\ order[i] \notin ignored' /\ order[i] \notin initialized'
                             /\ Predecessors(flow.edges, order[i]) \subseteq initialized'
  BY <1>4 DEF Queueing, Ready, Turn
<1>7. QueuedIsReady'
  BY <1>1, <1>2, <1>5, <1>6 DEF QueuedIsReady
<1>8. DependenciesFirst'
  <2>1. Predecessors(flow.edges, n) \subseteq initialized
    BY <1>1, <1>2 DEF QueuedIsReady
  <2>2. \A edge \in flow.edges : edge = <<edge[1], edge[2]>> /\ edge[1] \in Node
    BY <1>1, Types DEF Upwards
  <2> QED
    BY <1>1, <1>2, <2>1, <2>2 DEF DependenciesFirst, Predecessors
<1>9. DepthsAreCounted'
  <2>1. PICK before \in SUBSET initialized : Cardinality(before) = queue[1].depth /\ n \notin before
    BY <1>1, <1>2 DEF DepthsAreCounted
  <2>2. IsFiniteSet(before)
    <3>1. before \in SUBSET Node
      BY <1>1, <2>1, Types
    <3>2. IsFiniteSet(Node)
      BY FS_Interval, BuildAssumption DEF Node
    <3> QED
      BY <3>1, <3>2, FS_Subset
  <2>3. Cardinality(before \cup {n}) = depth
    <3>1. Cardinality(before \cup {n}) = Cardinality(before) + 1
      BY <2>1, <2>2, FS_AddElement
    <3> QED
      BY <1>2, <2>1, <3>1
  <2>within. before \cup {n} \in SUBSET initialized'
    BY <1>2, <2>1
  <2>4. ASSUME NEW k \in DOMAIN queue'
        PROVE  \E earlier \in SUBSET initialized' :
                 Cardinality(earlier) = queue'[k].depth /\ queue'[k].node \notin earlier
    <3>1. CASE \E i \in DOMAIN queue : queue'[k] = queue[i]
      BY <1>1, <1>2, <3>1 DEF DepthsAreCounted
    <3>2. CASE \E i \in DOMAIN order : queue'[k].node = order[i] /\ queue'[k].depth = depth
      <4>1. queue'[k].node \notin before \cup {n} /\ queue'[k].depth = depth
        BY <1>2, <1>6, <2>1, <3>2
      <4> QED
        BY <2>3, <2>within, <4>1
    <3> QED
      BY <1>5, <3>1, <3>2
  <2> QED
    BY <2>4 DEF DepthsAreCounted
<1>10. /\ flow.first # None /\ flow.chooser \in initialized' => flow.first \in ignored'
       /\ ~IsQueued(flow.first)' /\ flow.first \notin initialized'
  <2>1. ignored \subseteq ignored' /\ (flow.first # None /\ n = flow.chooser => flow.first \in ignored')
    BY <1>1, <1>2, <1>3, IgnoreIs
  <2>2. flow.first # None /\ flow.chooser \in initialized' => flow.first \in ignored'
    BY <1>1, <1>2, <2>1 DEF RefusedIsIgnored
  <2>3. flow.first # None => flow.chooser \in Predecessors(flow.edges, flow.first)
    BY <1>1 DEF FlowsFit, Successors, Predecessors
  <2>4. ASSUME NEW k \in DOMAIN queue', queue'[k].node = flow.first PROVE FALSE
    <3>1. CASE \E i \in DOMAIN queue : queue'[k] = queue[i]
      BY <1>1, <2>4, <3>1 DEF RefusedIsIgnored, IsQueued
    <3>2. CASE \E i \in DOMAIN order : queue'[k].node = order[i]
      <4>1. PICK i \in DOMAIN order : flow.first = order[i]
        BY <2>4, <3>2
      <4>2. order[i] \in Node
        BY <1>4 DEF Turn, Queueing
      <4>3. flow.first # None
        BY <4>1, <4>2, BuildAssumption DEF Node
      <4> QED
        BY <1>6, <2>2, <2>3, <4>1, <4>3
    <3> QED
      BY <1>5, <3>1, <3>2
  <2>5. ASSUME flow.first \in initialized' PROVE FALSE
    <3>1. flow.first = n
      BY <1>1, <1>2, <2>5 DEF RefusedIsOut
    <3> QED
      BY <1>1, <1>2, <3>1 DEF RefusedIsIgnored, IsQueued
  <2> QED
    BY <2>2, <2>4, <2>5, <1>2 DEF IsQueued
<1>11. RefusedIsIgnored' /\ RefusedIsOut'
  BY <1>2, <1>10 DEF RefusedIsIgnored, RefusedIsOut, IsQueued
<1> QED
  BY <1>7, <1>8, <1>9, <1>11

\* A turn of an upsert queues nodes of its own level only, and none of them a second time.
LEMMA TurnKeepsLevels ==
  ASSUME IInv, Initialize
  PROVE  LevelsQueueOnce' /\ UpsertOnce'
<1> DEFINE n == Current
           depth == Head(queue).depth + 1
<1>1. TypeOK /\ QueuedIsReady /\ LevelsQueueOnce /\ UpsertOnce
  BY DEF IInv
<1>2. /\ n \in Node /\ depth \in 1..Size /\ depth \in 0..Size
      /\ 1 \in DOMAIN queue /\ queue[1].node = n /\ pc = "building"
      /\ initialized' = initialized \cup {n} /\ inits' = [inits EXCEPT ![n] = @ + 1]
      /\ UNCHANGED <<pc, flow, depthQueue>>
  BY TurnFacts
<1>3. flow'.upsert = flow.upsert /\ flow'.edges = flow.edges
  BY <1>2
<1>4. PICK order : Turn(order, n, depth)
  BY <1>1, <1>2, TurnIs
<1> HIDE DEF n, depth
<1>5. CASE ~flow.upsert
  BY <1>3, <1>5 DEF LevelsQueueOnce, UpsertOnce
<1>6. CASE flow.upsert
  <2>1. /\ \A m \in Node : inits[m] = IF m \in initialized THEN 1 ELSE 0
        /\ \A m \in Node \ initialized : graph[m] \subseteq Predecessors(flow.edges, m)
        /\ \A m \in Node : Seen(m) =>
             m \in DOMAIN depthQueue /\ explored[m].lastSeenDepth = depthQueue[m]
        /\ \A i \in DOMAIN queue : queue[i].node \notin initialized /\ Seen(queue[i].node)
        /\ \A i, j \in DOMAIN queue : i # j => queue[i].node # queue[j].node
    BY <1>1, <1>2, <1>6 DEF LevelsQueueOnce
  <2>2. n \notin initialized /\ inits[n] = 0 /\ \A m \in Node : inits[m] \in Nat
    BY <1>1, <1>2, <2>1 DEF TypeOK
  <2>3. \A m \in Node : inits'[m] = IF m \in initialized' THEN 1 ELSE 0
    BY <1>1, <1>2, <2>1, <2>2 DEF TypeOK
  <2>4. \A m \in Node \ initialized' : graph'[m] \subseteq Predecessors(flow.edges, m)
    BY <1>1, <1>2, <1>4, <2>1 DEF TypeOK, Turn
  <2>5. graph[n] \subseteq initialized
    BY <1>1, <1>2, <2>1, <2>2 DEF QueuedIsReady
  <2>6. ASSUME NEW i \in DOMAIN order
        PROVE  /\ order[i] \in Node /\ order[i] \notin initialized' /\ ~Seen(order[i])
               /\ order[i] \in DOMAIN depthQueue /\ depthQueue[order[i]] = depth
               /\ Explored(order[i], depth) # None
               /\ Explored(order[i], depth).lastSeenDepth = depth
    <3>1. /\ order[i] \in Node /\ order[i] \in graph[n] \cup SameDepth(depth)
          /\ Ready(order[i], initialized', depth)
          /\ Seen(order[i]) => explored[order[i]].remainingLoop # 0
      BY <1>4, <2>6 DEF Turn, Queueing
    <3>2. /\ order[i] \notin initialized'
          /\ Seen(order[i]) => explored[order[i]].lastSeenDepth # depth
      BY <3>1 DEF Ready
    <3>3. order[i] \in SameDepth(depth)
      BY <1>2, <2>5, <3>1, <3>2
    <3>4. order[i] \in DOMAIN depthQueue /\ depthQueue[order[i]] = depth
      BY <3>3 DEF SameDepth
    <3>5. /\ Explored(order[i], depth) # None
          /\ Explored(order[i], depth).lastSeenDepth = depth
      BY <1>1, <1>2, <3>1, ExploredIs
    <3> QED
      BY <2>1, <3>1, <3>2, <3>4, <3>5
  <2>7. \A m \in Node : \/ \E i \in DOMAIN order : m = order[i] /\ explored'[m] = Explored(m, depth)
                        \/ (\A i \in DOMAIN order : m # order[i]) /\ explored'[m] = explored[m]
    BY <1>4 DEF Turn
  <2>8. \A m \in Node : explored'[m] # None =>
          m \in DOMAIN depthQueue /\ explored'[m].lastSeenDepth = depthQueue[m]
    BY <2>1, <2>6, <2>7 DEF Seen
  <2>9. ASSUME NEW k \in DOMAIN queue'
        PROVE  \/ k + 1 \in DOMAIN queue /\ k + 1 # 1 /\ queue'[k].node = queue[k + 1].node
               \/ /\ k - (Len(queue) - 1) \in DOMAIN order
                  /\ queue'[k].node = order[k - (Len(queue) - 1)]
    BY <1>4 DEF Turn
  <2>10. queue' \in Seq([node : Node, depth : 0..Size]) /\ Len(queue) \in Nat
    <3>1. queue \in Seq([node : Node, depth : 0..Size])
      BY <1>1 DEF TypeOK
    <3> QED
      BY <1>4, <3>1, Elements DEF Turn
  <2>11. DOMAIN queue' \subseteq Nat
    BY <2>10, Elements
  <2>12. ASSUME NEW k \in DOMAIN queue'
         PROVE  queue'[k].node \notin initialized' /\ explored'[queue'[k].node] # None
    <3>1. CASE k + 1 \in DOMAIN queue /\ k + 1 # 1 /\ queue'[k].node = queue[k + 1].node
      <4>1. queue[k + 1].node \in Node
        BY <1>1, <3>1, Types
      <4> QED
        BY <1>2, <2>1, <2>6, <2>7, <3>1, <4>1 DEF Seen
    <3>2. CASE k - (Len(queue) - 1) \in DOMAIN order /\ queue'[k].node = order[k - (Len(queue) - 1)]
      BY <2>6, <2>7, <3>2
    <3> QED
      BY <2>9, <3>1, <3>2
  <2>13. ASSUME NEW k \in DOMAIN queue', NEW l \in DOMAIN queue', k # l
         PROVE  queue'[k].node # queue'[l].node
    <3>0. k \in Nat /\ l \in Nat
      BY <2>11
    <3>1. k + 1 # l + 1 /\ k - (Len(queue) - 1) # l - (Len(queue) - 1)
      BY <2>10, <2>13, <3>0
    <3>2. \A i, j \in DOMAIN order : i # j => order[i] # order[j]
      BY <1>4 DEF Turn, Queueing
    <3> QED
      BY <2>1, <2>6, <2>9, <3>1, <3>2
  <2>14. LevelsQueueOnce'
    BY <1>2, <1>3, <2>3, <2>4, <2>8, <2>12, <2>13 DEF LevelsQueueOnce, Seen
  <2>15. UpsertOnce'
    BY <2>3 DEF UpsertOnce
  <2> QED
    BY <2>14, <2>15
<1> QED
  BY <1>5, <1>6

\* An upsert runs the node it stops at for the first time.
LEMMA UpsertKeeps ==
  ASSUME IInv, Upsert
  PROVE  IInv'
<1>1. /\ TypeOK /\ FlowsFit /\ QueuedIsReady /\ DependenciesFirst /\ DepthsAreCounted
      /\ RefusedIsIgnored /\ RefusedIsOut /\ LevelsQueueOnce /\ UpsertOnce
  BY DEF IInv
<1>2. /\ UNCHANGED <<flow, depthQueue, graph, queue, explored, initialized, ignored, last>>
      /\ pc = "building" /\ pc' = "upserted" /\ flow.upsert
      /\ inits' = [inits EXCEPT ![Current] = @ + 1] /\ queue # <<>>
  BY DEF Upsert, Building, IsStop, progress
<1>3. Current \in Node /\ 1 \in DOMAIN queue /\ Current = queue[1].node
  BY <1>1, <1>2, Types
<1>4. inits[Current] = 0 /\ inits \in [Node -> Nat] /\ \A n \in Node : inits[n] <= 1
  BY <1>1, <1>2, <1>3 DEF LevelsQueueOnce, TypeOK, UpsertOnce
<1>5. inits' \in [Node -> Nat] /\ \A n \in Node : inits'[n] <= 1
  BY <1>2, <1>3, <1>4
<1>6. TypeOK'
  BY <1>1, <1>2, <1>5 DEF TypeOK
<1>7. /\ FlowsFit' /\ QueuedIsReady' /\ DependenciesFirst' /\ DepthsAreCounted'
      /\ RefusedIsIgnored' /\ RefusedIsOut'
  BY <1>1, <1>2 DEF FlowsFit, QueuedIsReady, DependenciesFirst, DepthsAreCounted,
                    RefusedIsIgnored, RefusedIsOut, IsQueued
<1>8. LevelsQueueOnce' /\ UpsertOnce'
  BY <1>2, <1>5 DEF LevelsQueueOnce, UpsertOnce
<1> QED
  BY <1>6, <1>7, <1>8 DEF IInv

\* Every step keeps the invariant.
LEMMA NextHolds == IInv /\ [Next]_vars => IInv'
<1> SUFFICES ASSUME IInv, [Next]_vars PROVE IInv'
  OBVIOUS
<1>1. CASE Initialize
  <2>1. FlowsFit'
    BY <1>1, TurnFacts DEF FlowsFit, IInv
  <2> QED
    BY <1>1, <2>1, TurnKeepsTypes, TurnKeepsOrder, TurnKeepsLevels DEF IInv
<1>2. CASE Upsert
  BY <1>2, UpsertKeeps
<1>3. CASE NodeThrows \/ Finish \/ UNCHANGED vars
  <2>1. /\ UNCHANGED <<flow, depthQueue, graph, queue, explored, initialized, ignored, last, inits>>
        /\ pc' \in {"built", "failed"} \/ pc' = pc
    BY <1>3 DEF NodeThrows, Finish, vars, progress
  <2>2. TypeOK' /\ FlowsFit' /\ QueuedIsReady' /\ DependenciesFirst' /\ DepthsAreCounted'
    BY <2>1 DEF IInv, TypeOK, FlowsFit, QueuedIsReady, DependenciesFirst, DepthsAreCounted
  <2>3. RefusedIsIgnored' /\ RefusedIsOut' /\ UpsertOnce'
    BY <2>1 DEF IInv, RefusedIsIgnored, RefusedIsOut, IsQueued, UpsertOnce
  <2>4. LevelsQueueOnce'
    BY <2>1 DEF IInv, LevelsQueueOnce, Seen
  <2> QED
    BY <2>2, <2>3, <2>4 DEF IInv
<1> QED
  BY <1>1, <1>2, <1>3 DEF Next

--------------------------------------------------------------------------------
\* How often a node is queued

\* The queue holds the rest of one level, and behind it the next level.
LevelsFollow ==
  /\ \A i, j \in DOMAIN queue : i < j => queue[i].depth <= queue[j].depth
  /\ \A i \in DOMAIN queue : queue[i].depth <= queue[1].depth + 1

\* A node waits as it was queued first, or was queued again by the level it waits in.
WaitsAt(m, i) ==
  /\ queue[i].node = m
  /\ \/ explored[m].remainingLoop = MaxLoop /\ explored[m].lastSeenDepth = queue[i].depth
     \/ /\ explored[m].remainingLoop = MaxLoop - 1 /\ queue[1].depth = queue[i].depth
        /\ explored[m].lastSeenDepth = queue[i].depth + 1

QueuedTwice ==
  /\ \A m \in Node : Seen(m) =>
       /\ explored[m].remainingLoop \in {MaxLoop, MaxLoop - 1}
       /\ m \notin initialized => \E i \in DOMAIN queue : WaitsAt(m, i)
  /\ \A i \in DOMAIN queue : Seen(queue[i].node)

EInv == LevelsFollow /\ QueuedTwice

\* At first the starting nodes are queued.
LEMMA InitQueues == Init => EInv
<1> SUFFICES ASSUME Init PROVE EInv
  OBVIOUS
<1>1. PICK order :
        LET starts == {order[i] : i \in DOMAIN order} IN
        /\ queue = [i \in DOMAIN order |-> [node |-> order[i], depth |-> 0]]
        /\ explored = [n \in Node |-> IF n \in starts
                                      THEN [remainingLoop |-> MaxLoop, lastSeenDepth |-> 0]
                                      ELSE None]
  BY DEF Init
<1>2. TypeOK
  BY InitHolds DEF IInv
<1>3. \A i \in DOMAIN queue : queue[i].depth = 0 /\ queue[i].node = order[i] /\ order[i] \in Node
  BY <1>1, <1>2, Types
<1>4. DOMAIN queue = DOMAIN order /\ (queue # <<>> => queue[1].depth = 0)
  BY <1>1, <1>2, <1>3, Types
<1>5. \A i \in DOMAIN queue : queue # <<>>
  BY <1>2, Elements DEF TypeOK
<1>6. LevelsFollow
  BY <1>3, <1>4, <1>5 DEF LevelsFollow
<1>7. \A m \in Node : Seen(m) => /\ explored[m].remainingLoop = MaxLoop /\ explored[m].lastSeenDepth = 0
                                /\ \E i \in DOMAIN order : order[i] = m
  BY <1>1 DEF Seen
<1>8. \A i \in DOMAIN order : order[i] \in Node => explored[order[i]] # None
  BY <1>1, BuildAssumption
<1>9. QueuedTwice
  BY <1>3, <1>4, <1>7, <1>8 DEF QueuedTwice, WaitsAt, Seen
<1> QED
  BY <1>6, <1>9 DEF EInv

\* A turn queues a node again only in the level that follows the one it waits in.
LEMMA TurnQueues == ASSUME IInv, EInv, MaxLoop > 1, Initialize PROVE EInv'
<1> DEFINE n == Current
           depth == Head(queue).depth + 1
<1>1. TypeOK /\ LevelsFollow /\ QueuedTwice
  BY DEF IInv, EInv
<1>2. /\ n \in Node /\ depth \in 1..Size /\ depth \in 0..Size /\ depth = queue[1].depth + 1
      /\ 1 \in DOMAIN queue /\ queue[1].node = n /\ initialized' = initialized \cup {n}
  BY TurnFacts
<1>3. PICK order : Turn(order, n, depth)
  BY <1>1, <1>2, TurnIs
<1> HIDE DEF n, depth
<1>4. /\ Len(queue) \in Nat /\ DOMAIN queue = 1..Len(queue) /\ DOMAIN order = 1..Len(order)
      /\ Len(order) \in Nat /\ \A i \in DOMAIN order : order[i] \in Node
  <2>1. queue \in Seq([node : Node, depth : 0..Size]) /\ order \in Seq(Node)
    BY <1>1, <1>3 DEF TypeOK, Turn, Queueing
  <2> QED
    BY <2>1, Elements
<1>5. DOMAIN queue' = 1..Len(queue') /\ Len(queue') \in Nat
  <2>1. queue' \in Seq([node : Node, depth : 0..Size])
    BY <1>3 DEF Turn
  <2> QED
    BY <2>1, Elements
<1>6. \A i \in DOMAIN queue : queue[i].node \in Node /\ queue[i].depth \in Nat
  BY <1>1, Types
<1>7. ASSUME NEW k \in DOMAIN queue'
      PROVE  \/ k + 1 \in DOMAIN queue /\ k + 1 # 1 /\ queue'[k] = queue[k + 1]
             \/ /\ k - (Len(queue) - 1) \in DOMAIN order
                /\ queue'[k] = [node |-> order[k - (Len(queue) - 1)], depth |-> depth]
  BY <1>3 DEF Turn
<1>8. ASSUME NEW k \in DOMAIN queue'
      PROVE  \/ k < Len(queue) /\ k + 1 \in DOMAIN queue /\ queue'[k].depth = queue[k + 1].depth
             \/ k >= Len(queue) /\ queue'[k].depth = depth
  BY <1>2, <1>4, <1>5, <1>7
<1>9. LevelsFollow'
  <2>1. \A i \in DOMAIN queue : queue[1].depth <= queue[i].depth /\ queue[i].depth <= depth
    BY <1>1, <1>2, <1>4, <1>6 DEF LevelsFollow
  <2>2. ASSUME NEW k \in DOMAIN queue', NEW l \in DOMAIN queue', k < l
        PROVE  queue'[k].depth <= queue'[l].depth
    <3>1. CASE l < Len(queue)
      <4>1. k + 1 \in DOMAIN queue /\ l + 1 \in DOMAIN queue /\ k + 1 < l + 1
        BY <1>4, <1>5, <1>8, <2>2, <3>1
      <4>2. queue'[k].depth = queue[k + 1].depth /\ queue'[l].depth = queue[l + 1].depth
        BY <1>4, <1>5, <1>8, <2>2, <3>1
      <4> QED
        BY <1>1, <4>1, <4>2 DEF LevelsFollow
    <3>2. CASE l >= Len(queue)
      <4>1. queue'[l].depth = depth
        BY <1>4, <1>5, <1>8, <3>2
      <4>2. queue'[k].depth <= depth
        BY <1>2, <1>8, <2>1
      <4> QED
        BY <4>1, <4>2
    <3> QED
      BY <1>4, <1>5, <3>1, <3>2
  <2>3. ASSUME NEW k \in DOMAIN queue' PROVE queue'[k].depth <= queue'[1].depth + 1
    <3>1. 1 \in DOMAIN queue'
      BY <1>5
    <3>2. queue'[1].depth \in Nat /\ queue[1].depth \in Nat /\ queue[1].depth <= queue'[1].depth
      BY <1>2, <1>6, <1>8, <2>1, <3>1
    <3>3. queue'[k].depth <= depth /\ queue'[k].depth \in Nat
      BY <1>2, <1>6, <1>8, <2>1
    <3> QED
      BY <1>2, <3>2, <3>3
  <2> QED
    BY <2>2, <2>3 DEF LevelsFollow
<1>10. ASSUME NEW i \in DOMAIN order
       PROVE  /\ order[i] \notin initialized'
              /\ Seen(order[i]) => explored[order[i]].lastSeenDepth # depth
  BY <1>3 DEF Turn, Queueing, Ready
<1>11. ASSUME NEW m \in Node
       PROVE  \/ \E i \in DOMAIN order : m = order[i] /\ explored'[m] = Explored(m, depth)
              \/ explored'[m] = explored[m]
  BY <1>3, <1>11 DEF Turn
<1>12. Explored(n, depth).lastSeenDepth = depth /\ \A m : Explored(m, depth) =
         [remainingLoop |-> IF Seen(m) THEN explored[m].remainingLoop - 1 ELSE MaxLoop,
          lastSeenDepth |-> depth]
  BY DEF Explored
<1>13. ASSUME NEW i \in DOMAIN queue, queue[i].node \notin initialized'
       PROVE  /\ i - 1 \in DOMAIN queue' /\ queue'[i - 1] = queue[i]
              /\ queue[i].depth = queue[1].depth => queue'[1].depth = queue[1].depth
  <2>1. i # 1
    BY <1>2, <1>13
  <2>2. i - 1 \in DOMAIN queue' /\ queue'[i - 1] = queue[i]
    BY <1>3, <2>1 DEF Turn, NoneLost
  <2>3. 1 \in DOMAIN queue' /\ 2 \in DOMAIN queue /\ queue'[1].depth = queue[2].depth
    <3>1. 2 \in DOMAIN queue /\ 2 # 1 /\ 2 - 1 = 1
      BY <1>4, <2>1
    <3> QED
      BY <1>3, <3>1 DEF Turn, NoneLost
  <2>4. queue[1].depth <= queue[2].depth /\ queue[2].depth <= queue[i].depth
    BY <1>1, <1>2, <1>4, <1>6, <2>1, <2>3 DEF LevelsFollow
  <2> QED
    BY <1>2, <1>6, <2>2, <2>3, <2>4
<1>14. ASSUME NEW m \in Node, explored'[m] # None
       PROVE  /\ explored'[m].remainingLoop \in {MaxLoop, MaxLoop - 1}
              /\ m \notin initialized' => \E k \in DOMAIN queue' : WaitsAt(m, k)'
  <2>1. CASE explored'[m] = explored[m]
    <3>1. Seen(m) /\ explored[m].remainingLoop \in {MaxLoop, MaxLoop - 1}
      BY <1>1, <1>14, <2>1 DEF Seen, QueuedTwice
    <3>2. ASSUME m \notin initialized' PROVE \E k \in DOMAIN queue' : WaitsAt(m, k)'
      <4>1. PICK i \in DOMAIN queue : WaitsAt(m, i)
        BY <1>1, <1>2, <3>1, <3>2 DEF QueuedTwice
      <4>2. queue[i].node \notin initialized'
        BY <3>2, <4>1 DEF WaitsAt
      <4>3. WaitsAt(m, i - 1)'
        BY <1>13, <2>1, <4>1, <4>2 DEF WaitsAt
      <4> QED
        BY <1>13, <4>2, <4>3
    <3> QED
      BY <2>1, <3>1, <3>2
  <2>2. CASE \E i \in DOMAIN order : m = order[i] /\ explored'[m] = Explored(m, depth) /\ ~Seen(m)
    <3>1. PICK i \in DOMAIN order : m = order[i] /\ explored'[m] = Explored(m, depth)
      BY <2>2
    <3>2. explored'[m].remainingLoop = MaxLoop /\ explored'[m].lastSeenDepth = depth
      BY <1>12, <2>2, <3>1
    <3>3. PICK k \in DOMAIN queue' : queue'[k] = [node |-> m, depth |-> depth]
      BY <1>3, <3>1 DEF Turn, NoneLost
    <3>4. WaitsAt(m, k)'
      BY <3>2, <3>3 DEF WaitsAt
    <3> QED
      BY <3>2, <3>4
  <2>3. CASE \E i \in DOMAIN order : m = order[i] /\ explored'[m] = Explored(m, depth) /\ Seen(m)
    <3>1. /\ m \notin initialized' /\ explored'[m] = Explored(m, depth)
          /\ explored[m].lastSeenDepth # depth
      BY <1>10, <2>3
    <3>2. PICK i \in DOMAIN queue : WaitsAt(m, i)
      BY <1>1, <1>2, <2>3, <3>1 DEF QueuedTwice
    <3>3. /\ queue[i].depth \in Nat /\ queue[1].depth \in Nat
          /\ queue[1].depth <= queue[i].depth /\ queue[i].depth <= queue[1].depth + 1
      BY <1>1, <1>2, <1>4, <1>6 DEF LevelsFollow
    <3>4. explored[m].remainingLoop = MaxLoop /\ queue[i].depth = queue[1].depth
      BY <1>2, <3>1, <3>2, <3>3 DEF WaitsAt
    <3>5. explored'[m].remainingLoop = MaxLoop - 1 /\ explored'[m].lastSeenDepth = queue[i].depth + 1
      <4>1. Seen(m) /\ depth = queue[i].depth + 1
        BY <1>2, <2>3, <3>4
      <4>2. Explored(m, depth) = [remainingLoop |-> explored[m].remainingLoop - 1,
                                  lastSeenDepth |-> depth]
        BY <4>1 DEF Explored
      <4> QED
        BY <3>1, <3>4, <4>1, <4>2
    <3>6. queue[i].node \notin initialized' /\ queue[i].node = m
      BY <3>1, <3>2 DEF WaitsAt
    <3>7. WaitsAt(m, i - 1)'
      BY <1>13, <3>4, <3>5, <3>6 DEF WaitsAt
    <3> QED
      BY <1>13, <3>5, <3>6, <3>7
  <2> QED
    BY <1>11, <2>1, <2>2, <2>3
<1>15. ASSUME NEW k \in DOMAIN queue' PROVE explored'[queue'[k].node] # None
  <2>1. ASSUME NEW i \in DOMAIN order PROVE explored'[order[i]] # None
    <3>1. Seen(order[i]) => explored[order[i]].remainingLoop # 0
      BY <1>3 DEF Turn, Queueing
    <3>2. Explored(order[i], depth) # None
      BY <1>1, <1>2, <1>4, <3>1, ExploredIs
    <3>3. explored'[order[i]] = Explored(order[i], depth)
      BY <1>3, <1>4 DEF Turn
    <3> QED
      BY <3>2, <3>3
  <2>2. \A m \in Node : Seen(m) => explored'[m] # None
    BY <1>3, <2>1 DEF Turn, Seen
  <2> QED
    BY <1>1, <1>6, <1>7, <2>1, <2>2 DEF QueuedTwice
<1>16. QueuedTwice'
  BY <1>14, <1>15 DEF QueuedTwice, Seen
<1> QED
  BY <1>9, <1>16 DEF EInv

\* Every step keeps it.
LEMMA NextQueues == ASSUME MaxLoop > 1 PROVE IInv /\ EInv /\ [Next]_vars => EInv'
<1> SUFFICES ASSUME IInv, EInv, [Next]_vars PROVE EInv'
  OBVIOUS
<1>1. CASE Initialize
  BY <1>1, TurnQueues
<1>2. CASE Upsert \/ NodeThrows \/ Finish \/ UNCHANGED vars
  <2>1. UNCHANGED <<queue, explored, initialized>>
    BY <1>2 DEF Upsert, NodeThrows, Finish, vars, progress
  <2> QED
    BY <2>1 DEF EInv, LevelsFollow, QueuedTwice, WaitsAt, Seen
<1> QED
  BY <1>1, <1>2 DEF Next

--------------------------------------------------------------------------------
\* Which levels are done

\* The level that queued a node first: it may have been queued once more, by the next one.
QueuedAt(m) == explored[m].lastSeenDepth + explored[m].remainingLoop - MaxLoop

\* The same after a step.
SeenNext(m)     == explored'[m] # None
QueuedAtNext(m) == explored'[m].lastSeenDepth + explored'[m].remainingLoop - MaxLoop

\* Level t is being queued.  What is initialised was queued by a level before, and what could
\* have been queued, by its depth and its inputs, is.
LevelReached(t) ==
  /\ \A i \in DOMAIN queue : queue[i].depth <= t /\ t <= queue[i].depth + 1
  /\ \A m \in initialized : Seen(m) /\ QueuedAt(m) < t
  /\ \A m \in DOMAIN depthQueue \ (initialized \cup ignored) :
       Predecessors(flow.edges, m) \subseteq initialized /\ depthQueue[m] <= t => IsQueued(m)

InputsQueuedBefore ==
  /\ \A edge \in flow.edges : Seen(edge[2]) => Seen(edge[1]) /\ QueuedAt(edge[1]) < QueuedAt(edge[2])
  /\ \A i \in DOMAIN queue : QueuedAt(queue[i].node) <= queue[i].depth
  /\ \A m \in Node : Seen(m) => QueuedAt(m) \in Nat

\* An upsert queues by levels only, an answer also along the edges.
NextIsQueued ==
  IF flow.upsert
  THEN \A i \in DOMAIN queue : /\ queue[i].node \in DOMAIN depthQueue
                              /\ depthQueue[queue[i].node] = queue[i].depth
  ELSE \A n \in Node : Successors(flow.edges, n) \subseteq graph[n]

\* The ifElse node rules out one component of what is left of the flow.
IgnoredIsApart ==
  \/ ignored = {}
  \/ /\ flow.chooser \in initialized /\ flow.refused # {}
     /\ ignored = Connected(Uncut, flow.first)

LInv ==
  /\ \E t \in Nat : LevelReached(t)
  /\ InputsQueuedBefore
  /\ NextIsQueued
  /\ IgnoredIsApart
  /\ depthQueue = DepthQueue(flow.edges, flow.ends)
  /\ pc = "built" => queue = <<>>

\* At first level 0 is being queued.
LEMMA InitLevels == Init => LInv
<1> SUFFICES ASSUME Init PROVE LInv
  OBVIOUS
<1>1. PICK edges \in SUBSET Upwards, upsert \in BOOLEAN, chooser \in Node \cup {None} :
        \E ends \in Ends(edges, upsert),
           refused \in IF chooser = None THEN {{}} ELSE (SUBSET Successors(edges, chooser)) \ {{}} :
        \E first \in IF refused = {} THEN {None} ELSE refused :
          /\ flow = [edges |-> edges, chooser |-> chooser, refused |-> refused, first |-> first,
                     upsert |-> upsert, ends |-> ends]
          /\ depthQueue = DepthQueue(edges, ends)
          /\ graph = [n \in Node |-> IF upsert THEN Predecessors(edges, n) ELSE Successors(edges, n)]
          /\ \E order \in Orders(StartingNodes(edges, ends)) :
               LET starts == {order[i] : i \in DOMAIN order} IN
               /\ queue = [i \in DOMAIN order |-> [node |-> order[i], depth |-> 0]]
               /\ explored = [n \in Node |-> IF n \in starts
                                             THEN [remainingLoop |-> MaxLoop, lastSeenDepth |-> 0]
                                             ELSE None]
  BY DEF Init
<1>2. /\ flow.edges = edges /\ flow.upsert = upsert /\ depthQueue = DepthQueue(edges, flow.ends)
      /\ graph = [n \in Node |-> IF upsert THEN Predecessors(edges, n) ELSE Successors(edges, n)]
      /\ \E order \in Orders(StartingNodes(edges, flow.ends)) :
           LET starts == {order[i] : i \in DOMAIN order} IN
           /\ queue = [i \in DOMAIN order |-> [node |-> order[i], depth |-> 0]]
           /\ explored = [n \in Node |-> IF n \in starts
                                         THEN [remainingLoop |-> MaxLoop, lastSeenDepth |-> 0]
                                         ELSE None]
  BY <1>1
<1> DEFINE starts == StartingNodes(edges, flow.ends)
<1>3. PICK order \in Orders(starts) :
        /\ queue = [i \in DOMAIN order |-> [node |-> order[i], depth |-> 0]]
        /\ explored = [n \in Node |-> IF n \in {order[i] : i \in DOMAIN order}
                                      THEN [remainingLoop |-> MaxLoop, lastSeenDepth |-> 0]
                                      ELSE None]
  BY <1>2
<1>4. TypeOK /\ FlowsFit
  BY InitHolds DEF IInv
<1>5. flow.ends \in Seq(Node) /\ (flow.upsert => Len(flow.ends) = 1)
  BY <1>4 DEF TypeOK, FlowsFit
<1>6. /\ starts \in SUBSET Node /\ DOMAIN depthQueue \subseteq Node
      /\ depthQueue \in [DOMAIN depthQueue -> 0..Size]
      /\ \A n \in starts : Predecessors(edges, n) = {}
      /\ upsert => \A n \in starts : n \in DOMAIN depthQueue /\ depthQueue[n] = 0
      /\ \A n \in DOMAIN depthQueue : depthQueue[n] = 0 => n \in starts
  BY <1>2, <1>5, DepthQueueIs
<1> HIDE DEF starts
<1>7. /\ \A i \in DOMAIN order : order[i] \in starts
      /\ \A m \in starts : \E i \in DOMAIN order : order[i] = m
  BY <1>6, OrdersAre DEF Orders
<1>8. /\ DOMAIN queue = DOMAIN order
      /\ \A i \in DOMAIN queue : queue[i].node = order[i] /\ queue[i].depth = 0
  BY <1>3
<1>9. pc = "building" /\ initialized = {} /\ ignored = {}
  BY DEF Init
<1>10. LevelReached(0)
  BY <1>6, <1>7, <1>8, <1>9 DEF LevelReached, IsQueued
<1>11. \A n \in Node : Seen(n) => n \in starts
  BY <1>3, <1>7 DEF Seen
<1>12. ASSUME NEW n \in starts PROVE Seen(n) /\ QueuedAt(n) = 0
  <2>1. explored[n] = [remainingLoop |-> MaxLoop, lastSeenDepth |-> 0]
    BY <1>3, <1>6, <1>7
  <2>2. [remainingLoop |-> MaxLoop, lastSeenDepth |-> 0] # None
    BY BuildAssumption
  <2> QED
    BY <2>1, <2>2, BuildAssumption DEF Seen, QueuedAt
<1>13. InputsQueuedBefore
  <2>1. ASSUME NEW edge \in edges PROVE edge[2] \in Node /\ edge[2] \notin starts
    <3>1. edge[1] \in Predecessors(edges, edge[2]) /\ edge[2] \in Node
      BY DEF Upwards, Predecessors
    <3> QED
      BY <1>6, <3>1
  <2>2. \A i \in DOMAIN queue : QueuedAt(queue[i].node) <= queue[i].depth
    BY <1>7, <1>8, <1>12
  <2> QED
    BY <1>2, <1>11, <1>12, <2>1, <2>2 DEF InputsQueuedBefore
<1>14. NextIsQueued
  BY <1>2, <1>6, <1>7, <1>8 DEF NextIsQueued
<1> QED
  BY <1>2, <1>9, <1>10, <1>13, <1>14 DEF LInv, IgnoredIsApart

\* A turn changes when a node was queued only for nodes it queues first, whose inputs are there.
LEMMA TurnDates ==
  ASSUME IInv, EInv, MaxLoop > 1, Initialize, NEW m \in Node
  PROVE  /\ Seen(m) => SeenNext(m) /\ QueuedAtNext(m) = QueuedAt(m)
         /\ ~Seen(m) /\ SeenNext(m) => /\ QueuedAtNext(m) = Head(queue).depth + 1
                                       /\ Predecessors(flow.edges, m) \subseteq initialized'
<1> DEFINE n == Current
           depth == Head(queue).depth + 1
<1>1. TypeOK /\ LevelsFollow /\ QueuedTwice
  BY DEF IInv, EInv
<1>2. /\ n \in Node /\ depth \in 1..Size /\ depth \in 0..Size /\ depth = queue[1].depth + 1
      /\ 1 \in DOMAIN queue /\ queue[1].node = n /\ initialized' = initialized \cup {n}
  BY TurnFacts
<1>3. PICK order : Turn(order, n, depth)
  BY <1>1, <1>2, TurnIs
<1>depth. Head(queue).depth + 1 = depth
  OBVIOUS
<1> HIDE DEF n, depth
<1>4. \/ \E i \in DOMAIN order : m = order[i] /\ explored'[m] = Explored(m, depth)
      \/ explored'[m] = explored[m]
  BY <1>3 DEF Turn
<1>5. CASE explored'[m] = explored[m]
  BY <1>5 DEF Seen, QueuedAt, SeenNext, QueuedAtNext
<1>6. CASE \E i \in DOMAIN order : m = order[i] /\ explored'[m] = Explored(m, depth)
  <2>1. /\ m \notin initialized' /\ explored'[m] = Explored(m, depth)
        /\ Predecessors(flow.edges, m) \subseteq initialized'
        /\ Seen(m) => explored[m].lastSeenDepth # depth /\ explored[m].remainingLoop # 0
    BY <1>3, <1>6 DEF Turn, Queueing, Ready
  <2>2. explored'[m] # None
    BY <1>1, <1>2, <2>1, ExploredIs
  <2>3. CASE ~Seen(m)
    <3>1. explored'[m].remainingLoop = MaxLoop /\ explored'[m].lastSeenDepth = depth
      BY <2>1, <2>3 DEF Explored
    <3> QED
      BY <1>2, <1>depth, <2>1, <2>3, <3>1, BuildAssumption DEF QueuedAtNext
  <2>4. CASE Seen(m)
    <3>1. explored'[m].remainingLoop = explored[m].remainingLoop - 1 /\ explored'[m].lastSeenDepth = depth
      BY <2>1, <2>4 DEF Explored
    <3>2. PICK i \in DOMAIN queue : WaitsAt(m, i)
      BY <1>1, <1>2, <2>1, <2>4 DEF QueuedTwice
    <3>3. /\ queue[i].depth \in Nat /\ queue[1].depth \in Nat
          /\ queue[1].depth <= queue[i].depth /\ queue[i].depth <= queue[1].depth + 1
      <4>1. DOMAIN queue = 1..Len(queue) /\ Len(queue) \in Nat
        BY <1>1, Elements DEF TypeOK
      <4>2. \A j \in DOMAIN queue : queue[j].depth \in Nat
        BY <1>1, Types
      <4> QED
        BY <1>1, <1>2, <4>1, <4>2 DEF LevelsFollow
    <3>4. explored[m].remainingLoop = MaxLoop /\ explored[m].lastSeenDepth + 1 = depth
      BY <1>2, <2>1, <2>4, <3>2, <3>3 DEF WaitsAt
    <3>5. explored[m].lastSeenDepth \in Nat
      BY <1>1, <2>4 DEF TypeOK, Seen
    <3>6. QueuedAtNext(m) = QueuedAt(m)
      BY <3>1, <3>4, <3>5, BuildAssumption DEF QueuedAt, QueuedAtNext
    <3> QED
      BY <2>2, <2>4, <3>6 DEF SeenNext
  <2> QED
    BY <2>3, <2>4
<1> QED
  BY <1>4, <1>5, <1>6

\* A node that waits still does, and so does what the turn is near to when its inputs are there.
LEMMA TurnWaits ==
  ASSUME IInv, EInv, MaxLoop > 1, Initialize, NEW m \in Node \ initialized'
  PROVE  /\ IsQueued(m) => IsQueued(m)'
         /\ /\ m \in graph[Current] \cup SameDepth(Head(queue).depth + 1)
            /\ m \notin ignored' /\ Predecessors(flow.edges, m) \subseteq initialized'
            => IsQueued(m)'
<1> DEFINE n == Current
           depth == Head(queue).depth + 1
<1>1. TypeOK /\ LevelsFollow /\ QueuedTwice
  BY DEF IInv, EInv
<1>2. /\ n \in Node /\ depth \in 1..Size /\ depth \in 0..Size
      /\ 1 \in DOMAIN queue /\ queue[1].node = n /\ initialized' = initialized \cup {n}
  BY TurnFacts
<1>3. PICK order : Turn(order, n, depth)
  BY <1>1, <1>2, TurnIs
<1> DEFINE near == graph[n] \cup SameDepth(depth)
<1>near. graph[Current] \cup SameDepth(Head(queue).depth + 1) = near
  OBVIOUS
<1>4. near \subseteq Node
  BY <1>1, <1>2 DEF TypeOK, SameDepth
<1> HIDE DEF n, depth
<1>5. IsQueued(m) => IsQueued(m)'
  BY <1>2, <1>3 DEF Turn, NoneLost, IsQueued
<1>6. ASSUME m \in near, m \notin ignored', Predecessors(flow.edges, m) \subseteq initialized'
      PROVE  IsQueued(m)'
  <2>1. CASE Seen(m)
    <3>1. IsQueued(m)
      BY <1>1, <1>2, <2>1 DEF QueuedTwice, WaitsAt, IsQueued
    <3> QED
      BY <1>5, <3>1
  <2>2. CASE ~Seen(m)
    <3>1. Ready(m, initialized', depth) /\ m \in near \ ignored'
      BY <1>6, <2>2 DEF Ready
    <3>2. ASSUME NEW l \in near PROVE ~Exhausted(l)
      <4>1. Seen(l) => explored[l].remainingLoop \in {MaxLoop, MaxLoop - 1}
        BY <1>1, <1>4 DEF QueuedTwice
      <4> QED
        BY <4>1, BuildAssumption DEF Exhausted
    <3>3. Queueing(order, near \ ignored', depth, initialized')
      BY <1>3 DEF Turn
    <3> HIDE DEF near
    <3>4. PICK i \in DOMAIN order : order[i] = m
      BY <3>1, <3>2, <3>3 DEF Queueing
    <3>5. \E k \in DOMAIN queue' : queue'[k] = [node |-> m, depth |-> depth]
      BY <1>3, <3>4 DEF Turn, NoneLost
    <3> QED
      BY <3>5 DEF IsQueued
  <2> QED
    BY <2>1, <2>2
<1> QED
  BY <1>5, <1>6, <1>near

\* A turn of the level that is being queued, or the first turn of the next one.
LEMMA TurnReaches ==
  ASSUME IInv, EInv, LInv, MaxLoop > 1, Initialize
  PROVE  (\E t \in Nat : LevelReached(t)') /\ InputsQueuedBefore'
<1> DEFINE n == Current
           depth == Head(queue).depth + 1
<1>1. /\ TypeOK /\ LevelsFollow /\ QueuedTwice /\ QueuedIsReady /\ InputsQueuedBefore /\ NextIsQueued
      /\ depthQueue = DepthQueue(flow.edges, flow.ends)
  BY DEF IInv, EInv, LInv
<1>2. /\ n \in Node /\ depth \in 1..Size /\ depth \in 0..Size /\ depth = queue[1].depth + 1
      /\ 1 \in DOMAIN queue /\ queue[1].node = n /\ initialized' = initialized \cup {n}
      /\ UNCHANGED <<flow, depthQueue>>
  BY TurnFacts
<1>3. PICK t \in Nat : LevelReached(t)
  BY DEF LInv
<1>4. PICK order : Turn(order, n, depth)
  BY <1>1, <1>2, TurnIs
<1>5. ASSUME NEW m \in Node
      PROVE  /\ Seen(m) => SeenNext(m) /\ QueuedAtNext(m) = QueuedAt(m)
             /\ ~Seen(m) /\ SeenNext(m) => /\ QueuedAtNext(m) = depth
                                           /\ Predecessors(flow.edges, m) \subseteq initialized'
  BY TurnDates
<1>6. \A m \in Node \ initialized' :
        /\ IsQueued(m) => IsQueued(m)'
        /\ /\ m \in graph[n] \cup SameDepth(depth)
           /\ m \notin ignored' /\ Predecessors(flow.edges, m) \subseteq initialized'
           => IsQueued(m)'
  BY TurnWaits
<1>7. ignored \subseteq ignored'
  BY <1>1, <1>2, IgnoreIs DEF Initialize, IInv
<1> HIDE DEF n, depth
<1>8. /\ initialized \subseteq Node /\ DOMAIN depthQueue \subseteq Node
      /\ depthQueue \in [DOMAIN depthQueue -> 0..Size]
      /\ flow.edges \in SUBSET Upwards /\ flow.ends \in Seq(Node)
      /\ \A i \in DOMAIN queue : queue[i].node \in Node /\ queue[i].depth \in Nat
      /\ \A m \in Node : Seen(m) => QueuedAt(m) \in Int
  <2>1. ASSUME NEW m \in Node, Seen(m) PROVE QueuedAt(m) \in Int
    <3>1. explored[m].remainingLoop \in Nat /\ explored[m].lastSeenDepth \in Nat
      BY <1>1, <2>1 DEF TypeOK, Seen
    <3> QED
      BY <3>1, BuildAssumption DEF QueuedAt
  <2>2. DOMAIN depthQueue \subseteq Node /\ depthQueue \in [DOMAIN depthQueue -> 0..Size]
    BY <1>1 DEF TypeOK
  <2> QED
    BY <1>1, <2>1, <2>2, Types
<1>same. ASSUME NEW m \in Node, Seen(m)
         PROVE  SeenNext(m) /\ QueuedAt(m) \in Int /\ QueuedAtNext(m) = QueuedAt(m)
  <2>1. SeenNext(m) /\ QueuedAtNext(m) = QueuedAt(m)
    BY <1>same, <1>5
  <2>2. QueuedAt(m) \in Int
    BY <1>same, <1>8
  <2> QED
    BY <2>1, <2>2
<1>9. ASSUME NEW k \in DOMAIN queue'
      PROVE  \/ \E i \in DOMAIN queue : queue'[k] = queue[i]
             \/ \E i \in DOMAIN order : order[i] \in Node /\ queue'[k] = [node |-> order[i], depth |-> depth]
  <2>1. order \in Seq(Node)
    BY <1>4 DEF Turn, Queueing
  <2>2. \A i \in DOMAIN order : order[i] \in Node
    BY <2>1
  <2> QED
    BY <1>4, <2>2 DEF Turn
<1>10. \A k \in DOMAIN queue' : queue'[k].depth <= depth /\ depth <= queue'[k].depth + 1
  <2>1. \A i \in DOMAIN queue : queue[1].depth <= queue[i].depth /\ queue[i].depth <= depth
    <3>1. DOMAIN queue = 1..Len(queue) /\ Len(queue) \in Nat
      BY <1>1, Elements DEF TypeOK
    <3> QED
      BY <1>1, <1>2, <1>8, <3>1 DEF LevelsFollow
  <2> QED
    BY <1>2, <1>8, <1>9, <2>1
<1>11. \A m \in initialized' : SeenNext(m) /\ QueuedAtNext(m) < depth
  <2>1. \A m \in initialized : Seen(m) /\ QueuedAt(m) < t
    BY <1>3 DEF LevelReached
  <2>2. t <= depth
    BY <1>2, <1>3 DEF LevelReached
  <2>3. \A m \in initialized : QueuedAt(m) < depth
    BY <1>2, <1>8, <2>1, <2>2
  <2>4. Seen(n) /\ QueuedAt(n) <= queue[1].depth
    BY <1>1, <1>2 DEF QueuedTwice, InputsQueuedBefore
  <2>5. QueuedAt(n) < depth
    BY <1>2, <1>8, <2>4
  <2>6. \A m \in initialized' : m \in Node /\ Seen(m) /\ QueuedAt(m) < depth
    BY <1>2, <1>8, <2>1, <2>3, <2>4, <2>5
  <2> QED
    BY <1>same, <2>6
<1>12. ASSUME NEW m \in DOMAIN depthQueue, m \notin initialized', m \notin ignored',
              Predecessors(flow.edges, m) \subseteq initialized', depthQueue[m] <= depth
       PROVE  IsQueued(m)'
  <2>1. m \in Node /\ m \notin initialized /\ m \notin ignored
    BY <1>2, <1>7, <1>8, <1>12
  <2>2. CASE depthQueue[m] = depth
    <3>1. m \in SameDepth(depth)
      BY <2>2 DEF SameDepth
    <3> QED
      BY <1>6, <1>12, <2>1, <3>1
  <2>3. CASE depthQueue[m] # depth /\ n \in Predecessors(flow.edges, m)
    <3>1. CASE ~flow.upsert
      <4>1. m \in graph[n]
        BY <1>1, <1>2, <2>1, <2>3, <3>1 DEF NextIsQueued, Predecessors, Successors
      <4> QED
        BY <1>6, <1>12, <2>1, <4>1
    <3>2. CASE flow.upsert
      <4>1. n \in DOMAIN depthQueue /\ depthQueue[n] = queue[1].depth
        BY <1>1, <1>2, <3>2 DEF NextIsQueued
      <4>2. DOMAIN flow.ends = {1}
        <5>1. Len(flow.ends) = 1
          BY <3>2 DEF IInv, FlowsFit
        <5> QED
          BY <1>8, <5>1
      <4>3. CountedFrom(flow.edges, flow.ends, m, 1) /\ CountedFrom(flow.edges, flow.ends, n, 1)
        <5>1. \A l \in DOMAIN depthQueue : \E i : CountedFrom(flow.edges, flow.ends, l, i)
          BY <1>1, <1>8, DepthQueueIs
        <5>2. \A l, i : CountedFrom(flow.edges, flow.ends, l, i) => i = 1
          BY <4>2 DEF CountedFrom
        <5> QED
          BY <4>1, <5>1, <5>2, <1>12
      <4>4. flow.ends[1] \in Node
        BY <1>8, <4>2
      <4>5. Depths(flow.edges, flow.ends[1])[n] < Depths(flow.edges, flow.ends[1])[m]
        BY <1>8, <2>3, <4>3, <4>4, DepthsAre DEF CountedFrom
      <4>6. depthQueue[n] < depthQueue[m]
        BY <1>1, <4>3, <4>5 DEF CountedFrom
      <4>7. depthQueue[m] \in Nat /\ queue[1].depth \in Nat
        BY <1>2, <1>8
      <4> QED
        BY <1>2, <1>12, <2>3, <4>1, <4>6, <4>7
    <3> QED
      BY <3>1, <3>2
  <2>4. CASE depthQueue[m] # depth /\ n \notin Predecessors(flow.edges, m)
    <3>1. Predecessors(flow.edges, m) \subseteq initialized
      BY <1>2, <1>12, <2>4
    <3>2. depthQueue[m] <= t
      <4>1. depthQueue[m] \in Nat /\ depthQueue[m] < depth /\ queue[1].depth <= t /\ queue[1].depth \in Nat
        BY <1>2, <1>3, <1>8, <1>12, <2>4 DEF LevelReached
      <4> QED
        BY <1>2, <4>1
    <3>3. IsQueued(m)
      BY <1>3, <1>12, <2>1, <3>1, <3>2 DEF LevelReached
    <3> QED
      BY <1>6, <1>12, <2>1, <3>3
  <2> QED
    BY <2>2, <2>3, <2>4
<1>13. \E l \in Nat : LevelReached(l)'
  <2>1. PICK l \in Nat : l = depth
    BY <1>2
  <2>2. /\ \A k \in DOMAIN queue' : queue'[k].depth <= l /\ l <= queue'[k].depth + 1
        /\ \A m \in initialized' : Seen(m)' /\ QueuedAt(m)' < l
        /\ \A m \in DOMAIN depthQueue \ (initialized' \cup ignored') :
             Predecessors(flow.edges, m) \subseteq initialized' /\ depthQueue[m] <= l => IsQueued(m)'
    BY <1>10, <1>11, <1>12, <2>1 DEF Seen, QueuedAt, SeenNext, QueuedAtNext
  <2>3. LevelReached(l)'
    BY <1>2, <2>2 DEF LevelReached
  <2> QED
    BY <2>3
<1>14. ASSUME NEW edge \in flow.edges, SeenNext(edge[2])
       PROVE  SeenNext(edge[1]) /\ QueuedAtNext(edge[1]) < QueuedAtNext(edge[2])
  <2>1. edge[1] \in Node /\ edge[2] \in Node /\ edge[1] \in Predecessors(flow.edges, edge[2])
    BY <1>8 DEF Upwards, Predecessors
  <2>2. CASE Seen(edge[2])
    <3>1. Seen(edge[1]) /\ QueuedAt(edge[1]) < QueuedAt(edge[2])
      BY <1>1, <2>2 DEF InputsQueuedBefore
    <3> QED
      BY <1>same, <2>1, <2>2, <3>1
  <2>3. CASE ~Seen(edge[2])
    <3>1. QueuedAtNext(edge[2]) = depth /\ edge[1] \in initialized'
      BY <1>5, <1>14, <2>1, <2>3
    <3> QED
      BY <1>11, <3>1
  <2> QED
    BY <2>2, <2>3
<1>15. ASSUME NEW k \in DOMAIN queue' PROVE QueuedAtNext(queue'[k].node) <= queue'[k].depth
  <2>1. CASE \E i \in DOMAIN queue : queue'[k] = queue[i]
    <3>1. PICK i \in DOMAIN queue : queue'[k] = queue[i]
      BY <2>1
    <3>2. Seen(queue[i].node) /\ QueuedAt(queue[i].node) <= queue[i].depth /\ queue[i].node \in Node
      BY <1>1, <1>8 DEF QueuedTwice, InputsQueuedBefore
    <3> QED
      BY <1>same, <3>1, <3>2
  <2>2. CASE \E i \in DOMAIN order : order[i] \in Node /\ queue'[k] = [node |-> order[i], depth |-> depth]
    <3>1. PICK i \in DOMAIN order : order[i] \in Node /\ queue'[k] = [node |-> order[i], depth |-> depth]
      BY <2>2
    <3>2. CASE Seen(order[i])
      <4>1. PICK j \in DOMAIN queue : queue[j].node = order[i]
        <5>1. order[i] \notin initialized
          BY <1>2, <1>4 DEF Turn, Queueing, Ready
        <5> QED
          BY <1>1, <3>1, <3>2, <5>1 DEF QueuedTwice, WaitsAt
      <4>2. QueuedAt(order[i]) <= queue[j].depth
        BY <1>1, <4>1 DEF InputsQueuedBefore
      <4>3. queue[j].depth <= depth
        <5>1. queue[j].depth <= queue[1].depth + 1
          BY <1>1 DEF LevelsFollow
        <5> QED
          BY <1>2, <5>1
      <4>4. QueuedAt(order[i]) <= depth
        BY <1>2, <1>8, <3>1, <3>2, <4>1, <4>2, <4>3
      <4> QED
        BY <1>same, <3>1, <3>2, <4>4
    <3>3. CASE ~Seen(order[i])
      <4>1. SeenNext(order[i])
        <5>1. Explored(order[i], depth) # None
          BY <1>1, <1>2, <3>1, <3>3, ExploredIs
        <5>2. explored'[order[i]] = Explored(order[i], depth)
          BY <1>4, <3>1 DEF Turn
        <5> QED
          BY <5>1, <5>2 DEF SeenNext
      <4>2. QueuedAtNext(order[i]) = depth
        BY <1>5, <3>1, <3>3, <4>1
      <4> QED
        BY <1>2, <3>1, <4>2
    <3> QED
      BY <3>2, <3>3
  <2> QED
    BY <1>9, <2>1, <2>2
<1>dated. ASSUME NEW m \in Node, SeenNext(m) PROVE QueuedAtNext(m) \in Nat
  <2>1. Seen(m) => QueuedAt(m) \in Nat
    BY <1>1 DEF InputsQueuedBefore
  <2> QED
    BY <1>2, <1>5, <1>same, <1>dated, <2>1
<1>16. InputsQueuedBefore'
  BY <1>2, <1>14, <1>15, <1>dated DEF InputsQueuedBefore, Seen, QueuedAt, SeenNext, QueuedAtNext
<1> QED
  BY <1>13, <1>16

\* A turn of an upsert queues nodes of the level, one of an answer knows where its edges lead.
LEMMA TurnQueuesNext ==
  ASSUME IInv, EInv, LInv, Initialize
  PROVE  NextIsQueued' /\ IgnoredIsApart'
<1> DEFINE n == Current
           depth == Head(queue).depth + 1
<1>1. TypeOK /\ QueuedIsReady /\ LevelsQueueOnce /\ NextIsQueued /\ IgnoredIsApart
  BY DEF IInv, LInv
<1>2. /\ n \in Node /\ depth \in 0..Size /\ pc = "building"
      /\ 1 \in DOMAIN queue /\ queue[1].node = n /\ initialized' = initialized \cup {n}
      /\ UNCHANGED <<flow, depthQueue>>
  BY TurnFacts
<1>3. PICK order : Turn(order, n, depth)
  BY <1>1, <1>2, TurnIs
<1>4. Ignore(n)
  BY DEF Initialize
<1> HIDE DEF n, depth
<1>5. IgnoredIsApart'
  <2>1. Uncut' = Uncut /\ flow' = flow
    BY <1>2 DEF Uncut
  <2>2. CASE n # flow.chooser \/ flow.refused = {}
    <3>1. ignored' = ignored
      BY <1>4, <2>2 DEF Ignore
    <3> QED
      BY <1>1, <1>2, <2>1, <3>1 DEF IgnoredIsApart
  <2>3. CASE ~(n # flow.chooser \/ flow.refused = {})
    <3>1. ignored' = ignored \cup Connected(Uncut, flow.first)
      BY <1>4, <2>3 DEF Ignore, FirstRefused
    <3>2. ignored' = Connected(Uncut, flow.first)
      BY <1>1, <3>1 DEF IgnoredIsApart
    <3> QED
      BY <1>2, <2>1, <2>3, <3>2 DEF IgnoredIsApart
  <2> QED
    BY <2>2, <2>3
<1>6. CASE ~flow.upsert
  <2>1. graph' = [graph EXCEPT ![n] = graph[n] \cup SameDepth(depth)] /\ graph \in [Node -> SUBSET Node]
    BY <1>1, <1>3 DEF Turn, TypeOK
  <2>2. \A m \in Node : graph[m] \subseteq graph'[m]
    BY <1>2, <2>1
  <2>3. \A m \in Node : Successors(flow.edges, m) \subseteq graph'[m]
    BY <1>1, <1>6, <2>2 DEF NextIsQueued
  <2> QED
    BY <1>2, <1>5, <1>6, <2>3 DEF NextIsQueued
<1>7. CASE flow.upsert
  <2>1. graph[n] \subseteq initialized
    <3>1. n \notin initialized
      BY <1>1, <1>2, <1>7 DEF LevelsQueueOnce
    <3>2. graph[n] \subseteq Predecessors(flow.edges, n)
      BY <1>1, <1>2, <1>7, <3>1 DEF LevelsQueueOnce
    <3> QED
      BY <1>1, <1>2, <3>2 DEF QueuedIsReady
  <2>2. ASSUME NEW i \in DOMAIN order
        PROVE  order[i] \in DOMAIN depthQueue /\ depthQueue[order[i]] = depth
    <3>1. order[i] \in graph[n] \cup SameDepth(depth) /\ order[i] \notin initialized
      BY <1>2, <1>3, <2>2 DEF Turn, Queueing, Ready
    <3> QED
      BY <2>1, <3>1 DEF SameDepth
  <2>3. ASSUME NEW k \in DOMAIN queue'
        PROVE  queue'[k].node \in DOMAIN depthQueue /\ depthQueue[queue'[k].node] = queue'[k].depth
    <3>1. \/ \E i \in DOMAIN queue : queue'[k] = queue[i]
          \/ \E i \in DOMAIN order : queue'[k] = [node |-> order[i], depth |-> depth]
      BY <1>3, <2>3 DEF Turn
    <3> QED
      BY <1>1, <1>7, <2>2, <3>1 DEF NextIsQueued
  <2> QED
    BY <1>2, <1>5, <1>7, <2>3 DEF NextIsQueued
<1> QED
  BY <1>6, <1>7

\* Every step keeps the invariant of levels.
LEMMA NextLevels == ASSUME MaxLoop > 1 PROVE IInv /\ EInv /\ LInv /\ [Next]_vars => LInv'
<1> SUFFICES ASSUME IInv, EInv, LInv, [Next]_vars PROVE LInv'
  OBVIOUS
<1>1. CASE Initialize
  <2>2. \E t \in Nat : LevelReached(t)'
    BY <1>1, TurnReaches
  <2>3. InputsQueuedBefore' /\ NextIsQueued' /\ IgnoredIsApart'
    BY <1>1, TurnReaches, TurnQueuesNext
  <2>4. UNCHANGED <<flow, depthQueue>> /\ pc' = "building"
    BY <1>1, TurnFacts
  <2> QED
    BY <2>2, <2>3, <2>4 DEF LInv
<1>2. CASE Upsert \/ NodeThrows \/ Finish \/ UNCHANGED vars
  <2>1. /\ UNCHANGED <<flow, depthQueue, graph, queue, explored, initialized, ignored>>
        /\ pc' = "built" => queue = <<>> \/ pc = "built"
    BY <1>2 DEF Upsert, NodeThrows, Finish, vars, progress
  <2>2. \A t : LevelReached(t) => LevelReached(t)'
    BY <2>1 DEF LevelReached, IsQueued, Seen, QueuedAt
  <2>3. InputsQueuedBefore'
    BY <2>1 DEF LInv, InputsQueuedBefore, Seen, QueuedAt
  <2>4. NextIsQueued' /\ IgnoredIsApart'
    BY <2>1 DEF LInv, NextIsQueued, IgnoredIsApart, Uncut
  <2> QED
    BY <2>1, <2>2, <2>3, <2>4 DEF LInv
<1> QED
  BY <1>1, <1>2 DEF Next

\* Whatever is closed under the edges to an end, and in front of it, is empty: its deepest node
\* would lead to a deeper one.
LEMMA NoneIsDeepest ==
  ASSUME NEW edges \in SUBSET Upwards, NEW end \in Node,
         NEW S \in SUBSET (DOMAIN Depths(edges, end) \ {end}),
         \A n \in S : \A m \in Successors(edges, n) \cap DOMAIN Depths(edges, end) : m \in S
  PROVE  S = {}
<1> DEFINE depths == Depths(edges, end)
           Far == {depths[n] : n \in S}
<1>1. /\ depths \in [DOMAIN depths -> 0..Size] /\ Size \in Nat
      /\ \A n \in DOMAIN depths \ {end} : \E m \in Successors(edges, n) :
           m \in DOMAIN depths /\ depths[m] = depths[n] + 1
  BY DepthsAre, BuildAssumption
<1> HIDE DEF depths
<1>2. SUFFICES ASSUME S # {} PROVE FALSE
  OBVIOUS
<1>3. Far \in SUBSET (0..Size) /\ Far # {}
  BY <1>1, <1>2 DEF depths
<1>4. PICK far \in Far : \A k \in Far : k <= far
  <2> HIDE DEF Far
  <2> QED
    BY <1>1, <1>3, GreatestOf
<1>5. PICK n \in S : depths[n] = far
  BY <1>4
<1>6. PICK m \in Successors(edges, n) : m \in DOMAIN depths /\ depths[m] = depths[n] + 1
  BY <1>1, <1>5 DEF depths
<1>7. m \in S
  BY <1>6 DEF depths
<1>8. depths[m] \in Far /\ depths[n] \in 0..Size
  BY <1>1, <1>7 DEF depths
<1> QED
  BY <1>4, <1>5, <1>6, <1>8

\* The nodes of an edge that is not cut are ruled out together.
LEMMA UncutTogether ==
  ASSUME IInv, LInv, NEW n \in Node, NEW m \in Node, <<n, m>> \in flow.edges,
         n # flow.chooser \/ n \notin initialized
  PROVE  n \in ignored <=> m \in ignored
<1>1. FlowsFit /\ IgnoredIsApart /\ flow.edges \in SUBSET Upwards
  BY Types DEF IInv, LInv
<1>2. CASE ignored = {}
  BY <1>2
<1>3. CASE ignored # {}
  <2>1. flow.chooser \in initialized /\ flow.refused # {} /\ ignored = Connected(Uncut, flow.first)
    BY <1>1, <1>3 DEF IgnoredIsApart
  <2>2. <<n, m>> \in Uncut /\ Uncut \in SUBSET Upwards
    BY <1>1, <2>1 DEF Uncut
  <2>3. flow.first \in Node
    BY <1>1, <2>1 DEF FlowsFit, Successors
  <2> DEFINE edge == <<n, m>>
  <2>4. edge[1] \in ignored <=> edge[2] \in ignored
    BY <2>1, <2>2, <2>3, ConnectedIs
  <2> QED
    BY <2>4
<1> QED
  BY <1>2, <1>3

\* Nodes that lead to one ending node and were not initialised are ruled out together: no edge
\* between them is cut, as the ifElse node that cuts edges was initialised.
LEMMA LeftTogether ==
  ASSUME IInv, LInv, NEW i \in DOMAIN flow.ends
  PROVE  \A n \in DOMAIN Depths(flow.edges, flow.ends[i]) \ initialized :
           n \in ignored <=> flow.ends[i] \in ignored
<1> DEFINE end == flow.ends[i]
           depths == Depths(flow.edges, end)
           Odd == {n \in DOMAIN depths \ initialized : ~(n \in ignored <=> end \in ignored)}
<1>1. flow.edges \in SUBSET Upwards /\ end \in Node /\ DependenciesFirst
  <2>1. flow.ends \in Seq(Node) /\ flow.edges \in SUBSET Upwards
    BY Types DEF IInv
  <2> QED
    BY <2>1 DEF IInv
<1>2. Odd \subseteq DOMAIN depths \ {end}
  OBVIOUS
<1> HIDE DEF end
<1>3. ASSUME NEW n \in Odd, NEW m \in Successors(flow.edges, n) \cap DOMAIN depths PROVE m \in Odd
  <2>1. DOMAIN depths \subseteq Node
    BY <1>1, DepthsAre
  <2>2. n \in Node /\ m \in Node /\ <<n, m>> \in flow.edges
    BY <1>3, <2>1 DEF Successors
  <2>3. n \in ignored <=> m \in ignored
    BY <1>3, <2>2, UncutTogether
  <2> DEFINE edge == <<n, m>>
  <2>4. edge[2] \in initialized => edge[1] \in initialized
    BY <1>1, <2>2 DEF DependenciesFirst
  <2> QED
    BY <1>3, <2>3, <2>4
<1>4. Odd = {}
  <2> HIDE DEF Odd
  <2> QED
    BY <1>1, <1>2, <1>3, NoneIsDeepest
<1> QED
  BY <1>4 DEF end

\* A way through depths 0 to t is queued level by level, its last node in level t or later.
LEMMA WayIsQueued ==
  ASSUME IInv, InputsQueuedBefore, NEW i \in DOMAIN flow.ends, NEW t \in Nat,
         t <= Depths(flow.edges, flow.ends[i])[flow.ends[i]],
         \A n \in DOMAIN Depths(flow.edges, flow.ends[i]) :
           Depths(flow.edges, flow.ends[i])[n] <= t => Seen(n)
  PROVE  \E n \in DOMAIN Depths(flow.edges, flow.ends[i]) :
           Depths(flow.edges, flow.ends[i])[n] = t /\ QueuedAt(n) >= t
<1> DEFINE end == flow.ends[i]
           depths == Depths(flow.edges, end)
           Way == {j \in 0..t : \E n \in DOMAIN depths : depths[n] = j /\ QueuedAt(n) >= j}
<1>1. flow.edges \in SUBSET Upwards /\ end \in Node
  <2>1. flow.ends \in Seq(Node) /\ flow.edges \in SUBSET Upwards
    BY Types DEF IInv
  <2> QED
    BY <2>1
<1>2. t <= depths[end] /\ \A n \in DOMAIN depths : depths[n] <= t => Seen(n)
  OBVIOUS
<1> HIDE DEF end
<1>3. /\ DOMAIN depths \subseteq Node /\ end \in DOMAIN depths
      /\ depths \in [DOMAIN depths -> 0..Size]
      /\ \E n \in DOMAIN depths : depths[n] = 0
      /\ \A n \in DOMAIN depths \ {end} : \E m \in Successors(flow.edges, n) :
           m \in DOMAIN depths /\ depths[m] = depths[n] + 1
  BY <1>1, DepthsAre
<1> HIDE DEF depths
<1>4. ASSUME NEW n \in DOMAIN depths, depths[n] <= t PROVE Seen(n) /\ QueuedAt(n) \in Nat
  BY <1>2, <1>3, <1>4 DEF InputsQueuedBefore
<1>5. 0 \in Way
  <2>1. PICK n \in DOMAIN depths : depths[n] = 0
    BY <1>3
  <2>2. QueuedAt(n) \in Nat
    BY <1>4, <2>1
  <2> QED
    BY <2>1, <2>2
<1>6. ASSUME NEW j \in 1..t, j - 1 \in Way PROVE j \in Way
  <2>1. PICK n \in DOMAIN depths : depths[n] = j - 1 /\ QueuedAt(n) >= j - 1
    BY <1>6
  <2>2. n # end
    <3>1. depths[end] \in Nat
      BY <1>3
    <3> QED
      BY <1>2, <2>1, <3>1
  <2>3. PICK m \in Successors(flow.edges, n) : m \in DOMAIN depths /\ depths[m] = depths[n] + 1
    BY <1>3, <2>1, <2>2
  <2>4. depths[m] = j /\ depths[n] <= t /\ depths[m] <= t
    BY <2>1, <2>3
  <2>5. QueuedAt(n) < QueuedAt(m)
    <3>1. <<n, m>> \in flow.edges
      BY <2>3 DEF Successors
    <3> DEFINE edge == <<n, m>>
    <3>2. Seen(edge[2]) => QueuedAt(edge[1]) < QueuedAt(edge[2])
      BY <3>1 DEF InputsQueuedBefore
    <3> QED
      BY <1>4, <2>3, <2>4, <3>2
  <2>6. QueuedAt(n) \in Nat /\ QueuedAt(m) \in Nat
    BY <1>4, <2>1, <2>3, <2>4
  <2> QED
    BY <2>1, <2>3, <2>4, <2>5, <2>6
<1>7. t \in Way
  <2> HIDE DEF Way
  <2>1. \A j \in 0..t : j \in Way
    BY <1>5, <1>6, UpToBound
  <2> QED
    BY <2>1
<1> QED
  BY <1>7 DEF end, depths

\* When the queue is empty, nothing that leads to an ending node is left but what is ruled out.
\* Otherwise take what is left in front of the last end that misses a node.  Its first node
\* lies behind level t, so all nodes up to level t are there, and a way through them, from
\* depth 0, was queued level by level: its last node in level t at the earliest.
LEMMA NothingIsLeft ==
  ASSUME IInv, LInv, queue = <<>>
  PROVE  DOMAIN depthQueue \ ignored \subseteq initialized
<1> DEFINE Left == DOMAIN depthQueue \ (ignored \cup initialized)
           Missing == {i \in DOMAIN flow.ends :
                         \E n \in Left : CountedFrom(flow.edges, flow.ends, n, i)}
<1>1. SUFFICES ASSUME Left # {} PROVE FALSE
  OBVIOUS
<1>2. /\ flow.edges \in SUBSET Upwards /\ flow.ends \in Seq(Node) /\ Size \in Nat
      /\ initialized \subseteq Node /\ InputsQueuedBefore
      /\ depthQueue = DepthQueue(flow.edges, flow.ends)
  <2>1. TypeOK
    BY DEF IInv
  <2> QED
    BY <2>1, Types, BuildAssumption DEF LInv
<1>3. /\ \A n \in DOMAIN depthQueue : \E i : CountedFrom(flow.edges, flow.ends, n, i)
      /\ \A i \in DOMAIN flow.ends : DOMAIN Depths(flow.edges, flow.ends[i]) \subseteq DOMAIN depthQueue
  BY <1>2, DepthQueueIs
<1>4. Missing # {}
  BY <1>1, <1>3 DEF CountedFrom
<1>5. PICK i \in Missing : \A j \in Missing : j <= i
  <2>1. Len(flow.ends) \in Nat /\ Missing \in SUBSET (0..Len(flow.ends))
    BY <1>2
  <2> HIDE DEF Missing
  <2> QED
    BY <1>4, <2>1, GreatestOf
<1>6. PICK first \in Left : CountedFrom(flow.edges, flow.ends, first, i)
  BY <1>5
<1>7. i \in DOMAIN flow.ends /\ i \in Nat /\ flow.ends[i] \in Node
  BY <1>2, <1>5
<1> DEFINE end == flow.ends[i]
           depths == Depths(flow.edges, end)
           Rest   == DOMAIN depths \ initialized
           Near   == {depths[n] : n \in Rest}
<1>8. /\ DOMAIN depths \subseteq Node /\ end \in DOMAIN depths
      /\ depths \in [DOMAIN depths -> 0..Size]
      /\ \A n \in DOMAIN depths : \A m \in Predecessors(flow.edges, n) :
           m \in DOMAIN depths /\ depths[m] < depths[n]
      /\ \A n \in DOMAIN depths : depths[end] >= depths[n]
  <2>1. end \in Node
    BY <1>7
  <2> HIDE DEF end
  <2> QED
    BY <1>2, <2>1, DepthsAre
<1>9. \A n \in Rest : n \notin ignored
  <2>1. \A n \in Rest : n \in ignored <=> flow.ends[i] \in ignored
    BY <1>7, LeftTogether
  <2>2. first \in Rest /\ first \notin ignored
    BY <1>6 DEF CountedFrom
  <2> HIDE DEF Rest
  <2> QED
    BY <2>1, <2>2
<1>10. ASSUME NEW n \in Rest PROVE n \in DOMAIN depthQueue /\ depthQueue[n] = depths[n]
  <2>1. n \in Left
    BY <1>3, <1>7, <1>9, <1>10
  <2>2. PICK j : CountedFrom(flow.edges, flow.ends, n, j)
    BY <1>3, <2>1
  <2>3. j \in Missing /\ j \in Nat
    BY <1>2, <2>1, <2>2 DEF CountedFrom
  <2>4. i <= j /\ j <= i
    BY <1>5, <1>7, <1>10, <2>2, <2>3 DEF CountedFrom
  <2>5. i = j
    BY <1>7, <2>3, <2>4
  <2> QED
    BY <1>2, <2>1, <2>2, <2>5 DEF CountedFrom
<1>11. first \in Rest
  BY <1>6 DEF CountedFrom
<1> HIDE DEF depths, end
<1>12. PICK t \in Nat : LevelReached(t)
  BY DEF LInv
<1>13. \A n \in Rest : depths[n] > t
  <2>1. Near \in SUBSET (0..Size) /\ Near # {}
    BY <1>8, <1>11
  <2>2. PICK near \in Near : \A k \in Near : near <= k
    <3> HIDE DEF Near
    <3> QED
      BY <1>2, <2>1, LeastOf
  <2>3. PICK n \in Rest : depths[n] = near
    BY <2>2
  <2>far. \A m \in Rest : depths[m] \in Nat /\ near <= depths[m]
    BY <1>8, <2>2
  <2>4. ASSUME NEW m \in Predecessors(flow.edges, n), m \notin initialized PROVE FALSE
    <3>1. m \in Rest /\ depths[m] < depths[n]
      BY <1>8, <2>3, <2>4
    <3>2. depths[n] <= depths[m] /\ depths[m] \in Nat /\ depths[n] \in Nat
      BY <1>8, <2>3, <2>far, <3>1
    <3> QED
      BY <3>1, <3>2
  <2>5. ~(depthQueue[n] <= t)
    <3>1. n \in DOMAIN depthQueue \ (initialized \cup ignored) /\ ~IsQueued(n)
      BY <1>9, <1>10, <2>3 DEF IsQueued
    <3> QED
      BY <1>12, <2>4, <3>1 DEF LevelReached
  <2>6. depths[n] > t /\ depths[n] \in Nat
    BY <1>8, <1>10, <2>3, <2>5
  <2> QED
    BY <2>3, <2>6, <2>far
<1>14. ASSUME NEW n \in DOMAIN depths, depths[n] <= t
       PROVE  n \in initialized /\ Seen(n) /\ QueuedAt(n) < t /\ QueuedAt(n) \in Nat
  <2>1. n \in initialized
    BY <1>8, <1>13, <1>14
  <2> QED
    BY <1>2, <1>12, <2>1 DEF LevelReached, InputsQueuedBefore
<1>15. t <= depths[end]
  <2>1. first \in DOMAIN depths /\ end \in DOMAIN depths /\ depths[first] > t
    BY <1>8, <1>11, <1>13
  <2>2. depths[end] >= depths[first]
    BY <1>8, <2>1
  <2>3. depths[first] \in Nat /\ depths[end] \in Nat
    BY <1>8, <2>1
  <2> QED
    BY <1>12, <2>1, <2>2, <2>3
<1>16. PICK n \in DOMAIN depths : depths[n] = t /\ QueuedAt(n) >= t
  BY <1>2, <1>7, <1>12, <1>14, <1>15, WayIsQueued DEF depths, end
<1> QED
  BY <1>12, <1>14, <1>16
--------------------------------------------------------------------------------
\* Which node moves last

\* Node n is queued only when the ifElse node was initialised.
Behind(n) == n # flow.chooser /\ flow.chooser \in DOMAIN Depths(flow.edges, n)

\* What is ruled out was queued before the ifElse node ruled it out, so it is in front of
\* everything that is behind the ifElse node.
IgnoredInFront ==
  /\ \A k, l \in DOMAIN queue : k < l /\ Behind(queue[k].node) => queue[l].node \notin ignored
  /\ \A n \in initialized : Behind(n) => \A l \in DOMAIN queue : queue[l].node \notin ignored

\* An ending node moves to the end when the level behind it has no node; what moves after it
\* is not ruled out.
EndMoves ==
  \A n \in initialized \ ignored :
    /\ Successors(flow.edges, n) = {} /\ (ignored = {} \/ Behind(n))
    /\ SameDepth(QueuedAt(n) + 1) \subseteq ignored
    => last # None /\ last \notin ignored

\* What moves to the end is an ending node, or is ruled out, or is the ifElse node when all it
\* leads to is ruled out.
LastMoved ==
  last # None =>
    /\ last \in initialized
    /\ \/ last \in ignored \/ Successors(flow.edges, last) = {}
       \/ last = flow.chooser /\ Successors(flow.edges, last) \subseteq ignored

Attached == {n \in Node : Successors(flow.edges, n) # {} \/ Predecessors(flow.edges, n) # {}}

\* An answer follows the edges of nodes that have some.
EdgesAreFollowed ==
  /\ \A i \in DOMAIN flow.ends : flow.ends[i] \in EndingNodes(flow.edges)
  /\ DOMAIN depthQueue \subseteq Attached
  /\ \A n \in Node : graph[n] \subseteq Attached
  /\ \A n \in Node : Seen(n) => n \in Attached
  /\ \A n \in Node \ initialized : graph[n] = Successors(flow.edges, n)

MInv == ~flow.upsert => IgnoredInFront /\ EndMoves /\ LastMoved /\ EdgesAreFollowed

\* At first nothing has moved.
LEMMA InitMoves == Init => MInv
<1> SUFFICES ASSUME Init, ~flow.upsert PROVE IgnoredInFront /\ EndMoves /\ LastMoved /\ EdgesAreFollowed
  BY DEF MInv
<1>1. PICK edges \in SUBSET Upwards, upsert \in BOOLEAN, chooser \in Node \cup {None} :
        \E ends \in Ends(edges, upsert),
           refused \in IF chooser = None THEN {{}} ELSE (SUBSET Successors(edges, chooser)) \ {{}} :
        \E first \in IF refused = {} THEN {None} ELSE refused :
          /\ flow = [edges |-> edges, chooser |-> chooser, refused |-> refused, first |-> first,
                     upsert |-> upsert, ends |-> ends]
          /\ depthQueue = DepthQueue(edges, ends)
          /\ graph = [n \in Node |-> IF upsert THEN Predecessors(edges, n) ELSE Successors(edges, n)]
          /\ \E order \in Orders(StartingNodes(edges, ends)) :
               LET starts == {order[i] : i \in DOMAIN order} IN
               /\ queue = [i \in DOMAIN order |-> [node |-> order[i], depth |-> 0]]
               /\ explored = [n \in Node |-> IF n \in starts
                                             THEN [remainingLoop |-> MaxLoop, lastSeenDepth |-> 0]
                                             ELSE None]
  BY DEF Init
<1>2. /\ flow.edges = edges /\ ~upsert /\ flow.ends \in Ends(edges, upsert)
      /\ depthQueue = DepthQueue(edges, flow.ends)
      /\ graph = [n \in Node |-> IF upsert THEN Predecessors(edges, n) ELSE Successors(edges, n)]
      /\ \E order \in Orders(StartingNodes(edges, flow.ends)) :
           LET starts == {order[i] : i \in DOMAIN order} IN
           /\ queue = [i \in DOMAIN order |-> [node |-> order[i], depth |-> 0]]
           /\ explored = [n \in Node |-> IF n \in starts
                                         THEN [remainingLoop |-> MaxLoop, lastSeenDepth |-> 0]
                                         ELSE None]
  BY <1>1
<1>3. initialized = {} /\ ignored = {} /\ last = None
  BY DEF Init
<1>4. /\ IgnoredInFront /\ EndMoves /\ LastMoved
  BY <1>3 DEF IgnoredInFront, EndMoves, LastMoved
<1>5. flow.ends \in Seq(Node)
  <2>1. TypeOK
    BY InitHolds DEF IInv
  <2> QED
    BY <2>1, Types
<1>6. \A i \in DOMAIN flow.ends : flow.ends[i] \in EndingNodes(edges)
  <2>1. PICK S \in (SUBSET EndingNodes(edges)) \ {{}} : flow.ends \in SetToSeqs(S)
    BY <1>2 DEF Ends, Orders
  <2>2. S \in SUBSET Node
    BY DEF EndingNodes
  <2>3. \A i \in DOMAIN flow.ends : flow.ends[i] \in S
    BY <2>1, <2>2, OrdersAre
  <2> QED
    BY <2>3
<1>7. ASSUME NEW n \in DOMAIN depthQueue PROVE n \in Attached
  <2>1. PICK i : CountedFrom(edges, flow.ends, n, i)
    BY <1>2, <1>5, <1>7, DepthQueueIs
  <2> DEFINE end == flow.ends[i]
  <2>2. end \in EndingNodes(edges) /\ n \in DOMAIN Depths(edges, end)
    BY <1>6, <2>1 DEF CountedFrom
  <2> HIDE DEF end
  <2>3. end \in Node /\ Predecessors(edges, end) # {}
    BY <2>2 DEF EndingNodes
  <2>4. n \in Node /\ (n # end => Successors(edges, n) # {})
    BY <2>2, <2>3, DepthsAre
  <2> QED
    BY <1>2, <2>3, <2>4 DEF Attached
<1>8. StartingNodes(edges, flow.ends) \in SUBSET Node /\ StartingNodes(edges, flow.ends) \subseteq Attached
  <2>1. /\ StartingNodes(edges, flow.ends) \subseteq Node
        /\ StartingNodes(edges, flow.ends) \subseteq DOMAIN depthQueue
    BY <1>2, <1>5, DepthQueueIs
  <2> QED
    BY <1>7, <2>1
<1>9. \A n \in Node : Seen(n) => n \in Attached
  <2>1. PICK order \in SetToSeqs(StartingNodes(edges, flow.ends)) :
          explored = [n \in Node |-> IF n \in {order[i] : i \in DOMAIN order}
                                     THEN [remainingLoop |-> MaxLoop, lastSeenDepth |-> 0]
                                     ELSE None]
    BY <1>2 DEF Orders
  <2>2. \A i \in DOMAIN order : order[i] \in Attached
    BY <1>8, OrdersAre
  <2> QED
    BY <2>1, <2>2 DEF Seen
<1>10. \A n \in Node : graph[n] = Successors(edges, n) /\ graph[n] \subseteq Attached
  <2>1. \A n \in Node : graph[n] = Successors(edges, n)
    BY <1>2
  <2>2. ASSUME NEW n \in Node, NEW m \in Successors(edges, n) PROVE m \in Attached
    <3>1. m \in Node /\ n \in Predecessors(edges, m)
      BY DEF Successors, Predecessors
    <3> QED
      BY <1>2, <3>1 DEF Attached
  <2> QED
    BY <2>1, <2>2
<1>11. EdgesAreFollowed
  BY <1>2, <1>6, <1>7, <1>9, <1>10 DEF EdgesAreFollowed
<1> QED
  BY <1>4, <1>11

\* A node whose inputs were initialised is behind the ifElse node only when that was, too.
LEMMA BehindWaits ==
  ASSUME IInv, NEW n \in Node, Behind(n), Predecessors(flow.edges, n) \subseteq initialized
  PROVE  flow.chooser \in initialized
<1> DEFINE depths == Depths(flow.edges, n)
           Odd == {m \in DOMAIN depths \ {n} : m \notin initialized}
<1>1. flow.edges \in SUBSET Upwards /\ DependenciesFirst
  BY Types DEF IInv
<1>2. ASSUME NEW m \in Odd, NEW l \in Successors(flow.edges, m) \cap DOMAIN depths PROVE l \in Odd
  <2>1. DOMAIN depths \subseteq Node
    BY <1>1, DepthsAre
  <2>2. <<m, l>> \in flow.edges /\ m \in Node
    BY <1>2, <2>1 DEF Successors
  <2> DEFINE edge == <<m, l>>
  <2>3. edge[2] \in initialized => edge[1] \in initialized
    BY <1>1, <2>2 DEF DependenciesFirst
  <2>4. l = n => m \in Predecessors(flow.edges, n)
    BY <2>2 DEF Predecessors
  <2> QED
    BY <1>2, <2>3, <2>4
<1>3. Odd = {}
  <2>1. Odd \in SUBSET (DOMAIN depths \ {n})
    OBVIOUS
  <2> HIDE DEF Odd
  <2> QED
    BY <1>1, <1>2, <2>1, NoneIsDeepest
<1> QED
  BY <1>3 DEF Behind

\* The ifElse node rules out the same nodes when it is initialised again.
LEMMA IgnoredStays ==
  ASSUME IInv, LInv, Initialize, flow.chooser \in initialized
  PROVE  ignored' = ignored
<1>1. Ignore(Current)
  BY DEF Initialize
<1>2. CASE Current # flow.chooser \/ flow.refused = {}
  BY <1>1, <1>2 DEF Ignore
<1>3. CASE ~(Current # flow.chooser \/ flow.refused = {})
  <2>1. ignored' = ignored \cup Connected(Uncut, flow.first)
    BY <1>1, <1>3 DEF Ignore, FirstRefused
  <2>2. flow.first # None
    <3>1. flow.first \in Node
      BY <1>3 DEF IInv, FlowsFit, Successors
    <3> QED
      BY <3>1, BuildAssumption DEF Node
  <2>3. flow.first \in ignored
    BY <2>2 DEF IInv, RefusedIsIgnored
  <2> QED
    BY <2>1, <2>3 DEF LInv, IgnoredIsApart
<1> QED
  BY <1>2, <1>3

\* A node is initialised by the level that queued it first.
LEMMA FirstTurn ==
  ASSUME IInv, EInv, LInv, Initialize, Current \notin initialized
  PROVE  QueuedAt(Current) = Head(queue).depth
<1>1. /\ TypeOK /\ LevelsFollow /\ QueuedTwice /\ InputsQueuedBefore
  BY DEF IInv, EInv, LInv
<1>2. /\ Current \in Node /\ 1 \in DOMAIN queue /\ queue[1].node = Current
      /\ Head(queue) = queue[1]
  BY <1>1, Types, TurnFacts DEF Initialize, Building
<1>3. Seen(Current) /\ QueuedAt(Current) <= queue[1].depth
  BY <1>1, <1>2 DEF QueuedTwice, InputsQueuedBefore
<1>4. PICK i \in DOMAIN queue : WaitsAt(Current, i)
  BY <1>1, <1>2, <1>3 DEF QueuedTwice
<1>5. queue[1].depth <= queue[i].depth /\ queue[1].depth \in Nat /\ queue[i].depth \in Nat
  <2>1. DOMAIN queue = 1..Len(queue) /\ Len(queue) \in Nat
    BY <1>1, Elements DEF TypeOK
  <2>2. \A j \in DOMAIN queue : queue[j].depth \in Nat
    BY <1>1, Types
  <2> QED
    BY <1>2, <2>1, <2>2, <1>1 DEF LevelsFollow
<1>6. QueuedAt(Current) = queue[i].depth
  BY <1>4, <1>5, BuildAssumption DEF WaitsAt, QueuedAt
<1> QED
  BY <1>2, <1>3, <1>5, <1>6


\* Nothing is ruled out behind a node that is queued only when the ifElse node was initialised.
LEMMA TurnKeepsFront ==
  ASSUME IInv, LInv, Initialize, IgnoredInFront
  PROVE  IgnoredInFront'
<1> DEFINE n == Current
           depth == Head(queue).depth + 1
<1>1. TypeOK /\ QueuedIsReady /\ DependenciesFirst
  BY DEF IInv
<1>2. /\ n \in Node /\ depth \in 0..Size /\ flow' = flow
      /\ 1 \in DOMAIN queue /\ queue[1].node = n /\ initialized' = initialized \cup {n}
  BY TurnFacts
<1>3. PICK order : Turn(order, n, depth)
  BY <1>1, <1>2, TurnIs
<1> HIDE DEF n, depth
<1>4. /\ DOMAIN queue = 1..Len(queue) /\ Len(queue) \in Nat
      /\ DOMAIN queue' = 1..Len(queue') /\ Len(queue') \in Nat
      /\ DOMAIN order = 1..Len(order) /\ Len(order) \in Nat
      /\ \A k \in DOMAIN queue : queue[k].node \in Node
  <2>1. /\ queue \in Seq([node : Node, depth : 0..Size])
        /\ queue' \in Seq([node : Node, depth : 0..Size]) /\ order \in Seq(Node)
    BY <1>1, <1>3 DEF TypeOK, Turn, Queueing
  <2> QED
    BY <1>1, <2>1, Elements, Types
<1>5. ASSUME NEW m \in Node, Behind(m), m \in initialized \/ \E k \in DOMAIN queue : queue[k].node = m
      PROVE  ignored' = ignored
  <2>1. Predecessors(flow.edges, m) \subseteq initialized
    <3>1. CASE m \in initialized
      <4>1. ASSUME NEW l \in Predecessors(flow.edges, m) PROVE l \in initialized
        <5> DEFINE edge == <<l, m>>
        <5>1. edge \in flow.edges
          BY <4>1 DEF Predecessors
        <5>2. edge[2] \in initialized => edge[1] \in initialized
          BY <1>1, <5>1 DEF DependenciesFirst
        <5> QED
          BY <3>1, <5>2
      <4> QED
        BY <4>1
    <3>2. CASE \E k \in DOMAIN queue : queue[k].node = m
      BY <1>1, <3>2 DEF QueuedIsReady
    <3> QED
      BY <1>5, <3>1, <3>2
  <2> QED
    BY <1>5, <2>1, BehindWaits, IgnoredStays
<1>6. ASSUME NEW l \in DOMAIN queue'
      PROVE  \/ l + 1 \in DOMAIN queue /\ queue'[l] = queue[l + 1] /\ l < Len(queue)
             \/ queue'[l].node \notin ignored' /\ l >= Len(queue)
  <2> DEFINE i == l - (Len(queue) - 1)
  <2>1. \/ l + 1 \in DOMAIN queue /\ queue'[l] = queue[l + 1]
        \/ i \in DOMAIN order /\ queue'[l] = [node |-> order[i], depth |-> depth]
    BY <1>3, <1>6 DEF Turn
  <2>2. i \in DOMAIN order => order[i] \notin ignored'
    <3> HIDE DEF i
    <3> QED
      BY <1>3 DEF Turn, Queueing
  <2>3. i \in DOMAIN order => l >= Len(queue)
    BY <1>4, <1>6
  <2>4. l + 1 \in DOMAIN queue => l < Len(queue)
    BY <1>4, <1>6
  <2> HIDE DEF i
  <2> QED
    BY <2>1, <2>2, <2>3, <2>4
<1>7. ASSUME NEW k \in DOMAIN queue', NEW l \in DOMAIN queue', k < l, Behind(queue'[k].node)
      PROVE  queue'[l].node \notin ignored'
  <2>1. CASE l + 1 \in DOMAIN queue /\ queue'[l] = queue[l + 1] /\ l < Len(queue)
    <3>1. k + 1 \in DOMAIN queue /\ queue'[k] = queue[k + 1] /\ k + 1 < l + 1
      BY <1>4, <1>6, <1>7, <2>1
    <3>2. queue[l + 1].node \notin ignored
      BY <1>7, <2>1, <3>1 DEF IgnoredInFront
    <3>3. ignored' = ignored
      BY <1>4, <1>5, <1>7, <3>1
    <3> QED
      BY <2>1, <3>2, <3>3
  <2> QED
    BY <1>6, <2>1
<1>8. ASSUME NEW m \in initialized', Behind(m), NEW l \in DOMAIN queue'
      PROVE  queue'[l].node \notin ignored'
  <2>1. CASE l + 1 \in DOMAIN queue /\ queue'[l] = queue[l + 1] /\ l < Len(queue)
    <3>1. m \in initialized \/ m = queue[1].node
      BY <1>2, <1>8
    <3>2. ignored' = ignored
      <4>1. m \in Node
        BY <1>1, <1>2, <1>8, Types
      <4> QED
        BY <1>2, <1>5, <1>8, <3>1, <4>1
    <3>3. queue[l + 1].node \notin ignored
      <4>1. CASE m \in initialized
        BY <1>8, <2>1, <4>1 DEF IgnoredInFront
      <4>2. CASE m = queue[1].node
        <5>1. 1 < l + 1
          BY <1>4, <1>8
        <5> QED
          BY <1>2, <1>8, <2>1, <4>2, <5>1 DEF IgnoredInFront
      <4> QED
        BY <3>1, <4>1, <4>2
    <3> QED
      BY <2>1, <3>2, <3>3
  <2> QED
    BY <1>6, <1>8, <2>1
<1>9. \A m : Behind(m)' <=> Behind(m)
  BY <1>2 DEF Behind
<1> QED
  BY <1>2, <1>7, <1>8 DEF IgnoredInFront, Behind

\* An ending node moves when its level has no successor, and stays last but for other ones.
LEMMA TurnMovesEnds ==
  ASSUME IInv, EInv, LInv, MaxLoop > 1, Initialize, ~flow.upsert, IgnoredInFront, EndMoves,
         EdgesAreFollowed
  PROVE  EndMoves'
<1> DEFINE n == Current
           depth == Head(queue).depth + 1
           near == graph[n] \cup SameDepth(depth)
<1>1. TypeOK /\ QueuedIsReady /\ DependenciesFirst /\ QueuedTwice
  BY DEF IInv, EInv
<1>2. /\ n \in Node /\ flow' = flow /\ depthQueue' = depthQueue
      /\ 1 \in DOMAIN queue /\ queue[1].node = n /\ initialized' = initialized \cup {n}
      /\ initialized \subseteq Node /\ ignored \subseteq ignored'
  BY <1>1, Types, TurnFacts, IgnoreIs DEF Initialize, IInv
<1>3. last' = IF near \subseteq ignored' THEN n ELSE last
  BY DEF Initialize, Enqueue
<1>4. None \notin Node
  BY BuildAssumption DEF Node
<1>5. PICK t \in Nat : LevelReached(t)
  BY DEF LInv
<1>6. ASSUME NEW m \in Node, Seen(m) PROVE QueuedAtNext(m) = QueuedAt(m)
  BY <1>6, TurnDates
<1> SUFFICES ASSUME NEW e \in initialized' \ ignored',
                    Successors(flow.edges, e) = {}, ignored' = {} \/ Behind(e),
                    SameDepth(QueuedAtNext(e) + 1) \subseteq ignored'
             PROVE  last' # None /\ last' \notin ignored'
  BY <1>2 DEF EndMoves, Behind, SameDepth, QueuedAt, QueuedAtNext
<1>7. CASE e \in initialized
  <2>1. e \in Node /\ e \notin ignored /\ Seen(e)
    BY <1>2, <1>5, <1>7 DEF LevelReached
  <2>2. QueuedAtNext(e) = QueuedAt(e)
    BY <1>6, <2>1
  <2>3. ignored' = ignored
    <3>1. CASE ignored' = {}
      BY <1>2, <3>1
    <3>2. CASE Behind(e)
      <4>1. ASSUME NEW l \in Predecessors(flow.edges, e) PROVE l \in initialized
        <5> DEFINE edge == <<l, e>>
        <5>1. edge \in flow.edges
          BY <4>1 DEF Predecessors
        <5>2. edge[2] \in initialized => edge[1] \in initialized
          BY <1>1, <5>1 DEF DependenciesFirst
        <5> QED
          BY <1>7, <5>2
      <4> QED
        BY <2>1, <3>2, <4>1, BehindWaits, IgnoredStays
    <3> QED
      BY <3>1, <3>2
  <2>4. last # None /\ last \notin ignored
    BY <1>7, <2>1, <2>2, <2>3 DEF EndMoves
  <2>5. n \notin ignored'
    <3>1. CASE ignored' = {}
      BY <3>1
    <3>2. CASE Behind(e)
      BY <1>2, <1>7, <2>3, <3>2 DEF IgnoredInFront
    <3> QED
      BY <3>1, <3>2
  <2> HIDE DEF n
  <2> QED
    BY <1>2, <1>3, <1>4, <2>3, <2>4, <2>5
<1>8. CASE e \notin initialized
  <2>1. e = n
    BY <1>2, <1>8
  <2>2. QueuedAt(n) = Head(queue).depth
    BY <1>8, <2>1, FirstTurn
  <2>3. Seen(n)
    BY <1>1, <1>2 DEF QueuedTwice
  <2>4. QueuedAtNext(e) + 1 = depth
    BY <1>2, <1>6, <2>1, <2>2, <2>3
  <2>5. graph[n] = {}
    BY <1>2, <1>8, <2>1 DEF EdgesAreFollowed
  <2>6. near \subseteq ignored'
    BY <2>4, <2>5
  <2> QED
    BY <1>2, <1>3, <1>4, <2>1, <2>6
<1> QED
  BY <1>7, <1>8

\* What the turn moves to the end has neighbours that are ruled out.
LEMMA TurnMovesLast ==
  ASSUME IInv, EInv, LInv, Initialize, ~flow.upsert, LastMoved
  PROVE  LastMoved'
<1> DEFINE n == Current
           near == graph[n] \cup SameDepth(Head(queue).depth + 1)
<1>1. /\ TypeOK /\ FlowsFit /\ NextIsQueued
  BY DEF IInv, LInv
<1>2. /\ n \in Node /\ flow' = flow /\ initialized' = initialized \cup {n}
      /\ ignored \subseteq ignored' /\ flow.edges \in SUBSET Upwards
  BY <1>1, Types, TurnFacts, IgnoreIs DEF Initialize, IInv
<1>3. last' = IF near \subseteq ignored' THEN n ELSE last
  BY DEF Initialize, Enqueue
<1>4. CASE last' = last
  BY <1>2, <1>4 DEF LastMoved
<1>5. CASE near \subseteq ignored' /\ last' = n
  <2>1. Successors(flow.edges, n) \subseteq ignored'
    BY <1>1, <1>2, <1>5 DEF NextIsQueued
  <2>2. ASSUME n # flow.chooser, NEW m \in Successors(flow.edges, n) PROVE n \in ignored'
    <3>1. IgnoredIsApart'
      BY TurnQueuesNext
    <3>2. Uncut' = Uncut
      BY <1>2 DEF Uncut
    <3>3. ignored' = Connected(Uncut, flow.first) /\ flow.refused # {}
      BY <1>2, <2>1, <2>2, <3>1, <3>2 DEF IgnoredIsApart
    <3> DEFINE edge == <<n, m>>
    <3>4. edge \in Uncut /\ Uncut \in SUBSET Upwards /\ flow.first \in Node
      BY <1>1, <1>2, <2>2, <3>3 DEF Uncut, Successors, FlowsFit
    <3>5. edge[1] \in ignored' <=> edge[2] \in ignored'
      BY <3>3, <3>4, ConnectedIs
    <3> QED
      BY <2>1, <2>2, <3>5
  <2> HIDE DEF n
  <2> QED
    BY <1>2, <1>5, <2>1, <2>2 DEF LastMoved
<1> QED
  BY <1>3, <1>4, <1>5

\* The turn queues neighbours and nodes of its level, all of them on some edge.
LEMMA TurnFollowsEdges ==
  ASSUME IInv, Initialize, EdgesAreFollowed
  PROVE  EdgesAreFollowed'
<1> DEFINE n == Current
           depth == Head(queue).depth + 1
<1>1. TypeOK
  BY DEF IInv
<1>2. /\ n \in Node /\ depth \in 0..Size /\ flow' = flow /\ depthQueue' = depthQueue
      /\ initialized' = initialized \cup {n} /\ graph \in [Node -> SUBSET Node]
  BY <1>1, Types, TurnFacts
<1>3. PICK order : Turn(order, n, depth)
  BY <1>1, <1>2, TurnIs
<1> HIDE DEF n, depth
<1>4. Attached' = Attached
  BY <1>2 DEF Attached
<1>5. graph[n] \cup SameDepth(depth) \subseteq Attached
  BY <1>2 DEF EdgesAreFollowed, SameDepth
<1>6. graph' = [graph EXCEPT ![n] = graph[n] \cup SameDepth(depth)]
  BY <1>3 DEF Turn
<1>7. \A m \in Node : graph'[m] \subseteq Attached
  BY <1>2, <1>5, <1>6 DEF EdgesAreFollowed
<1>8. \A m \in Node \ initialized' : graph'[m] = Successors(flow.edges, m)
  BY <1>2, <1>6 DEF EdgesAreFollowed
<1>9. ASSUME NEW m \in Node, explored'[m] # None PROVE m \in Attached
  <2>1. \A i \in DOMAIN order : order[i] \in Attached
    BY <1>3, <1>5 DEF Turn, Queueing
  <2>2. m \in {order[i] : i \in DOMAIN order} \/ explored'[m] = explored[m]
    BY <1>3 DEF Turn
  <2> QED
    BY <1>9, <2>1, <2>2 DEF EdgesAreFollowed, Seen
<1> QED
  BY <1>2, <1>4, <1>7, <1>8, <1>9 DEF EdgesAreFollowed, Seen

\* Every step keeps the invariant of moves.
LEMMA NextMoves == ASSUME MaxLoop > 1 PROVE IInv /\ EInv /\ LInv /\ MInv /\ [Next]_vars => MInv'
<1> SUFFICES ASSUME IInv, EInv, LInv, MInv, [Next]_vars PROVE MInv'
  OBVIOUS
<1>1. CASE Initialize
  <2>1. flow' = flow
    BY <1>1, TurnFacts
  <2>2. CASE ~flow.upsert
    <3>1. IgnoredInFront /\ EndMoves /\ LastMoved /\ EdgesAreFollowed
      BY <2>2 DEF MInv
    <3>2. IgnoredInFront' /\ EndMoves' /\ LastMoved' /\ EdgesAreFollowed'
      BY <1>1, <2>2, <3>1, TurnKeepsFront, TurnMovesEnds, TurnMovesLast, TurnFollowsEdges
    <3> QED
      BY <3>2 DEF MInv
  <2> QED
    BY <2>1, <2>2 DEF MInv
<1>2. CASE Upsert \/ NodeThrows \/ Finish \/ UNCHANGED vars
  <2>1. UNCHANGED <<flow, depthQueue, graph, queue, explored, initialized, ignored, last>>
    BY <1>2 DEF Upsert, NodeThrows, Finish, vars, progress
  <2>2. IgnoredInFront => IgnoredInFront'
    BY <2>1 DEF IgnoredInFront, Behind
  <2>3. EndMoves => EndMoves'
    BY <2>1 DEF EndMoves, Behind, SameDepth, QueuedAt
  <2>4. LastMoved => LastMoved'
    BY <2>1 DEF LastMoved
  <2>5. EdgesAreFollowed => EdgesAreFollowed'
    BY <2>1 DEF EdgesAreFollowed, Attached, Seen
  <2> QED
    BY <2>1, <2>2, <2>3, <2>4, <2>5 DEF MInv
<1> QED
  BY <1>1, <1>2 DEF Next

\* What is initialised in front of an ending node was queued by as many levels as there are.
LEMMA EndsLate ==
  ASSUME IInv, LInv, NEW i \in DOMAIN flow.ends,
         DOMAIN Depths(flow.edges, flow.ends[i]) \subseteq initialized
  PROVE  LET end == flow.ends[i] IN QueuedAt(end) >= Depths(flow.edges, end)[end]
<1> DEFINE end == flow.ends[i]
           depths == Depths(flow.edges, end)
<1>1. flow.edges \in SUBSET Upwards /\ end \in Node /\ InputsQueuedBefore
  <2>1. flow.edges \in SUBSET Upwards /\ flow.ends \in Seq(Node) /\ InputsQueuedBefore
    BY Types DEF IInv, LInv
  <2> QED
    BY <2>1
<1>2. PICK t \in Nat : LevelReached(t)
  BY DEF LInv
<1>3. \A n \in DOMAIN depths : Seen(n)
  BY <1>2 DEF LevelReached
<1> HIDE DEF end
<1>4. /\ end \in DOMAIN depths /\ depths \in [DOMAIN depths -> 0..Size]
      /\ \A n \in DOMAIN depths : depths[end] >= depths[n]
      /\ \A n \in DOMAIN depths \ {end} : \E m \in Successors(flow.edges, n) :
           m \in DOMAIN depths /\ depths[m] = depths[n] + 1
  BY <1>1, DepthsAre
<1>5. depths[end] \in Nat /\ depths[end] <= depths[end]
  BY <1>4
<1>6. PICK n \in DOMAIN depths : depths[n] = depths[end] /\ QueuedAt(n) >= depths[end]
  BY <1>1, <1>3, <1>5, WayIsQueued DEF end
<1>7. n = end
  <2> SUFFICES ASSUME n # end PROVE FALSE
    OBVIOUS
  <2>1. PICK m \in DOMAIN depths : depths[m] = depths[n] + 1
    BY <1>4
  <2>2. depths[end] >= depths[m]
    BY <1>4
  <2> HIDE DEF depths
  <2> QED
    BY <1>5, <1>6, <2>1, <2>2
<1> QED
  BY <1>6, <1>7 DEF end

\* A way to an ending node that is ruled out enters what is ruled out from the ifElse node.
LEMMA EntersFromChooser ==
  ASSUME IInv, LInv, NEW i \in DOMAIN flow.ends, flow.ends[i] \in ignored,
         NEW S, flow.chooser \in S, \A m \in S : Predecessors(flow.edges, m) \subseteq S
  PROVE  DOMAIN Depths(flow.edges, flow.ends[i]) \ ignored \subseteq S
<1> DEFINE end == flow.ends[i]
           depths == Depths(flow.edges, end)
           Odd == DOMAIN depths \ (ignored \cup S)
<1>1. flow.edges \in SUBSET Upwards /\ end \in Node
  <2>1. flow.edges \in SUBSET Upwards /\ flow.ends \in Seq(Node)
    BY Types DEF IInv
  <2> QED
    BY <2>1
<1> HIDE DEF end
<1>2. Odd \subseteq DOMAIN depths \ {end}
  BY DEF end
<1>3. ASSUME NEW n \in Odd, NEW m \in Successors(flow.edges, n) \cap DOMAIN depths PROVE m \in Odd
  <2>1. DOMAIN depths \subseteq Node
    BY <1>1, DepthsAre
  <2>2. n \in Node /\ m \in Node /\ <<n, m>> \in flow.edges /\ n # flow.chooser
    BY <1>3, <2>1 DEF Successors
  <2>3. n \in ignored <=> m \in ignored
    BY <2>2, UncutTogether
  <2>4. n \in Predecessors(flow.edges, m)
    BY <2>2 DEF Predecessors
  <2> QED
    BY <1>3, <2>3, <2>4
<1>4. Odd = {}
  <2> HIDE DEF Odd
  <2> QED
    BY <1>1, <1>2, <1>3, NoneIsDeepest
<1> QED
  BY <1>4 DEF end

\* Nothing that leads to an ending node that stays is ruled out.
LEMMA StaysTogether ==
  ASSUME IInv, LInv, flow.chooser \notin ignored, NEW i \in DOMAIN flow.ends, Stays(i)
  PROVE  DOMAIN Depths(flow.edges, flow.ends[i]) \cap ignored = {}
<1> DEFINE end == flow.ends[i]
           depths == Depths(flow.edges, end)
           Odd == DOMAIN depths \cap ignored
<1>1. flow.edges \in SUBSET Upwards /\ end \in Node
  <2>1. flow.edges \in SUBSET Upwards /\ flow.ends \in Seq(Node)
    BY Types DEF IInv
  <2> QED
    BY <2>1
<1>2. Odd \subseteq DOMAIN depths \ {end}
  BY DEF Stays
<1> HIDE DEF end
<1>3. ASSUME NEW n \in Odd, NEW m \in Successors(flow.edges, n) \cap DOMAIN depths PROVE m \in Odd
  <2>1. DOMAIN depths \subseteq Node
    BY <1>1, DepthsAre
  <2>2. n \in Node /\ m \in Node /\ <<n, m>> \in flow.edges /\ n # flow.chooser
    BY <1>3, <2>1 DEF Successors
  <2>3. n \in ignored <=> m \in ignored
    BY <2>2, UncutTogether
  <2> QED
    BY <1>3, <2>3
<1>4. Odd = {}
  <2> HIDE DEF Odd
  <2> QED
    BY <1>1, <1>2, <1>3, NoneIsDeepest
<1> QED
  BY <1>4 DEF end

\* When the queue is empty, all that leads to an ending node that stays was initialised.
LEMMA StaysIsReached ==
  ASSUME IInv, LInv, queue = <<>>, NEW i \in DOMAIN flow.ends, Stays(i)
  PROVE  DOMAIN Depths(flow.edges, flow.ends[i]) \subseteq initialized
<1>1. DOMAIN depthQueue \ ignored \subseteq initialized
  BY NothingIsLeft
<1>2. DOMAIN Depths(flow.edges, flow.ends[i]) \subseteq DOMAIN depthQueue
  <2>1. /\ flow.edges \in SUBSET Upwards /\ flow.ends \in Seq(Node)
        /\ depthQueue = DepthQueue(flow.edges, flow.ends)
    BY Types DEF IInv, LInv
  <2> QED
    BY <2>1, DepthQueueIs
<1>3. \A n \in DOMAIN Depths(flow.edges, flow.ends[i]) \ initialized :
        n \in ignored <=> flow.ends[i] \in ignored
  BY LeftTogether
<1> QED
  BY <1>1, <1>2, <1>3 DEF Stays

\* No level behind the ending node that was queued last has a node, but what is ruled out: it
\* would count from an ending node that was queued later, or from one that is ruled out, and
\* then also from the one that is listed last.
LEMMA LastEndHasNoLevel ==
  ASSUME IInv, LInv, queue = <<>>, ignored = {} \/ ChooserDecides, NEW e \in Node,
         Seen(e), \A i \in DOMAIN flow.ends : Stays(i) => QueuedAt(flow.ends[i]) <= QueuedAt(e)
  PROVE  SameDepth(QueuedAt(e) + 1) \subseteq ignored
<1> SUFFICES ASSUME NEW y \in SameDepth(QueuedAt(e) + 1), y \notin ignored PROVE FALSE
  OBVIOUS
<1>1. /\ flow.edges \in SUBSET Upwards /\ flow.ends \in Seq(Node) /\ FlowsFit
      /\ InputsQueuedBefore /\ depthQueue = DepthQueue(flow.edges, flow.ends)
  BY Types DEF IInv, LInv
<1>2. y \in DOMAIN depthQueue /\ depthQueue[y] = QueuedAt(e) + 1 /\ QueuedAt(e) \in Nat
  BY <1>1 DEF SameDepth, InputsQueuedBefore
<1>3. PICK i : CountedFrom(flow.edges, flow.ends, y, i)
  BY <1>1, <1>2, DepthQueueIs
<1> DEFINE end == flow.ends[i]
           depths == Depths(flow.edges, end)
<1>4. i \in DOMAIN flow.ends /\ end \in Node /\ y \in DOMAIN depths /\ depths[y] = QueuedAt(e) + 1
  BY <1>1, <1>2, <1>3 DEF CountedFrom
<1>5. CASE Stays(i)
  <2>1. DOMAIN depths \subseteq initialized
    BY <1>4, <1>5, StaysIsReached
  <2>2. QueuedAt(end) >= depths[end]
    BY <1>4, <2>1, EndsLate
  <2>3. QueuedAt(end) <= QueuedAt(e)
    BY <1>4, <1>5
  <2> HIDE DEF end
  <2>4. /\ end \in DOMAIN depths /\ depths[end] \in Nat /\ depths[end] >= depths[y]
    <3>1. /\ end \in DOMAIN depths /\ depths \in [DOMAIN depths -> 0..Size]
          /\ \A n \in DOMAIN depths : depths[end] >= depths[n]
      BY <1>1, <1>4, DepthsAre
    <3> QED
      BY <1>4, <3>1
  <2>5. QueuedAt(end) \in Nat
    <3>1. end \in initialized
      BY <2>1, <2>4
    <3>2. Seen(end)
      BY <3>1 DEF LInv, LevelReached
    <3> QED
      BY <1>1, <1>4, <3>2 DEF InputsQueuedBefore
  <2> HIDE DEF depths
  <2> QED
    BY <1>2, <1>4, <2>2, <2>3, <2>4, <2>5
<1>6. CASE ~Stays(i)
  <2>1. ChooserDecides /\ ignored # {}
    BY <1>4, <1>6 DEF Stays
  <2> DEFINE k == Len(flow.ends)
             final == flow.ends[k]
  <2>2. k \in DOMAIN flow.ends /\ k \in Nat /\ final \in Node /\ i \in Nat /\ i <= k
    BY <1>1, <1>4
  <2>3. flow.chooser \in Node
    BY <1>1, <2>1 DEF LInv, IgnoredIsApart, FlowsFit
  <2>4. Distance(flow.edges, final)[flow.chooser] # None
    BY <2>1, <2>2 DEF ChooserDecides
  <2>5. y \in DOMAIN Depths(flow.edges, final)
    <3> HIDE DEF final
    <3>1. /\ DOMAIN Depths(flow.edges, final) = {n \in Node : Distance(flow.edges, final)[n] # None}
          /\ \A n \in DOMAIN Depths(flow.edges, final) :
               Predecessors(flow.edges, n) \subseteq DOMAIN Depths(flow.edges, final)
      BY <1>1, <2>2, DepthsAre
    <3>2. flow.chooser \in DOMAIN Depths(flow.edges, final)
      BY <2>3, <2>4, <3>1
    <3>3. end \in ignored
      BY <1>6 DEF Stays
    <3>4. DOMAIN depths \ ignored \subseteq DOMAIN Depths(flow.edges, final)
      BY <1>4, <3>1, <3>2, <3>3, EntersFromChooser
    <3> QED
      BY <1>4, <3>4
  <2>6. k <= i
    BY <1>3, <2>2, <2>5 DEF CountedFrom
  <2>7. i = k
    BY <2>2, <2>6
  <2> QED
    BY <1>6, <2>1, <2>7 DEF ChooserDecides
<1> QED
  BY <1>5, <1>6

\* The node that runs, when the flow is built.
LEMMA AnEndIsLast ==
  ASSUME IInv, LInv, MInv, queue = <<>>, ~flow.upsert,
         \A n \in EndingNodes(flow.edges) : IsEnd(n),
         \E i \in DOMAIN flow.ends : Stays(i),
         Len(flow.ends) = 1 \/ ignored = {} \/ ChooserDecides
  PROVE  IsEnd(NodeToExecute) /\ NodeToExecute \in initialized
<1>1. /\ flow.edges \in SUBSET Upwards /\ flow.ends \in Seq(Node) /\ FlowsFit
      /\ InputsQueuedBefore /\ EndMoves /\ LastMoved /\ EdgesAreFollowed /\ IgnoredIsApart
  BY Types DEF IInv, LInv, MInv
<1>2. PICK t \in Nat : LevelReached(t)
  BY DEF LInv
<1>3. ASSUME NEW i \in DOMAIN flow.ends, Stays(i)
      PROVE  /\ flow.ends[i] \in Node /\ flow.ends[i] \in initialized \ ignored
             /\ Seen(flow.ends[i]) /\ QueuedAt(flow.ends[i]) \in 0..t
             /\ Successors(flow.edges, flow.ends[i]) = {}
  <2> DEFINE end == flow.ends[i]
  <2>1. DOMAIN Depths(flow.edges, end) \subseteq initialized
    BY <1>3, StaysIsReached
  <2>2. end \in Node /\ Successors(flow.edges, end) = {} /\ end \notin ignored
    BY <1>1, <1>3 DEF EdgesAreFollowed, EndingNodes, Stays
  <2> HIDE DEF end
  <2>3. end \in initialized
    BY <1>1, <2>1, <2>2, DepthsAre
  <2>4. Seen(end) /\ QueuedAt(end) < t
    BY <1>2, <2>3 DEF LevelReached
  <2>5. QueuedAt(end) \in Nat
    BY <1>1, <2>2, <2>4 DEF InputsQueuedBefore
  <2>6. QueuedAt(end) \in 0..t
    BY <1>2, <2>4, <2>5
  <2> QED
    BY <2>2, <2>3, <2>4, <2>6 DEF end
<1>4. CASE Len(flow.ends) = 1
  <2>1. NodeToExecute = flow.ends[1] /\ DOMAIN flow.ends = {1}
    BY <1>1, <1>4 DEF NodeToExecute
  <2>2. Stays(1)
    BY <2>1
  <2> QED
    BY <1>3, <2>1, <2>2 DEF IsEnd
<1>5. CASE Len(flow.ends) # 1
  <2> DEFINE Dates == {QueuedAt(flow.ends[i]) : i \in {j \in DOMAIN flow.ends : Stays(j)}}
  <2>1. NodeToExecute = last /\ (ignored = {} \/ ChooserDecides)
    BY <1>5 DEF NodeToExecute
  <2>2. Dates \in SUBSET (0..t) /\ Dates # {}
    BY <1>3
  <2>3. PICK date \in Dates : \A d \in Dates : d <= date
    <3> HIDE DEF Dates
    <3> QED
      BY <1>2, <2>2, GreatestOf
  <2>4. PICK j \in DOMAIN flow.ends : Stays(j) /\ QueuedAt(flow.ends[j]) = date
    BY <2>3
  <2> DEFINE e == flow.ends[j]
  <2>5. /\ e \in Node /\ e \in initialized \ ignored /\ Seen(e)
        /\ Successors(flow.edges, e) = {}
    BY <1>3, <2>4
  <2>6. \A i \in DOMAIN flow.ends : Stays(i) => QueuedAt(flow.ends[i]) <= QueuedAt(e)
    BY <2>3, <2>4
  <2>7. ignored # {} => /\ flow.chooser \in Node /\ Successors(flow.edges, flow.chooser) # {}
                        /\ Distance(flow.edges, e)[flow.chooser] # None
    BY <1>1, <2>1, <2>4 DEF IgnoredIsApart, FlowsFit, ChooserDecides
  <2> HIDE DEF e
  <2>8. SameDepth(QueuedAt(e) + 1) \subseteq ignored
    BY <2>1, <2>5, <2>6, LastEndHasNoLevel
  <2>9. ignored # {} => Behind(e)
    <3>1. DOMAIN Depths(flow.edges, e) = {n \in Node : Distance(flow.edges, e)[n] # None}
      BY <1>1, <2>5, DepthsAre
    <3> QED
      BY <2>5, <2>7, <3>1 DEF Behind
  <2>10. last # None /\ last \notin ignored
    BY <1>1, <2>5, <2>8, <2>9 DEF EndMoves
  <2>11. /\ last \in initialized
         /\ \/ Successors(flow.edges, last) = {}
            \/ last = flow.chooser /\ Successors(flow.edges, last) \subseteq ignored
    BY <1>1, <2>10 DEF LastMoved
  <2>12. Successors(flow.edges, last) = {}
    <3> SUFFICES ASSUME Successors(flow.edges, last) # {}, last = flow.chooser,
                        Successors(flow.edges, last) \subseteq ignored
                 PROVE  FALSE
      BY <2>11
    <3>1. ChooserDecides /\ Behind(e)
      BY <2>1, <2>9
    <3>2. DOMAIN Depths(flow.edges, e) \cap ignored = {}
      BY <2>4, <3>1, StaysTogether DEF ChooserDecides, e
    <3>3. flow.chooser \in DOMAIN Depths(flow.edges, e) \ {e}
      BY <3>1 DEF Behind
    <3>4. \E m \in Successors(flow.edges, flow.chooser) : m \in DOMAIN Depths(flow.edges, e)
      BY <1>1, <2>5, <3>3, DepthsAre
    <3> QED
      BY <3>2, <3>4
  <2>13. last \in EndingNodes(flow.edges)
    <3>1. Seen(last)
      BY <1>2, <2>11 DEF LevelReached
    <3>2. last \in Node
      BY <2>11, Types DEF IInv
    <3>3. last \in Attached
      BY <1>1, <3>1, <3>2 DEF EdgesAreFollowed
    <3> QED
      BY <2>12, <3>3 DEF Attached, EndingNodes
  <2> QED
    BY <2>1, <2>11, <2>13
<1> QED
  BY <1>4, <1>5
--------------------------------------------------------------------------------
\* The theorems

\* The invariant holds in every reachable state.
LEMMA Invariance == Spec => []IInv
  BY InitHolds, NextHolds, PTL DEF Spec

\* Every variable of buildFlow keeps its type; in particular no depth exceeds the number of
\* nodes.
THEOREM TypeCorrect == Spec => []TypeOK
<1>1. IInv => TypeOK
  BY DEF IInv
<1> QED
  BY <1>1, Invariance, PTL

\* A node of a flow is initialised after all nodes its inputs come from, however the queue
\* comes to it (buildFlow).
THEOREM InputsComeFirst == Spec => []DependenciesFirst
<1>1. IInv => DependenciesFirst
  BY DEF IInv
<1> QED
  BY <1>1, Invariance, PTL

\* The node that the first refused edge of an ifElse node leads to is never initialised.
THEOREM RefusedNeverRuns == Spec => []RefusedIsOut
<1>1. IInv => RefusedIsOut
  BY DEF IInv
<1> QED
  BY <1>1, Invariance, PTL

\* An upsert runs no node twice, the vector store it stops at included.
THEOREM UpsertsOnce == Spec => []UpsertOnce
<1>1. IInv => UpsertOnce
  BY DEF IInv
<1> QED
  BY <1>1, Invariance, PTL

\* With two repetitions or more, in the code there are three, the limit cuts nothing off: a
\* node is queued by the level in front of it and once more by its own, never a third time,
\* whatever the size of the flow.
THEOREM LimitNeverReached == ASSUME MaxLoop > 1 PROVE Spec => []NeverExhausted
<1>1. IInv /\ EInv /\ [Next]_vars => EInv'
  BY NextQueues
<1>2. Spec => [](IInv /\ EInv)
  BY <1>1, InitHolds, NextHolds, InitQueues, PTL DEF Spec
<1>3. IInv /\ EInv => NeverExhausted
  <2> SUFFICES ASSUME IInv, EInv, NEW i \in DOMAIN queue
               PROVE  explored[queue[i].node].remainingLoop > 0
    BY DEF NeverExhausted
  <2>1. queue[i].node \in Node
    BY Types DEF IInv
  <2>2. explored[queue[i].node].remainingLoop \in {MaxLoop, MaxLoop - 1}
    BY <2>1 DEF EInv, QueuedTwice
  <2> QED
    BY <2>2, BuildAssumption
<1> QED
  BY <1>2, <1>3, PTL

\* What holds at the end of every level, with two repetitions or more.
LEMMA LevelInvariance == ASSUME MaxLoop > 1 PROVE Spec => [](IInv /\ EInv /\ LInv)
<1>1. IInv /\ EInv /\ [Next]_vars => EInv'
  BY NextQueues
<1>2. IInv /\ EInv /\ LInv /\ [Next]_vars => LInv'
  BY NextLevels
<1> QED
  BY <1>1, <1>2, InitHolds, NextHolds, InitQueues, InitLevels, PTL DEF Spec

\* When a flow is built, every node that leads to an ending node was initialised or ruled out,
\* whatever the order of the edges and of the ending nodes: no node waits for a level that
\* comes too early, or is missed between the depths of two ending nodes (buildFlow).
THEOREM EveryNodeIsReached == ASSUME MaxLoop > 1 PROVE Spec => []AllReached
<1>1. IInv /\ EInv /\ LInv => AllReached
  <2> SUFFICES ASSUME IInv, LInv, pc = "built"
               PROVE  DOMAIN depthQueue \ ignored \subseteq initialized
    BY DEF AllReached
  <2>1. queue = <<>>
    BY DEF LInv
  <2> QED
    BY <2>1, NothingIsLeft
<1> QED
  BY <1>1, LevelInvariance, PTL

\* The node that runs with the question is an ending node that was initialised, when every node
\* without successors is an ending node and one of them stays, and an ifElse node that rules
\* some out decides between them (executeFlow, initEndingNode): the last node to move to the
\* end of the flow's nodes is the last of the ending nodes, and never another one.
THEOREM AnEndRuns == ASSUME MaxLoop > 1 PROVE Spec => []ExecutesEnd
<1>1. IInv /\ EInv /\ LInv /\ MInv /\ [Next]_vars => MInv'
  BY NextMoves
<1>2. IInv /\ LInv /\ MInv => ExecutesEnd
  <2> SUFFICES ASSUME IInv, LInv, MInv, pc = "built", ~flow.upsert,
                      \A n \in EndingNodes(flow.edges) : IsEnd(n),
                      \E i \in DOMAIN flow.ends : Stays(i),
                      Len(flow.ends) = 1 \/ ignored = {} \/ ChooserDecides
               PROVE  IsEnd(NodeToExecute) /\ NodeToExecute \in initialized
    BY DEF ExecutesEnd
  <2>1. queue = <<>>
    BY DEF LInv
  <2> QED
    BY <2>1, AnEndIsLast
<1> QED
  BY <1>1, <1>2, LevelInvariance, InitMoves, PTL DEF Spec
================================================================================
