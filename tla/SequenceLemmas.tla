----------------------------- MODULE SequenceLemmas -----------------------------
(***************************************************************************)
(* Facts about numbers up to a bound, about recursion along them, and      *)
(* about sequences, for the proofs of several modules.                     *)
(***************************************************************************)
EXTENDS Integers, Sequences, FiniteSets, FiniteSetTheorems, WellFoundedInduction, TLAPS

--------------------------------------------------------------------------------
\* Numbers up to a bound

\* Every non-empty set of numbers up to a bound has a least one.
LEMMA LeastOf ==
  ASSUME NEW b \in Nat, NEW S \in SUBSET (0..b), S # {}
  PROVE  \E m \in S : \A k \in S : m <= k
<1> DEFINE UpTo(k) == 0..k
           Heads == {UpTo(k) : k \in S}
<1>1. IsFiniteSet(0..b)
  BY FS_Interval
<1>2. IsWellFoundedOn(StrictSubsetOrdering(0..b), SUBSET (0..b))
  BY <1>1, FS_StrictSubsetOrderingWellFounded, FS_FiniteSubsetsOfFinite
<1>3. Heads \subseteq SUBSET (0..b) /\ Heads # {}
  <2>1. \A k \in S : UpTo(k) \in SUBSET (0..b)
    OBVIOUS
  <2> HIDE DEF UpTo
  <2> QED
    BY <2>1
<1> HIDE DEF Heads
<1>4. PICK H \in Heads : \A G \in Heads : <<G, H>> \notin StrictSubsetOrdering(0..b)
  BY <1>2, <1>3, WFMin
<1>5. PICK m \in S : H = UpTo(m)
  BY <1>4 DEF Heads
<1>6. ASSUME NEW k \in S, ~(m <= k) PROVE FALSE
  <2>1. UpTo(k) \in Heads /\ UpTo(k) \in SUBSET (0..b) /\ H \in SUBSET (0..b)
    <3> HIDE DEF UpTo
    <3> QED
      BY <1>3, <1>4 DEF Heads
  <2>2. UpTo(k) \subseteq H /\ m \in H /\ m \notin UpTo(k)
    BY <1>5, <1>6
  <2> QED
    BY <1>4, <2>1, <2>2 DEF StrictSubsetOrdering
<1> QED
  BY <1>6, <1>5

\* The same for the greatest one.
LEMMA GreatestOf ==
  ASSUME NEW b \in Nat, NEW S \in SUBSET (0..b), S # {}
  PROVE  \E m \in S : \A k \in S : k <= m
<1> DEFINE R == {b - k : k \in S}
<1>1. R \in SUBSET (0..b) /\ R # {}
  <2>1. \A k \in S : b - k \in 0..b
    OBVIOUS
  <2> QED
    BY <2>1
<1>2. PICK r \in R : \A k \in R : r <= k
  <2> HIDE DEF R
  <2> QED
    BY <1>1, LeastOf
<1>3. PICK m \in S : r = b - m
  BY <1>2
<1>4. \A k \in S : k <= m
  <2> SUFFICES ASSUME NEW k \in S PROVE k <= m
    OBVIOUS
  <2>1. b - k \in R
    OBVIOUS
  <2>2. b - m <= b - k
    BY <1>2, <1>3, <2>1
  <2> QED
    BY <2>2
<1> QED
  BY <1>4

\* What holds at 0 and passes from each number to the next holds up to the bound.
LEMMA Carried ==
  ASSUME NEW V, NEW n \in Nat, NEW h, h[0] \in V, \A i \in 1..n : h[i - 1] \in V => h[i] \in V
  PROVE  \A i \in 0..n : h[i] \in V
<1> DEFINE Bad == {i \in 0..n : h[i] \notin V}
<1> SUFFICES ASSUME Bad # {} PROVE FALSE
  OBVIOUS
<1>1. PICK m \in Bad : \A k \in Bad : m <= k
  <2>1. Bad \in SUBSET (0..n)
    OBVIOUS
  <2> HIDE DEF Bad
  <2> QED
    BY <2>1, LeastOf
<1>2. m \in 1..n /\ m - 1 \in 0..n /\ m - 1 \notin Bad
  BY <1>1
<1> QED
  BY <1>2

\* A set that holds 0, and with each number the next, holds all numbers up to the bound.
LEMMA UpToBound ==
  ASSUME NEW n \in Nat, NEW T, 0 \in T, \A i \in 1..n : i - 1 \in T => i \in T
  PROVE  \A i \in 0..n : i \in T
<1> DEFINE h == [i \in 0..n |-> i]
<1>1. h[0] \in T /\ \A i \in 1..n : h[i - 1] \in T => h[i] \in T
  OBVIOUS
<1>2. \A i \in 0..n : h[i] \in T
  <2> HIDE DEF h
  <2> QED
    BY <1>1, Carried
<1> QED
  BY <1>2

\* The steps of a recursion along the numbers up to a bound, and what its result is.
StepsOf(V, n) == [1..n -> [V -> V]]

ResultOf(V, base, n, f, h) ==
  /\ h \in [0..n -> V]
  /\ h[0] = base
  /\ \A i \in 1..n : h[i] = f[i][h[i - 1]]

\* A recursion along the numbers up to a bound has a result.
LEMMA Recursion ==
  ASSUME NEW V, NEW base \in V, NEW n \in Nat, NEW f \in StepsOf(V, n)
  PROVE  \E h : ResultOf(V, base, n, f, h)
<1> DEFINE Right(h, k) == /\ h \in [0..n -> V]
                          /\ h[0] = base
                          /\ \A i \in 1..k : h[i] = f[i][h[i - 1]]
           Reached == {k \in 0..n : \E h : Right(h, k)}
           reached == [k \in 0..n |-> k]
<1> USE DEF StepsOf
<1>1. 0 \in Reached
  <2> DEFINE g == [i \in 0..n |-> base]
  <2>1. Right(g, 0)
    OBVIOUS
  <2> HIDE DEF Right, g
  <2> QED
    BY <2>1
<1>2. ASSUME NEW k \in 1..n, k - 1 \in Reached PROVE k \in Reached
  <2>1. PICK h : Right(h, k - 1)
    BY <1>2
  <2> DEFINE g == [h EXCEPT ![k] = f[k][h[k - 1]]]
  <2>2. h[k - 1] \in V /\ k \in 0..n
    BY <2>1
  <2>3. f[k][h[k - 1]] \in V
    BY <2>2
  <2>4. g \in [0..n -> V] /\ g[0] = base
    BY <2>1, <2>3
  <2>5. \A i \in 1..k : g[i] = f[i][g[i - 1]]
    BY <2>1, <2>2
  <2>6. Right(g, k)
    BY <2>4, <2>5
  <2> HIDE DEF Right, g
  <2> QED
    BY <2>2, <2>6
<1>3. \A k \in 0..n : reached[k] \in Reached
  <2> HIDE DEF Reached
  <2>1. reached[0] \in Reached /\ \A k \in 1..n : reached[k - 1] \in Reached => reached[k] \in Reached
    BY <1>1, <1>2
  <2> HIDE DEF reached
  <2> QED
    BY <2>1, Carried
<1> QED
  <2>1. PICK h : Right(h, n)
    <3>1. n \in Reached
      BY <1>3
    <3> HIDE DEF Right
    <3> QED
      BY <3>1
  <2>2. ResultOf(V, base, n, f, h)
    BY <2>1 DEF ResultOf
  <2> QED
    BY <2>2

--------------------------------------------------------------------------------
\* Sequences

\* The elements of a sequence, and its head.
LEMMA Elements ==
  ASSUME NEW S, NEW s \in Seq(S)
  PROVE  /\ Len(s) \in Nat /\ DOMAIN s = 1..Len(s) /\ \A i \in DOMAIN s : s[i] \in S
         /\ s # <<>> => Len(s) # 0 /\ 1 \in DOMAIN s /\ Head(s) = s[1]
  OBVIOUS

\* A function on the numbers up to a bound is a sequence.
LEMMA Listing ==
  ASSUME NEW S, NEW s, NEW k \in Nat, s = [i \in 1..k |-> s[i]], \A i \in 1..k : s[i] \in S
  PROVE  s \in Seq(S) /\ Len(s) = k
  OBVIOUS

\* A sequence without its head, and with another one behind it.
LEMMA TailAnd ==
  ASSUME NEW S, NEW s \in Seq(S), s # <<>>, NEW t \in Seq(S)
  PROVE  LET u == Tail(s) \o t
         IN /\ u \in Seq(S) /\ DOMAIN u = 1..(Len(s) - 1 + Len(t))
            /\ \A i \in 1..(Len(s) - 1) : u[i] = s[i + 1]
            /\ \A i \in 1..Len(t) : u[Len(s) - 1 + i] = t[i]
<1>1. /\ Tail(s) \in Seq(S) /\ Len(Tail(s)) = Len(s) - 1
      /\ \A i \in 1..(Len(s) - 1) : Tail(s)[i] = s[i + 1]
  OBVIOUS
<1>2. Len(s) \in Nat \ {0} /\ Len(t) \in Nat
  OBVIOUS
<1> QED
  BY <1>1, <1>2
================================================================================
