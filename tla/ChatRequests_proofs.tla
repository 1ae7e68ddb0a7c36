------------------------- MODULE ChatRequests_proofs -------------------------
(***************************************************************************)
(* Proofs about ChatRequests for any set of requests, chats and workers,   *)
(* any limit, and any number of aborts, crashes and renewals.              *)
(***************************************************************************)
EXTENDS ChatRequests, TLAPS

\* Queues and workers belong to one mode, the pool of the server to the other.
ModesApart ==
  /\ mode = "main" => \A r \in Req : pc[r] # "queued" /\ on[r] = None
  /\ mode = "queue" => /\ \A k \in Chat : pool[k] = None
                       /\ \A r \in Req : pc[r] = "running" => on[r] \in Worker

\* A controller is registered under the chat of its request, and an event is
\* about a chat whose abort was asked for.
KeysFit ==
  /\ \A k \in Chat : pool[k] # None => chat[pool[k]] = k
  /\ \A w \in Worker, k \in Chat : wpool[w][k] # None => chat[wpool[w][k]] = k
  /\ \A w \in Worker : inbox[w] \subseteq history.asked

\* A request that has its chat for itself has met nobody there, and the others
\* that are under way are requests of other chats.
SharedIsKnown ==
  \A r, p \in Active : r # p /\ chat[r] = chat[p] => r \in history.shared

\* What an update has read: the counter itself, unless updates overlapped, and
\* nothing above the predictions of the month.
ReadIsRecent ==
  /\ history.carried => history.lossy
  /\ ~history.carried => \A r \in Updating : seen[r] <= history.tally
  /\ ~history.lossy => /\ \A r \in Updating : seen[r] = count
                       /\ \A r, p \in Updating : r = p

\* Who comes alone finds the predictions of all before it in the counter.
AloneIsCounted ==
  ~history.met => /\ \A r, p \in Active : r = p
                  /\ history.tally <= count
                  /\ \A r \in Active : pc[r] # "settling" => history.tally < Limit
                  /\ \A r \in Updating : history.tally <= seen[r]

-----------------------------------------------------------------------------
\* Every variable keeps its type.
LEMMA InitType == Init => TypeOK
<1> SUFFICES ASSUME Init PROVE TypeOK
  OBVIOUS
<1>1. count \in 0..Limit /\ seen \in [Req -> 0..Limit] /\ stalls \in [Req -> 0..1]
  BY RequestsAssumption DEF Init
<1>2. bounds \in [aborts : 0..MaxAborts, crashes : 0..MaxCrashes, renewals : 0..MaxRenewals]
  BY RequestsAssumption DEF Init
<1>3. mode \in Modes /\ chat \in [Req -> Chat]
  BY RequestsAssumption DEF Init
<1> QED
  BY <1>1, <1>2, <1>3 DEF Init, TypeOK, Ended

\* ... and every step keeps it.
LEMMA NextType == TypeOK /\ [Next]_vars => TypeOK'
<1> SUFFICES ASSUME TypeOK, [Next]_vars PROVE TypeOK'
  OBVIOUS
<1> USE RequestsAssumption DEF TypeOK, Ended, GoTo, requests, controls, usage
<1>1. ASSUME NEW r \in Req, Check(r) PROVE TypeOK'
  BY <1>1 DEF Check, Arrive, Active
<1>2. ASSUME NEW r \in Req, Refuse(r) PROVE TypeOK'
  BY <1>2 DEF Refuse, Arrive, Active, Remove
<1>3. ASSUME NEW r \in Req, NoQuota(r) PROVE TypeOK'
  BY <1>3 DEF NoQuota, Remove
<1>4. ASSUME NEW r \in Req, Execute(r) PROVE TypeOK'
  BY <1>4 DEF Execute, Add
<1>5. ASSUME NEW r \in Req, AddJob(r) PROVE TypeOK'
  BY <1>5 DEF AddJob
<1>6. ASSUME NEW r \in Req, NEW w \in Worker, PickUp(r, w) PROVE TypeOK'
  BY <1>6 DEF PickUp, Register
<1>7. ASSUME NEW r \in Req, Return(r) \/ Throw(r) PROVE TypeOK'
  <2>1. CASE Return(r)
    BY <2>1 DEF Return, Remove
  <2>2. CASE Throw(r)
    BY <2>2 DEF Throw
  <2> QED
    BY <1>7, <2>1, <2>2
<1>8. ASSUME NEW r \in Req, ReadUsage(r) PROVE TypeOK'
  BY <1>8 DEF ReadUsage, Updating
<1>9. ASSUME NEW r \in Req, WriteUsage(r) PROVE TypeOK'
  <2>1. count' \in 0..Limit
    BY <1>9 DEF WriteUsage, UsageAfter, Smaller
  <2>2. history' \in [shared : SUBSET Req, met : BOOLEAN, wanted : SUBSET Req,
                      asked : SUBSET Chat, tally : Nat, lossy : BOOLEAN, carried : BOOLEAN]
    <3>1. history' = [history EXCEPT !.tally = history.tally + 1]
      BY <1>9 DEF WriteUsage
    <3>2. history.tally + 1 \in Nat
      OBVIOUS
    <3> QED
      BY <3>1, <3>2
  <2>3. /\ pc' = [pc EXCEPT ![r] = "settling"] /\ seen' = [seen EXCEPT ![r] = 0]
        /\ UNCHANGED <<mode, chat, on, stalls, controls, bounds>>
    BY <1>9 DEF WriteUsage
  <2> QED
    BY <2>1, <2>2, <2>3
<1>10. ASSUME NEW r \in Req, UsageThrows(r) PROVE TypeOK'
  BY <1>10 DEF UsageThrows
<1>11. ASSUME NEW k \in Chat, Abort(k) PROVE TypeOK'
  <2>1. bounds' \in [aborts : 0..MaxAborts, crashes : 0..MaxCrashes, renewals : 0..MaxRenewals]
    BY <1>11 DEF Abort
  <2>2. /\ pool' \in [Chat -> Req \cup {None}] /\ aborted' \in [Req -> BOOLEAN]
        /\ wpool' = wpool /\ inbox' \in [Worker -> SUBSET Chat]
    <3>1. CASE mode = "main"
      <4>1. pool' = [pool EXCEPT ![k] = None] /\ UNCHANGED <<wpool, inbox>>
        BY <1>11, <3>1 DEF Abort, Remove
      <4>2. aborted' = [p \in Req |-> aborted[p] \/ pool[k] = p]
        BY <1>11, <3>1 DEF Abort
      <4>3. aborted' \in [Req -> BOOLEAN]
        BY <4>2, Zenon
      <4> QED
        BY <4>1, <4>3
    <3>2. CASE mode # "main"
      BY <1>11, <3>2 DEF Abort
    <3> QED
      BY <3>1, <3>2
  <2>3. history' \in [shared : SUBSET Req, met : BOOLEAN, wanted : SUBSET Req,
                      asked : SUBSET Chat, tally : Nat, lossy : BOOLEAN, carried : BOOLEAN]
    BY <1>11 DEF Abort
  <2> QED
    BY <1>11, <2>1, <2>2, <2>3 DEF Abort
<1>12. ASSUME NEW w \in Worker, NEW k \in Chat, Deliver(w, k) PROVE TypeOK'
  BY <1>12 DEF Deliver
<1>13. ASSUME NEW w \in Worker, CrashWorker(w) PROVE TypeOK'
  <2>1. bounds' \in [aborts : 0..MaxAborts, crashes : 0..MaxCrashes, renewals : 0..MaxRenewals]
    BY <1>13, SMTT(30) DEF CrashWorker
  <2>2. wpool' \in [Worker -> [Chat -> Req \cup {None}]] /\ inbox' \in [Worker -> SUBSET Chat]
    BY <1>13 DEF CrashWorker
  <2>3. history' \in [shared : SUBSET Req, met : BOOLEAN, wanted : SUBSET Req,
                      asked : SUBSET Chat, tally : Nat, lossy : BOOLEAN, carried : BOOLEAN]
    BY <1>13 DEF CrashWorker
  <2>4. /\ pc' \in [Req -> {"new", "checked", "queued", "running", "counting", "read",
                             "settling", "failing"} \cup Ended]
        /\ stalls' \in [Req -> 0..1] /\ on' \in [Req -> Worker \cup {None}]
    BY <1>13 DEF CrashWorker
  <2> QED
    BY <1>13, <2>1, <2>2, <2>3, <2>4 DEF CrashWorker
<1>14. ASSUME Renew PROVE TypeOK'
  <2>1. bounds' \in [aborts : 0..MaxAborts, crashes : 0..MaxCrashes, renewals : 0..MaxRenewals]
    BY <1>14 DEF Renew
  <2>2. count' = 0 /\ UNCHANGED <<requests, controls, seen>>
    BY <1>14 DEF Renew
  <2> DEFINE overlap == Updating # {}
  <2>3. overlap \in BOOLEAN
    OBVIOUS
  <2>4. history' = [history EXCEPT !.tally = 0, !.lossy = overlap, !.carried = overlap]
    BY <1>14 DEF Renew
  <2> HIDE DEF overlap
  <2>5. history' \in [shared : SUBSET Req, met : BOOLEAN, wanted : SUBSET Req,
                      asked : SUBSET Chat, tally : Nat, lossy : BOOLEAN, carried : BOOLEAN]
    BY <2>3, <2>4
  <2> QED
    BY <2>1, <2>2, <2>5
<1>15. CASE UNCHANGED vars
  BY <1>15 DEF vars
<1>16. ASSUME NEW r \in Req, Settle(r) PROVE TypeOK'
  BY <1>16 DEF Settle
<1>17. ASSUME NEW r \in Req, Catch(r) PROVE TypeOK'
  BY <1>17 DEF Catch, Remove
<1> QED
  BY <1>1, <1>2, <1>3, <1>4, <1>5, <1>6, <1>7, <1>8, <1>9, <1>10, <1>11, <1>12, <1>13, <1>14,
     <1>15, <1>16, <1>17 DEF Next, Step

\* The variables of ChatRequests keep their types, however many requests,
\* workers and crashes there are (utilBuildChatflow, the pools and the counter).
THEOREM TypeCorrect == Spec => []TypeOK
  BY InitType, NextType, PTL DEF Spec

-----------------------------------------------------------------------------
\* The pool of the server is used in one mode, queues and workers in the other.
LEMMA ModesNext == TypeOK /\ ModesApart /\ [Next]_vars => ModesApart'
<1> SUFFICES ASSUME TypeOK, ModesApart, [Next]_vars PROVE ModesApart'
  OBVIOUS
<1> USE RequestsAssumption DEF TypeOK, Ended, ModesApart, GoTo, requests, controls, usage
<1>1. ASSUME NEW r \in Req, Check(r) PROVE ModesApart'
  BY <1>1 DEF Check, Arrive
<1>2. ASSUME NEW r \in Req, Refuse(r) PROVE ModesApart'
  BY <1>2 DEF Refuse, Arrive, Remove
<1>3. ASSUME NEW r \in Req, NoQuota(r) PROVE ModesApart'
  BY <1>3 DEF NoQuota, Remove
<1>4. ASSUME NEW r \in Req, Execute(r) PROVE ModesApart'
  BY <1>4 DEF Execute, Add
<1>5. ASSUME NEW r \in Req, AddJob(r) PROVE ModesApart'
  BY <1>5 DEF AddJob
<1>6. ASSUME NEW r \in Req, NEW w \in Worker, PickUp(r, w) PROVE ModesApart'
  BY <1>6 DEF PickUp, Register
<1>7. ASSUME NEW r \in Req, Return(r) \/ Throw(r) PROVE ModesApart'
  BY <1>7 DEF Return, Throw, MayEnd, Remove
<1>8. ASSUME NEW r \in Req, ReadUsage(r) PROVE ModesApart'
  BY <1>8 DEF ReadUsage
<1>9. ASSUME NEW r \in Req, WriteUsage(r) PROVE ModesApart'
  BY <1>9 DEF WriteUsage
<1>10. ASSUME NEW r \in Req, UsageThrows(r) PROVE ModesApart'
  BY <1>10 DEF UsageThrows
<1>11. ASSUME NEW k \in Chat, Abort(k) PROVE ModesApart'
  BY <1>11 DEF Abort, Remove
<1>12. ASSUME NEW w \in Worker, NEW k \in Chat, Deliver(w, k) PROVE ModesApart'
  BY <1>12 DEF Deliver, Held
<1>13. ASSUME NEW w \in Worker, CrashWorker(w) PROVE ModesApart'
  BY <1>13 DEF CrashWorker
<1>14. ASSUME Renew PROVE ModesApart'
  BY <1>14 DEF Renew
<1>15. CASE UNCHANGED vars
  BY <1>15 DEF vars
<1>16. ASSUME NEW r \in Req, Settle(r) PROVE ModesApart'
  BY <1>16 DEF Settle
<1>17. ASSUME NEW r \in Req, Catch(r) PROVE ModesApart'
  BY <1>17 DEF Catch, Remove
<1> QED
  BY <1>1, <1>2, <1>3, <1>4, <1>5, <1>6, <1>7, <1>8, <1>9, <1>10, <1>11, <1>12, <1>13, <1>14,
     <1>15, <1>16, <1>17 DEF Next, Step

\* So they stay apart for ever.
LEMMA ModesAlways == Spec => []ModesApart
<1>1. Init => ModesApart
  BY RequestsAssumption DEF Init, ModesApart
<1> QED
  BY <1>1, TypeCorrect, ModesNext, PTL DEF Spec

\* A step that ends a request whose controller may be there removes the entry of its chat.
LEMMA PoolNext ==
  TypeOK /\ ModesApart /\ PooledIsUnderWay /\ [Next]_vars => PooledIsUnderWay'
<1> SUFFICES ASSUME TypeOK, ModesApart, PooledIsUnderWay, [Next]_vars PROVE PooledIsUnderWay'
  OBVIOUS
<1> USE RequestsAssumption
        DEF TypeOK, Ended, ModesApart, PooledIsUnderWay, GoTo, requests, controls, usage
<1>1. ASSUME NEW r \in Req, Check(r) PROVE PooledIsUnderWay'
  BY <1>1 DEF Check, Arrive
<1>2. ASSUME NEW r \in Req, Refuse(r) PROVE PooledIsUnderWay'
  BY <1>2 DEF Refuse, Arrive, Remove
<1>3. ASSUME NEW r \in Req, NoQuota(r) PROVE PooledIsUnderWay'
  BY <1>3 DEF NoQuota, Remove
<1>4. ASSUME NEW r \in Req, Execute(r) PROVE PooledIsUnderWay'
  BY <1>4 DEF Execute, Add
<1>5. ASSUME NEW r \in Req, AddJob(r) PROVE PooledIsUnderWay'
  BY <1>5 DEF AddJob
<1>6. ASSUME NEW r \in Req, NEW w \in Worker, PickUp(r, w) PROVE PooledIsUnderWay'
  BY <1>6 DEF PickUp, Register
<1>7. ASSUME NEW r \in Req, Return(r) \/ Throw(r) PROVE PooledIsUnderWay'
  BY <1>7 DEF Return, Throw, MayEnd, Remove
<1>8. ASSUME NEW r \in Req, ReadUsage(r) PROVE PooledIsUnderWay'
  BY <1>8 DEF ReadUsage
<1>9. ASSUME NEW r \in Req, WriteUsage(r) PROVE PooledIsUnderWay'
  BY <1>9 DEF WriteUsage
<1>10. ASSUME NEW r \in Req, UsageThrows(r) PROVE PooledIsUnderWay'
  BY <1>10 DEF UsageThrows
<1>11. ASSUME NEW k \in Chat, Abort(k) PROVE PooledIsUnderWay'
  BY <1>11 DEF Abort, Remove
<1>12. ASSUME NEW w \in Worker, NEW k \in Chat, Deliver(w, k) PROVE PooledIsUnderWay'
  BY <1>12 DEF Deliver, Held
<1>13. ASSUME NEW w \in Worker, CrashWorker(w) PROVE PooledIsUnderWay'
  BY <1>13 DEF CrashWorker
<1>14. ASSUME Renew PROVE PooledIsUnderWay'
  BY <1>14 DEF Renew
<1>15. CASE UNCHANGED vars
  BY <1>15 DEF vars
<1>16. ASSUME NEW r \in Req, Settle(r) PROVE PooledIsUnderWay'
  BY <1>16 DEF Settle
<1>17. ASSUME NEW r \in Req, Catch(r) PROVE PooledIsUnderWay'
  BY <1>17 DEF Catch, Remove
<1> QED
  BY <1>1, <1>2, <1>3, <1>4, <1>5, <1>6, <1>7, <1>8, <1>9, <1>10, <1>11, <1>12, <1>13, <1>14,
     <1>15, <1>16, <1>17 DEF Next, Step

\* No controller outlives its request or is kept under another chat, although a request
\* that failed keeps its own until its unit is released: whoever ends removes the entry
\* of its chat, whoever it belongs to by then (utilBuildChatflow, releaseQuotaSafely).
THEOREM PoolHasUnderWay == Spec => []PooledIsUnderWay
<1>1. Init => PooledIsUnderWay
  BY RequestsAssumption DEF Init, PooledIsUnderWay
<1> QED
  BY <1>1, TypeCorrect, ModesAlways, PoolNext, PTL DEF Spec

\* Controllers and events keep to their chats.
LEMMA KeysNext == TypeOK /\ KeysFit /\ [Next]_vars => KeysFit'
<1> SUFFICES ASSUME TypeOK, KeysFit, [Next]_vars PROVE KeysFit'
  OBVIOUS
<1> USE RequestsAssumption DEF TypeOK, Ended, KeysFit, GoTo, requests, controls, usage
<1>1. ASSUME NEW r \in Req, Check(r) PROVE KeysFit'
  BY <1>1 DEF Check, Arrive
<1>2. ASSUME NEW r \in Req, Refuse(r) PROVE KeysFit'
  BY <1>2 DEF Refuse, Arrive, Remove
<1>3. ASSUME NEW r \in Req, NoQuota(r) PROVE KeysFit'
  BY <1>3 DEF NoQuota, Remove
<1>4. ASSUME NEW r \in Req, Execute(r) PROVE KeysFit'
  BY <1>4 DEF Execute, Add
<1>5. ASSUME NEW r \in Req, AddJob(r) PROVE KeysFit'
  BY <1>5 DEF AddJob
<1>6. ASSUME NEW r \in Req, NEW w \in Worker, PickUp(r, w) PROVE KeysFit'
  BY <1>6 DEF PickUp, Register
<1>7. ASSUME NEW r \in Req, Return(r) \/ Throw(r) PROVE KeysFit'
  BY <1>7 DEF Return, Throw, MayEnd, Remove
<1>8. ASSUME NEW r \in Req, ReadUsage(r) PROVE KeysFit'
  BY <1>8 DEF ReadUsage
<1>9. ASSUME NEW r \in Req, WriteUsage(r) PROVE KeysFit'
  BY <1>9 DEF WriteUsage
<1>10. ASSUME NEW r \in Req, UsageThrows(r) PROVE KeysFit'
  BY <1>10 DEF UsageThrows
<1>11. ASSUME NEW k \in Chat, Abort(k) PROVE KeysFit'
  <2>1. CASE mode = "main"
    BY <1>11, <2>1 DEF Abort, Remove
  <2>2. CASE mode # "main"
    BY <1>11, <2>2 DEF Abort
  <2> QED
    BY <2>1, <2>2
<1>12. ASSUME NEW w \in Worker, NEW k \in Chat, Deliver(w, k) PROVE KeysFit'
  BY <1>12 DEF Deliver, Held
<1>13. ASSUME NEW w \in Worker, CrashWorker(w) PROVE KeysFit'
  BY <1>13 DEF CrashWorker
<1>14. ASSUME Renew PROVE KeysFit'
  BY <1>14 DEF Renew
<1>15. CASE UNCHANGED vars
  BY <1>15 DEF vars
<1>16. ASSUME NEW r \in Req, Settle(r) PROVE KeysFit'
  BY <1>16 DEF Settle
<1>17. ASSUME NEW r \in Req, Catch(r) PROVE KeysFit'
  BY <1>17 DEF Catch, Remove
<1> QED
  BY <1>1, <1>2, <1>3, <1>4, <1>5, <1>6, <1>7, <1>8, <1>9, <1>10, <1>11, <1>12, <1>13, <1>14,
     <1>15, <1>16, <1>17 DEF Next, Step

\* So they always do.
LEMMA KeysAlways == Spec => []KeysFit
<1>1. Init => KeysFit
  BY RequestsAssumption DEF Init, KeysFit
<1> QED
  BY <1>1, TypeCorrect, KeysNext, PTL DEF Spec

\* A step aborts only what a pool has under a chat somebody asked for.
LEMMA AskedNext ==
  TypeOK /\ KeysFit /\ OnlyAskedIsAborted /\ [Next]_vars => OnlyAskedIsAborted'
<1> SUFFICES ASSUME TypeOK, KeysFit, OnlyAskedIsAborted, [Next]_vars PROVE OnlyAskedIsAborted'
  OBVIOUS
<1> USE RequestsAssumption
        DEF TypeOK, Ended, KeysFit, OnlyAskedIsAborted, GoTo, requests, controls, usage
<1>1. ASSUME NEW r \in Req, Check(r) PROVE OnlyAskedIsAborted'
  BY <1>1 DEF Check, Arrive
<1>2. ASSUME NEW r \in Req, Refuse(r) PROVE OnlyAskedIsAborted'
  BY <1>2 DEF Refuse, Arrive, Remove
<1>3. ASSUME NEW r \in Req, NoQuota(r) PROVE OnlyAskedIsAborted'
  BY <1>3 DEF NoQuota, Remove
<1>4. ASSUME NEW r \in Req, Execute(r) PROVE OnlyAskedIsAborted'
  BY <1>4 DEF Execute, Add
<1>5. ASSUME NEW r \in Req, AddJob(r) PROVE OnlyAskedIsAborted'
  BY <1>5 DEF AddJob
<1>6. ASSUME NEW r \in Req, NEW w \in Worker, PickUp(r, w) PROVE OnlyAskedIsAborted'
  BY <1>6 DEF PickUp, Register
<1>7. ASSUME NEW r \in Req, Return(r) \/ Throw(r) PROVE OnlyAskedIsAborted'
  BY <1>7 DEF Return, Throw, MayEnd, Remove
<1>8. ASSUME NEW r \in Req, ReadUsage(r) PROVE OnlyAskedIsAborted'
  BY <1>8 DEF ReadUsage
<1>9. ASSUME NEW r \in Req, WriteUsage(r) PROVE OnlyAskedIsAborted'
  BY <1>9 DEF WriteUsage
<1>10. ASSUME NEW r \in Req, UsageThrows(r) PROVE OnlyAskedIsAborted'
  BY <1>10 DEF UsageThrows
<1>11. ASSUME NEW k \in Chat, Abort(k) PROVE OnlyAskedIsAborted'
  <2>1. CASE mode = "main"
    <3> SUFFICES ASSUME NEW r \in Req, aborted'[r] PROVE chat'[r] \in history'.asked
      OBVIOUS
    <3>1. aborted' = [p \in Req |-> aborted[p] \/ pool[k] = p]
      BY <1>11, <2>1 DEF Abort
    <3>2. aborted[r] \/ pool[k] = r
      BY <3>1, Zenon
    <3>3. chat' = chat /\ history'.asked = history.asked \cup {k}
      BY <1>11 DEF Abort
    <3> QED
      BY <3>2, <3>3
  <2>2. CASE mode # "main"
    BY <1>11, <2>2 DEF Abort
  <2> QED
    BY <2>1, <2>2
<1>12. ASSUME NEW w \in Worker, NEW k \in Chat, Deliver(w, k) PROVE OnlyAskedIsAborted'
  BY <1>12 DEF Deliver, Held
<1>13. ASSUME NEW w \in Worker, CrashWorker(w) PROVE OnlyAskedIsAborted'
  BY <1>13 DEF CrashWorker
<1>14. ASSUME Renew PROVE OnlyAskedIsAborted'
  BY <1>14 DEF Renew
<1>15. CASE UNCHANGED vars
  BY <1>15 DEF vars
<1>16. ASSUME NEW r \in Req, Settle(r) PROVE OnlyAskedIsAborted'
  BY <1>16 DEF Settle
<1>17. ASSUME NEW r \in Req, Catch(r) PROVE OnlyAskedIsAborted'
  BY <1>17 DEF Catch, Remove
<1> QED
  BY <1>1, <1>2, <1>3, <1>4, <1>5, <1>6, <1>7, <1>8, <1>9, <1>10, <1>11, <1>12, <1>13, <1>14,
     <1>15, <1>16, <1>17 DEF Next, Step

\* A request is aborted only when an abort of its chat was asked for, however late the
\* event reaches its worker, and whichever controllers the worker still keeps (worker.ts).
THEOREM AbortsAreAsked == Spec => []OnlyAskedIsAborted
<1>1. Init => OnlyAskedIsAborted
  BY DEF Init, OnlyAskedIsAborted
<1> QED
  BY <1>1, TypeCorrect, KeysAlways, AskedNext, PTL DEF Spec

-----------------------------------------------------------------------------
\* Whoever finds another request of its chat under way is known to share it, and so is
\* the one that was found.
LEMMA SharedNext == TypeOK /\ SharedIsKnown /\ [Next]_vars => SharedIsKnown'
<1> SUFFICES ASSUME TypeOK, SharedIsKnown, [Next]_vars PROVE SharedIsKnown'
  OBVIOUS
<1> USE RequestsAssumption
        DEF TypeOK, Ended, Active, GoTo, requests, controls, usage, SharedIsKnown
<1>1. ASSUME NEW r \in Req, Check(r) PROVE SharedIsKnown'
  BY <1>1 DEF Check, Arrive
<1>2. ASSUME NEW r \in Req, Refuse(r) PROVE SharedIsKnown'
  BY <1>2 DEF Refuse, Arrive, Remove
<1>3. ASSUME NEW r \in Req, NoQuota(r) PROVE SharedIsKnown'
  BY <1>3 DEF NoQuota, Remove
<1>4. ASSUME NEW r \in Req, Execute(r) PROVE SharedIsKnown'
  BY <1>4 DEF Execute, Add
<1>5. ASSUME NEW r \in Req, AddJob(r) PROVE SharedIsKnown'
  BY <1>5 DEF AddJob
<1>6. ASSUME NEW r \in Req, NEW w \in Worker, PickUp(r, w) PROVE SharedIsKnown'
  BY <1>6 DEF PickUp, Register
<1>7. ASSUME NEW r \in Req, Return(r) \/ Throw(r) PROVE SharedIsKnown'
  BY <1>7 DEF Return, Throw, MayEnd, Remove
<1>8. ASSUME NEW r \in Req, ReadUsage(r) PROVE SharedIsKnown'
  BY <1>8 DEF ReadUsage
<1>9. ASSUME NEW r \in Req, WriteUsage(r) PROVE SharedIsKnown'
  BY <1>9 DEF WriteUsage, UsageAfter, Smaller
<1>10. ASSUME NEW r \in Req, UsageThrows(r) PROVE SharedIsKnown'
  BY <1>10 DEF UsageThrows
<1>11. ASSUME NEW k \in Chat, Abort(k) PROVE SharedIsKnown'
  BY <1>11 DEF Abort, Remove
<1>12. ASSUME NEW w \in Worker, NEW k \in Chat, Deliver(w, k) PROVE SharedIsKnown'
  BY <1>12 DEF Deliver, Held
<1>13. ASSUME NEW w \in Worker, CrashWorker(w) PROVE SharedIsKnown'
  BY <1>13 DEF CrashWorker
<1>14. ASSUME Renew PROVE SharedIsKnown'
  BY <1>14 DEF Renew
<1>15. CASE UNCHANGED vars
  BY <1>15 DEF vars
<1>16. ASSUME NEW r \in Req, Settle(r) PROVE SharedIsKnown'
  BY <1>16 DEF Settle
<1>17. ASSUME NEW r \in Req, Catch(r) PROVE SharedIsKnown'
  BY <1>17 DEF Catch, Remove
<1> QED
  BY <1>1, <1>2, <1>3, <1>4, <1>5, <1>6, <1>7, <1>8, <1>9, <1>10, <1>11, <1>12, <1>13, <1>14,
     <1>15, <1>16, <1>17 DEF Next, Step

\* So a request that met nobody is alone in its chat.
LEMMA SharedAlways == Spec => []SharedIsKnown
<1>1. Init => SharedIsKnown
  BY DEF Init, SharedIsKnown, Active
<1> QED
  BY <1>1, TypeCorrect, SharedNext, PTL DEF Spec

\* Only requests of its own chat, and its own abort, touch the entry of a request.
LEMMA ReachNext ==
  TypeOK /\ ModesApart /\ KeysFit /\ SharedIsKnown /\ LoneIsReachable /\ [Next]_vars
    => LoneIsReachable'
<1> SUFFICES ASSUME TypeOK, ModesApart, KeysFit, SharedIsKnown, LoneIsReachable, [Next]_vars
             PROVE  LoneIsReachable'
  OBVIOUS
<1> USE RequestsAssumption
        DEF TypeOK, Ended, Active, GoTo, requests, controls, usage, ModesApart, KeysFit,
            SharedIsKnown, LoneIsReachable, Reachable
<1>1. ASSUME NEW r \in Req, Check(r) PROVE LoneIsReachable'
  BY <1>1 DEF Check, Arrive
<1>2. ASSUME NEW r \in Req, Refuse(r) PROVE LoneIsReachable'
  BY <1>2 DEF Refuse, Arrive, Remove
<1>3. ASSUME NEW r \in Req, NoQuota(r) PROVE LoneIsReachable'
  BY <1>3 DEF NoQuota, Remove
<1>4. ASSUME NEW r \in Req, Execute(r) PROVE LoneIsReachable'
  BY <1>4 DEF Execute, Add
<1>5. ASSUME NEW r \in Req, AddJob(r) PROVE LoneIsReachable'
  BY <1>5 DEF AddJob
<1>6. ASSUME NEW r \in Req, NEW w \in Worker, PickUp(r, w) PROVE LoneIsReachable'
  <2> SUFFICES ASSUME NEW p \in Req, pc'[p] = "running", p \notin history'.shared, ~aborted'[p]
               PROVE  Reachable(p)'
    OBVIOUS
  <2>1. UNCHANGED <<mode, chat, pool, history>> /\ pc[r] = "queued"
    BY <1>6 DEF PickUp
  <2>2. on' = [on EXCEPT ![r] = w] /\ wpool' = [wpool EXCEPT ![w][chat[r]] = r]
    BY <1>6 DEF PickUp, Register
  <2>3. mode = "queue"
    BY <2>1
  <2>4. CASE p = r
    BY <2>1, <2>2, <2>3, <2>4
  <2>5. CASE p # r
    <3>1. pc[p] = "running" /\ ~aborted[p]
      BY <1>6, <2>5 DEF PickUp
    <3>2. Reachable(p) /\ p \in Active /\ r \in Active
      BY <2>1, <3>1
    <3>3. chat[p] # chat[r]
      BY <2>1, <2>5, <3>2
    <3> QED
      BY <2>1, <2>2, <2>3, <2>5, <3>2, <3>3
  <2> QED
    BY <2>4, <2>5
<1>7. ASSUME NEW r \in Req, Return(r) \/ Throw(r) PROVE LoneIsReachable'
  BY <1>7 DEF Return, Throw, MayEnd, Remove
<1>8. ASSUME NEW r \in Req, ReadUsage(r) PROVE LoneIsReachable'
  BY <1>8 DEF ReadUsage
<1>9. ASSUME NEW r \in Req, WriteUsage(r) PROVE LoneIsReachable'
  BY <1>9 DEF WriteUsage, UsageAfter, Smaller
<1>10. ASSUME NEW r \in Req, UsageThrows(r) PROVE LoneIsReachable'
  BY <1>10 DEF UsageThrows
<1>11. ASSUME NEW k \in Chat, Abort(k) PROVE LoneIsReachable'
  <2> SUFFICES ASSUME NEW r \in Req, pc'[r] = "running", r \notin history'.shared, ~aborted'[r]
               PROVE  Reachable(r)'
    OBVIOUS
  <2>1. UNCHANGED <<mode, chat, pc, on, wpool>> /\ history'.shared = history.shared
    BY <1>11 DEF Abort
  <2>2. CASE mode = "main"
    <3>1. aborted' = [p \in Req |-> aborted[p] \/ pool[k] = p] /\ pool' = [pool EXCEPT ![k] = None]
      BY <1>11, <2>2 DEF Abort, Remove
    <3>2. ~aborted[r] /\ pool[k] # r
      BY <3>1, Zenon
    <3> QED
      BY <2>1, <2>2, <3>1, <3>2
  <2>3. CASE mode # "main"
    <3>1. aborted' = aborted
      BY <1>11, <2>3 DEF Abort
    <3> QED
      BY <2>1, <2>3, <3>1
  <2> QED
    BY <2>2, <2>3
<1>12. ASSUME NEW w \in Worker, NEW k \in Chat, Deliver(w, k) PROVE LoneIsReachable'
  <2> SUFFICES ASSUME NEW r \in Req, pc'[r] = "running", r \notin history'.shared, ~aborted'[r]
               PROVE  Reachable(r)'
    OBVIOUS
  <2>1. UNCHANGED <<mode, chat, pc, on, pool, history>> /\ wpool' = [wpool EXCEPT ![w][k] = None]
    BY <1>12 DEF Deliver
  <2>2. aborted' = [p \in Req |-> aborted[p] \/ p \in Held(w, k)]
    BY <1>12 DEF Deliver
  <2>3. ~aborted[r] /\ r \notin Held(w, k)
    BY <2>2, Zenon
  <2>4. ~(wpool[w][k] = r /\ on[r] = w)
    BY <2>3 DEF Held
  <2> QED
    BY <2>1, <2>3, <2>4
<1>13. ASSUME NEW w \in Worker, CrashWorker(w) PROVE LoneIsReachable'
  BY <1>13 DEF CrashWorker
<1>14. ASSUME Renew PROVE LoneIsReachable'
  BY <1>14 DEF Renew
<1>15. CASE UNCHANGED vars
  BY <1>15 DEF vars
<1>16. ASSUME NEW r \in Req, Settle(r) PROVE LoneIsReachable'
  BY <1>16 DEF Settle
<1>17. ASSUME NEW r \in Req, Catch(r) PROVE LoneIsReachable'
  <2> SUFFICES ASSUME NEW p \in Req, pc'[p] = "running", p \notin history'.shared, ~aborted'[p]
               PROVE  Reachable(p)'
    OBVIOUS
  <2>1. UNCHANGED <<mode, chat, on, wpool, aborted, history>>
    BY <1>17 DEF Catch
  <2>2. p # r /\ pc[p] = "running" /\ pc[r] \in {"failing", "settling"}
    BY <1>17 DEF Catch
  <2>3. Reachable(p) /\ p \in Active /\ r \in Active
    BY <2>1, <2>2
  <2>4. chat[p] # chat[r]
    BY <2>1, <2>2, <2>3
  <2>5. pool' = [pool EXCEPT ![chat[r]] = None]
    BY <1>17 DEF Catch, Remove
  <2> QED
    BY <2>1, <2>3, <2>4, <2>5
<1> QED
  BY <1>1, <1>2, <1>3, <1>4, <1>5, <1>6, <1>7, <1>8, <1>9, <1>10, <1>11, <1>12, <1>13, <1>14,
     <1>15, <1>16, <1>17 DEF Next, Step

\* A request that has its chat for itself stays within reach of an abort while its flow
\* runs, whatever the requests of other chats do; one that waits for its unit still counts
\* as a request of its chat, since its catch block removes what the chat has by then
\* (AbortControllerPool, PredictionQueue, runWithSharedMessageQuota).
THEOREM LoneStaysReachable == Spec => []LoneIsReachable
<1>1. Init => LoneIsReachable
  BY DEF Init, LoneIsReachable
<1> QED
  BY <1>1, TypeCorrect, ModesAlways, KeysAlways, SharedAlways, ReachNext, PTL DEF Spec

-----------------------------------------------------------------------------
\* What updates read, while none overlaps another.
LEMMA ReadNext ==
  TypeOK /\ ReadIsRecent /\ CountIsRight /\ [Next]_vars => ReadIsRecent'
<1> SUFFICES ASSUME TypeOK, ReadIsRecent, CountIsRight, [Next]_vars PROVE ReadIsRecent'
  OBVIOUS
<1> USE RequestsAssumption
        DEF TypeOK, Ended, Active, GoTo, requests, controls, usage, ReadIsRecent,
            CountIsRight, Updating, Smaller
<1>1. ASSUME NEW r \in Req, Check(r) PROVE ReadIsRecent'
  BY <1>1 DEF Check, Arrive
<1>2. ASSUME NEW r \in Req, Refuse(r) PROVE ReadIsRecent'
  BY <1>2 DEF Refuse, Arrive, Remove
<1>3. ASSUME NEW r \in Req, NoQuota(r) PROVE ReadIsRecent'
  BY <1>3 DEF NoQuota, Remove
<1>4. ASSUME NEW r \in Req, Execute(r) PROVE ReadIsRecent'
  BY <1>4 DEF Execute, Add
<1>5. ASSUME NEW r \in Req, AddJob(r) PROVE ReadIsRecent'
  BY <1>5 DEF AddJob
<1>6. ASSUME NEW r \in Req, NEW w \in Worker, PickUp(r, w) PROVE ReadIsRecent'
  BY <1>6 DEF PickUp, Register
<1>7. ASSUME NEW r \in Req, Return(r) \/ Throw(r) PROVE ReadIsRecent'
  BY <1>7 DEF Return, Throw, MayEnd, Remove
<1>8. ASSUME NEW r \in Req, ReadUsage(r) PROVE ReadIsRecent'
  BY <1>8 DEF ReadUsage
<1>9. ASSUME NEW r \in Req, WriteUsage(r) PROVE ReadIsRecent'
  BY <1>9 DEF WriteUsage, UsageAfter, Smaller
<1>10. ASSUME NEW r \in Req, UsageThrows(r) PROVE ReadIsRecent'
  BY <1>10 DEF UsageThrows
<1>11. ASSUME NEW k \in Chat, Abort(k) PROVE ReadIsRecent'
  BY <1>11 DEF Abort, Remove
<1>12. ASSUME NEW w \in Worker, NEW k \in Chat, Deliver(w, k) PROVE ReadIsRecent'
  BY <1>12 DEF Deliver, Held
<1>13. ASSUME NEW w \in Worker, CrashWorker(w) PROVE ReadIsRecent'
  BY <1>13 DEF CrashWorker
<1>14. ASSUME Renew PROVE ReadIsRecent'
  BY <1>14 DEF Renew
<1>15. CASE UNCHANGED vars
  BY <1>15 DEF vars
<1>16. ASSUME NEW r \in Req, Settle(r) PROVE ReadIsRecent'
  BY <1>16 DEF Settle
<1>17. ASSUME NEW r \in Req, Catch(r) PROVE ReadIsRecent'
  BY <1>17 DEF Catch, Remove
<1> QED
  BY <1>1, <1>2, <1>3, <1>4, <1>5, <1>6, <1>7, <1>8, <1>9, <1>10, <1>11, <1>12, <1>13, <1>14,
     <1>15, <1>16, <1>17 DEF Next, Step

\* What they write is right as long as what they read was.
LEMMA CountNext ==
  TypeOK /\ ReadIsRecent /\ CountIsRight /\ [Next]_vars => CountIsRight'
<1> SUFFICES ASSUME TypeOK, ReadIsRecent, CountIsRight, [Next]_vars PROVE CountIsRight'
  OBVIOUS
<1> USE RequestsAssumption
        DEF TypeOK, Ended, Active, GoTo, requests, controls, usage, ReadIsRecent,
            CountIsRight, Updating, Smaller
<1>1. ASSUME NEW r \in Req, Check(r) PROVE CountIsRight'
  BY <1>1 DEF Check, Arrive
<1>2. ASSUME NEW r \in Req, Refuse(r) PROVE CountIsRight'
  BY <1>2 DEF Refuse, Arrive, Remove
<1>3. ASSUME NEW r \in Req, NoQuota(r) PROVE CountIsRight'
  BY <1>3 DEF NoQuota, Remove
<1>4. ASSUME NEW r \in Req, Execute(r) PROVE CountIsRight'
  BY <1>4 DEF Execute, Add
<1>5. ASSUME NEW r \in Req, AddJob(r) PROVE CountIsRight'
  BY <1>5 DEF AddJob
<1>6. ASSUME NEW r \in Req, NEW w \in Worker, PickUp(r, w) PROVE CountIsRight'
  BY <1>6 DEF PickUp, Register
<1>7. ASSUME NEW r \in Req, Return(r) \/ Throw(r) PROVE CountIsRight'
  BY <1>7 DEF Return, Throw, MayEnd, Remove
<1>8. ASSUME NEW r \in Req, ReadUsage(r) PROVE CountIsRight'
  BY <1>8 DEF ReadUsage
<1>9. ASSUME NEW r \in Req, WriteUsage(r) PROVE CountIsRight'
  BY <1>9 DEF WriteUsage, UsageAfter, Smaller
<1>10. ASSUME NEW r \in Req, UsageThrows(r) PROVE CountIsRight'
  BY <1>10 DEF UsageThrows
<1>11. ASSUME NEW k \in Chat, Abort(k) PROVE CountIsRight'
  BY <1>11 DEF Abort, Remove
<1>12. ASSUME NEW w \in Worker, NEW k \in Chat, Deliver(w, k) PROVE CountIsRight'
  BY <1>12 DEF Deliver, Held
<1>13. ASSUME NEW w \in Worker, CrashWorker(w) PROVE CountIsRight'
  BY <1>13 DEF CrashWorker
<1>14. ASSUME Renew PROVE CountIsRight'
  BY <1>14 DEF Renew
<1>15. CASE UNCHANGED vars
  BY <1>15 DEF vars
<1>16. ASSUME NEW r \in Req, Settle(r) PROVE CountIsRight'
  BY <1>16 DEF Settle
<1>17. ASSUME NEW r \in Req, Catch(r) PROVE CountIsRight'
  BY <1>17 DEF Catch, Remove
<1> QED
  BY <1>1, <1>2, <1>3, <1>4, <1>5, <1>6, <1>7, <1>8, <1>9, <1>10, <1>11, <1>12, <1>13, <1>14,
     <1>15, <1>16, <1>17 DEF Next, Step

\* The counter never exceeds the predictions of the month, and counts each of them up to
\* the limit as long as updates do not overlap (updatePredictionsUsage).
THEOREM CountsRight == Spec => []CountIsRight
<1>1. Init => ReadIsRecent /\ CountIsRight
  BY RequestsAssumption DEF Init, ReadIsRecent, CountIsRight, Updating, Smaller
<1> QED
  BY <1>1, TypeCorrect, ReadNext, CountNext, PTL DEF Spec

\* Requests that come one after the other are all counted before the next is checked.
LEMMA AloneNext ==
  TypeOK /\ AloneIsCounted /\ [Next]_vars => AloneIsCounted'
<1> SUFFICES ASSUME TypeOK, AloneIsCounted, [Next]_vars PROVE AloneIsCounted'
  OBVIOUS
<1> USE RequestsAssumption
        DEF TypeOK, Ended, Active, GoTo, requests, controls, usage, AloneIsCounted,
            Updating
<1>1. ASSUME NEW r \in Req, Check(r) PROVE AloneIsCounted'
  <2> SUFFICES ASSUME ~history'.met PROVE AloneIsCounted'
    OBVIOUS
  <2>1. /\ pc[r] = "new" /\ count < Limit /\ pc' = [pc EXCEPT ![r] = "checked"]
        /\ UNCHANGED <<count, seen>> /\ history'.tally = history.tally
    BY <1>1 DEF Check, BelowLimit, Arrive
  <2>2. ~history.met /\ \A p \in Req : pc[p] \in {"new", "done", "failed"}
    BY <1>1 DEF Check, Arrive
  <2> QED
    BY <2>1, <2>2
<1>2. ASSUME NEW r \in Req, Refuse(r) PROVE AloneIsCounted'
  BY <1>2 DEF Refuse, Arrive, Remove
<1>3. ASSUME NEW r \in Req, NoQuota(r) PROVE AloneIsCounted'
  BY <1>3 DEF NoQuota, Remove
<1>4. ASSUME NEW r \in Req, Execute(r) PROVE AloneIsCounted'
  BY <1>4 DEF Execute, Add
<1>5. ASSUME NEW r \in Req, AddJob(r) PROVE AloneIsCounted'
  BY <1>5 DEF AddJob
<1>6. ASSUME NEW r \in Req, NEW w \in Worker, PickUp(r, w) PROVE AloneIsCounted'
  BY <1>6 DEF PickUp, Register
<1>7. ASSUME NEW r \in Req, Return(r) \/ Throw(r) PROVE AloneIsCounted'
  <2>1. CASE Return(r)
    BY <2>1 DEF Return, MayEnd, Remove
  <2>2. CASE Throw(r)
    BY <2>2 DEF Throw, MayEnd
  <2> QED
    BY <1>7, <2>1, <2>2
<1>8. ASSUME NEW r \in Req, ReadUsage(r) PROVE AloneIsCounted'
  BY <1>8 DEF ReadUsage
<1>9. ASSUME NEW r \in Req, WriteUsage(r) PROVE AloneIsCounted'
  BY <1>9 DEF WriteUsage, UsageAfter, Smaller
<1>10. ASSUME NEW r \in Req, UsageThrows(r) PROVE AloneIsCounted'
  BY <1>10 DEF UsageThrows
<1>11. ASSUME NEW k \in Chat, Abort(k) PROVE AloneIsCounted'
  BY <1>11 DEF Abort, Remove
<1>12. ASSUME NEW w \in Worker, NEW k \in Chat, Deliver(w, k) PROVE AloneIsCounted'
  BY <1>12 DEF Deliver, Held
<1>13. ASSUME NEW w \in Worker, CrashWorker(w) PROVE AloneIsCounted'
  BY <1>13 DEF CrashWorker
<1>14. ASSUME Renew PROVE AloneIsCounted'
  BY <1>14 DEF Renew
<1>15. CASE UNCHANGED vars
  BY <1>15 DEF vars
<1>16. ASSUME NEW r \in Req, Settle(r) PROVE AloneIsCounted'
  BY <1>16 DEF Settle
<1>17. ASSUME NEW r \in Req, Catch(r) PROVE AloneIsCounted'
  BY <1>17 DEF Catch, Remove
<1> QED
  BY <1>1, <1>2, <1>3, <1>4, <1>5, <1>6, <1>7, <1>8, <1>9, <1>10, <1>11, <1>12, <1>13, <1>14,
     <1>15, <1>16, <1>17 DEF Next, Step

\* Requests that come one after the other get no more predictions than the limit
\* (checkPredictions).
THEOREM LimitIsKept == Spec => []LimitHolds
<1>1. Init => AloneIsCounted
  BY RequestsAssumption DEF Init, AloneIsCounted, Active, Updating
<1>2. TypeOK /\ AloneIsCounted => LimitHolds
  BY RequestsAssumption DEF TypeOK, AloneIsCounted, LimitHolds
<1> QED
  BY <1>1, <1>2, TypeCorrect, AloneNext, PTL DEF Spec
=============================================================================
