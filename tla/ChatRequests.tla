----------------------------- MODULE ChatRequests -----------------------------
(***************************************************************************)
(* Requests that run a flow for a chat (utilBuildChatflow), and what they  *)
(* share: the pool of abort controllers (AbortControllerPool.ts), the      *)
(* prediction queue and its workers (queue/PredictionQueue.ts,             *)
(* commands/worker.ts), and the counter of predictions of the organisation *)
(* (utils/quotaUsage.ts).                                                  *)
(*                                                                         *)
(* In "main" mode the server runs the flow, and an abort takes the         *)
(* controller that is registered for the chat.  In "queue" mode a worker   *)
(* runs it, the server waits for the job, and an abort is an event that    *)
(* reaches every worker later.  BullMQ is external: it gives a waiting job *)
(* to a worker, and a job whose worker died to another one, once.          *)
(*                                                                         *)
(* The units of sharedMessageQuota.ts are in SharedQuota; what matters     *)
(* here is that the request waits for them: for the release before its     *)
(* catch block runs, and for the consume before it answers.                *)
(*                                                                         *)
(* Definitions marked "faulty" are slips the properties must catch: no     *)
(* action uses them.                                                       *)
(***************************************************************************)
EXTENDS Integers

CONSTANTS Req,        \* requests
          Chat,       \* chats: chatflowid_chatid
          Chats,      \* which requests may be of which chats
          Worker,     \* workers of "queue" mode
          Modes,      \* values of process.env.MODE to look at
          Hung,       \* requests whose flow returns only when it is aborted
          Limit,      \* predictionsLimit, not the -1 of unlimited plans
          MaxAborts,  \* bound: aborts that are asked for
          MaxCrashes, \* bound: crashes of workers
          MaxRenewals,\* bound: months that begin
          None        \* no controller, no worker

ASSUME RequestsAssumption ==
  /\ Hung \subseteq Req
  /\ Chats \subseteq [Req -> Chat]
  /\ Modes \subseteq {"main", "queue"}
  /\ Limit \in Nat \ {0}
  /\ {MaxAborts, MaxCrashes, MaxRenewals} \subseteq Nat
  /\ None \notin Req \cup Worker

VARIABLES
  mode,     \* process.env.MODE
  chat,     \* chat[r]: the chat of request r
  pc,       \* pc[r]: the place of request r
  on,       \* on[r]: the worker that runs the job of r
  stalls,   \* stalls[r]: times the job of r lost its worker
  aborted,  \* aborted[r]: the signal of the controller that runs r
  pool,     \* pool[k]: the request whose controller the server has for chat k
  wpool,    \* wpool[w][k]: the same, for worker w
  inbox,    \* inbox[w]: chats whose abort event has not reached w yet
  count,    \* the counter in the cache, 0 when there is none
  seen,     \* seen[r]: the counter as r read it to add its prediction, then 0
  bounds,   \* aborts, crashes and renewals so far
  history   \* what the properties look back at

requests == <<mode, chat, pc, on, stalls>>
controls == <<aborted, pool, wpool, inbox>>
usage == <<count, seen>>
vars == <<requests, controls, usage, bounds, history>>

Ended == {"done", "failed"}
Active == {r \in Req : pc[r] \notin {"new"} \cup Ended}
Updating == {r \in Req : pc[r] = "read"}
Smaller(a, b) == IF a < b THEN a ELSE b

\* history.shared  requests that met another one of their chat
\* history.met     two requests were under way at the same time
\* history.wanted  requests that ran when an abort of their chat was asked for
\* history.asked   chats an abort was asked for
\* history.tally   updates of the counter since the month began
\* history.lossy   one of these updates began within another
\* history.carried one of these updates began in the month before
TypeOK ==
  /\ mode \in Modes
  /\ chat \in [Req -> Chat]
  /\ pc \in [Req -> {"new", "checked", "queued", "running", "counting", "read",
                     "settling", "failing"} \cup Ended]
  /\ on \in [Req -> Worker \cup {None}]
  /\ stalls \in [Req -> 0..1]
  /\ aborted \in [Req -> BOOLEAN]
  /\ pool \in [Chat -> Req \cup {None}]
  /\ wpool \in [Worker -> [Chat -> Req \cup {None}]]
  /\ inbox \in [Worker -> SUBSET Chat]
  /\ count \in 0..Limit
  /\ seen \in [Req -> 0..Limit]
  /\ bounds \in [aborts : 0..MaxAborts, crashes : 0..MaxCrashes, renewals : 0..MaxRenewals]
  /\ history \in [shared : SUBSET Req, met : BOOLEAN, wanted : SUBSET Req,
                  asked : SUBSET Chat, tally : Nat, lossy : BOOLEAN, carried : BOOLEAN]

Init ==
  /\ mode \in Modes
  /\ chat \in Chats
  /\ pc = [r \in Req |-> "new"]
  /\ on = [r \in Req |-> None]
  /\ stalls = [r \in Req |-> 0]
  /\ aborted = [r \in Req |-> FALSE]
  /\ pool = [k \in Chat |-> None]
  /\ wpool = [w \in Worker |-> [k \in Chat |-> None]]
  /\ inbox = [w \in Worker |-> {}]
  /\ count = 0
  /\ seen = [r \in Req |-> 0]
  /\ bounds = [aborts |-> 0, crashes |-> 0, renewals |-> 0]
  /\ history = [shared |-> {}, met |-> FALSE, wanted |-> {}, asked |-> {}, tally |-> 0,
                lossy |-> FALSE, carried |-> FALSE]

-----------------------------------------------------------------------------
(* The parts of a request.                                                 *)

GoTo(r, place) == pc' = [pc EXCEPT ![r] = place]

\* The request comes in: history only.
Arrive(r) ==
  LET others == {p \in Active : chat[p] = chat[r]}
  IN  history' = [history EXCEPT !.met = @ \/ Active # {},
                    !.shared = @ \cup (IF others = {} THEN {} ELSE others \cup {r})]

\* AbortControllerPool: add overwrites, remove takes whatever is there.
Add(k, r) == pool' = [pool EXCEPT ![k] = r]
NotRemoved(k) == UNCHANGED pool
Remove(k) == pool' = [pool EXCEPT ![k] = None]

\* checkPredictions
FaultyBelowLimit == count <= Limit
BelowLimit == count < Limit

Check(r) ==
  /\ pc[r] = "new" /\ BelowLimit
  /\ GoTo(r, "checked")
  /\ Arrive(r)
  /\ UNCHANGED <<mode, chat, on, stalls, controls, usage, bounds>>

\* The key is wrong, the limit is reached ...: the catch block removes the
\* controller of the chat, although this request added none.
Refuse(r) ==
  /\ pc[r] = "new"
  /\ GoTo(r, "failed")
  /\ Arrive(r)
  /\ Remove(chat[r])
  /\ UNCHANGED <<mode, chat, on, stalls, aborted, wpool, inbox, usage, bounds>>

\* No message quota is left (SharedQuota).
NoQuota(r) ==
  /\ pc[r] = "checked"
  /\ GoTo(r, "failed")
  /\ Remove(chat[r])
  /\ UNCHANGED <<mode, chat, on, stalls, aborted, wpool, inbox, usage, bounds, history>>

\* The execute closure of the request: the flow runs here ...
Execute(r) ==
  /\ pc[r] = "checked" /\ mode = "main"
  /\ GoTo(r, "running")
  /\ Add(chat[r], r)
  /\ UNCHANGED <<mode, chat, on, stalls, aborted, wpool, inbox, usage, bounds, history>>

\* ... or its job is added to the queue.
AddJob(r) ==
  /\ pc[r] = "checked" /\ mode = "queue"
  /\ GoTo(r, "queued")
  /\ UNCHANGED <<mode, chat, on, stalls, controls, usage, bounds, history>>

\* A worker takes the job: it has its own pool, which it never clears.
FaultyRegister(w, k, r) == UNCHANGED wpool
Register(w, k, r) == wpool' = [wpool EXCEPT ![w][k] = r]

PickUp(r, w) ==
  /\ pc[r] = "queued"
  /\ GoTo(r, "running")
  /\ on' = [on EXCEPT ![r] = w]
  /\ Register(w, chat[r], r)
  /\ aborted' = [aborted EXCEPT ![r] = FALSE]
  /\ UNCHANGED <<mode, chat, stalls, pool, inbox, usage, bounds, history>>

MayEnd(r) == pc[r] = "running" /\ (r \in Hung => aborted[r])

\* The flow, or the job, returns: the server removes the controller.
Return(r) ==
  /\ MayEnd(r)
  /\ GoTo(r, "counting")
  /\ Remove(chat[r])
  /\ UNCHANGED <<mode, chat, on, stalls, aborted, wpool, inbox, usage, bounds, history>>

\* The flow or the job throws, or the queue takes no job.  The release of the
\* unit is awaited first: the controller stays in the pool (releaseQuotaSafely).
Throw(r) ==
  /\ MayEnd(r) \/ (pc[r] = "checked" /\ mode = "queue")
  /\ GoTo(r, "failing")
  /\ UNCHANGED <<mode, chat, on, stalls, controls, usage, bounds, history>>

\* updatePredictionsUsage reads the counter ...
ReadUsage(r) ==
  /\ pc[r] = "counting"
  /\ GoTo(r, "read")
  /\ seen' = [seen EXCEPT ![r] = count]
  /\ history' = [history EXCEPT !.lossy = @ \/ Updating # {}]
  /\ UNCHANGED <<mode, chat, on, stalls, controls, count, bounds>>

\* ... and writes what it makes of it, up to the limit.
UnboundedUsage(n) == n + 1
FaultyUsageAfter(n) == IF n = Limit THEN 1 ELSE n + 1
UsageAfter(n) == Smaller(n + 1, Limit)

WriteUsage(r) ==
  /\ pc[r] = "read"
  /\ GoTo(r, "settling")
  /\ count' = UsageAfter(seen[r])
  /\ seen' = [seen EXCEPT ![r] = 0]
  /\ history' = [history EXCEPT !.tally = @ + 1]
  /\ UNCHANGED <<mode, chat, on, stalls, controls, bounds>>

\* The update throws after the flow succeeded: the release is awaited again.
UsageThrows(r) ==
  /\ pc[r] \in {"counting", "read"}
  /\ GoTo(r, "failing")
  /\ seen' = [seen EXCEPT ![r] = 0]
  /\ UNCHANGED <<mode, chat, on, stalls, controls, count, bounds, history>>

\* The unit is consumed, or there is none: the request answers.
Settle(r) ==
  /\ pc[r] = "settling"
  /\ GoTo(r, "done")
  /\ UNCHANGED <<mode, chat, on, stalls, controls, usage, bounds, history>>

\* The catch block, when the release is over, or when the consume throws or no
\* message was saved: it removes whatever controller the chat has by now.
Catch(r) ==
  /\ pc[r] \in {"failing", "settling"}
  /\ GoTo(r, "failed")
  /\ Remove(chat[r])
  /\ UNCHANGED <<mode, chat, on, stalls, aborted, wpool, inbox, usage, bounds, history>>

-----------------------------------------------------------------------------
(* Aborts, crashes and time.                                               *)

\* abortChatMessage
Abort(k) ==
  /\ bounds.aborts < MaxAborts
  /\ bounds' = [bounds EXCEPT !.aborts = @ + 1]
  /\ history' = [history EXCEPT !.asked = @ \cup {k},
                   !.wanted = @ \cup {r \in Req : chat[r] = k /\ pc[r] = "running"}]
  /\ IF mode = "main"
     THEN /\ aborted' = [r \in Req |-> aborted[r] \/ pool[k] = r]
          /\ Remove(k)
          /\ UNCHANGED <<wpool, inbox>>
     ELSE /\ inbox' = [w \in Worker |-> inbox[w] \cup {k}]
          /\ UNCHANGED <<aborted, pool, wpool>>
  /\ UNCHANGED <<requests, usage>>

\* The event reaches the worker: the controller it has for the chat is
\* aborted, if the job of that controller still runs there.
FaultyHeld(w, k) == {r \in Req : on[r] = w}
HeldQueued(w, k) == {r \in Req : wpool[w][k] = r /\ pc[r] = "queued"}
Held(w, k) == {r \in Req : wpool[w][k] = r /\ on[r] = w}

Deliver(w, k) ==
  /\ k \in inbox[w]
  /\ inbox' = [inbox EXCEPT ![w] = @ \ {k}]
  /\ aborted' = [r \in Req |-> aborted[r] \/ r \in Held(w, k)]
  /\ wpool' = [wpool EXCEPT ![w][k] = None]
  /\ UNCHANGED <<requests, pool, usage, bounds, history>>

\* The worker dies and starts again, with an empty pool, and hears only of
\* events to come.  Its jobs stall: once they wait again, then they fail.
CrashWorker(w) ==
  /\ bounds.crashes < MaxCrashes
  /\ LET lost == {r \in Req : pc[r] = "running" /\ on[r] = w}
     IN  /\ lost # {}
         /\ pc' = [r \in Req |-> IF r \notin lost THEN pc[r]
                                 ELSE IF stalls[r] = 0 THEN "queued" ELSE "failing"]
         /\ stalls' = [r \in Req |-> IF r \in lost THEN 1 ELSE stalls[r]]
         /\ on' = [r \in Req |-> IF r \in lost THEN None ELSE on[r]]
         /\ history' = [history EXCEPT !.wanted = @ \ lost]
  /\ wpool' = [wpool EXCEPT ![w] = [k \in Chat |-> None]]
  /\ inbox' = [inbox EXCEPT ![w] = {}]
  /\ bounds' = [bounds EXCEPT !.crashes = @ + 1]
  /\ UNCHANGED <<mode, chat, aborted, pool, usage>>

\* The entry of the counter expires with the month.
Renew ==
  /\ bounds.renewals < MaxRenewals /\ count > 0
  /\ bounds' = [bounds EXCEPT !.renewals = @ + 1]
  /\ count' = 0
  /\ history' = [history EXCEPT !.tally = 0, !.lossy = Updating # {}, !.carried = Updating # {}]
  /\ UNCHANGED <<requests, controls, seen>>

-----------------------------------------------------------------------------
Step(r) ==
  \/ NoQuota(r) \/ Execute(r) \/ AddJob(r) \/ (\E w \in Worker : PickUp(r, w))
  \/ Return(r) \/ Throw(r) \/ ReadUsage(r) \/ WriteUsage(r) \/ UsageThrows(r)
  \/ Settle(r) \/ Catch(r)

Next ==
  \/ \E r \in Req : Check(r) \/ Refuse(r) \/ Step(r)
  \/ \E k \in Chat : Abort(k)
  \/ \E w \in Worker, k \in Chat : Deliver(w, k)
  \/ \E w \in Worker : CrashWorker(w)
  \/ Renew

\* Handlers go on, jobs are picked up, a flow that was aborted returns or
\* throws, and events arrive.  Nobody has to send a request or an abort.
Fairness ==
  /\ \A r \in Req : WF_vars(Step(r))
  /\ \A w \in Worker, k \in Chat : WF_vars(Deliver(w, k))

Spec == Init /\ [][Next]_vars
FairSpec == Spec /\ Fairness

-----------------------------------------------------------------------------
(* Properties.                                                             *)

\* A controller in the pool of the server belongs to a request of that chat
\* whose flow runs, or failed and waits for its unit to be released: whatever
\* fails at whatever await, no controller outlives its request, and none comes
\* back (utilBuildChatflow, runWithSharedMessageQuota).
PooledIsUnderWay ==
  \A k \in Chat : pool[k] # None =>
    pc[pool[k]] \in {"running", "failing"} /\ chat[pool[k]] = k

\* A flow that runs can be aborted, or was, as long as its chat had no other
\* request under way, one that still waits for its unit included: no end,
\* refusal, late catch block, late abort or crash of others takes its
\* controller away, and stale controllers of a worker do not hide it.
Reachable(r) ==
  IF mode = "main" THEN pool[chat[r]] = r ELSE wpool[on[r]][chat[r]] = r
LoneIsReachable ==
  \A r \in Req : pc[r] = "running" /\ r \notin history.shared => Reachable(r) \/ aborted[r]

\* Only what was asked for is aborted: an event, however late, ends no request
\* of another chat (the key of the pools is the flow and the chat).
OnlyAskedIsAborted == \A r \in Req : aborted[r] => chat[r] \in history.asked

\* The counter is the number of predictions of the month, up to the limit,
\* unless two updates overlapped, when it may be less, or an update took the
\* number of the month before with it (updatePredictionsUsage).
CountIsRight ==
  ~history.carried =>
    /\ count <= history.tally
    /\ ~history.lossy => count = Smaller(history.tally, Limit)

\* Who sends one request after the other never gets more than the limit: the
\* check of a request sees the updates of all before it (checkPredictions).
LimitHolds == ~history.met => history.tally <= Limit

\* An abort of a running flow ends it, although it reaches the worker later,
\* unless the worker died or the chat had other requests under way.
AbortEnds ==
  \A r \in Req : (r \in history.wanted /\ r \notin history.shared)
                   ~> (pc[r] \in Ended \/ r \notin history.wanted \/ r \in history.shared)
=============================================================================
