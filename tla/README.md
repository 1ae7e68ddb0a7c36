# A TLA+ model of the studio's server

The studio runs flows that users draw: chat flows and agent flows. This directory holds
TLA+ modules for the server's own logic, the configurations that check them with TLC,
and proofs that TLAPS checks. Paths below are relative to `src/packages/server/src/`
unless they begin with `packages/`.

- [The system](#the-system)
- [Hard behaviours](#hard-behaviours)
- [Modules](#modules)
- [Runs](#runs)
- [Where code and comments disagree](#where-code-and-comments-disagree)
- [Fairness](#fairness)
- [Proofs](#proofs)
- [Not modelled](#not-modelled)
- [Plan](#plan)
- [How to run](#how-to-run)

## The system

| Component | Code | State it keeps | Operations | Works with |
| --- | --- | --- | --- | --- |
| Agent flow engine | `utils/buildAgentflow.ts` | queue, waiting nodes, loop counts and executed data in memory; one row of the execution table | start, resume, execute a node, stop for a human, loop, iterate, abort, fail, finish | flow graph, execution records, abort controllers, event streams, usage |
| Agent flow graph | `utils/buildAgentflow.ts` (and `constructGraphs`, `getStartingNode` in `utils/index.ts`) | none (computed from nodes and edges) | children, starting nodes, inputs a join needs, children a decision rules out | engine |
| Chat flow evaluation | `buildFlow` in `utils/index.ts`, `utils/buildChatflow.ts`, `utils/upsertVector.ts` | queue, explored, initialized and ignored nodes in memory | find ending and starting nodes and depths, initialise a node, rule out, queue, upsert, choose the node to run | flow requests |
| Execution records | `services/executions/index.ts`, entity `Execution` | rows: state and executed data | create, find-merge-save, delete | engine, chat messages |
| Shared message quota | `utils/sharedMessageQuota.ts` | a reservation on the stack; the units are in a remote service | reserve, consume with retries, release | flow requests, quota service |
| Flow requests | `utils/buildChatflow.ts`, `controllers/predictions` | a request on the stack | check usage, reserve, execute here or in a queue, account, answer | all of the above |
| Prediction usage | `utils/quotaUsage.ts`, `UsageCacheManager.ts` | a counter for each organisation | check, update | flow requests, schedules |
| Abort controllers | `AbortControllerPool.ts`, `services/chat-messages` | one controller for each flow and chat | add, abort, remove | flow requests, workers |
| Job queues | `queue/*`, `commands/worker.ts` | jobs in Redis | add, pick up, finish, fail, run again when stalled | flow requests, schedules |
| Schedules | `schedule/*`, `queue/ScheduleQueue.ts`, `services/schedule` | records, cron jobs, trigger logs | upsert, delete, toggle, fire, execute, log | engine, usage |
| Event streams | `utils/SSEStreamer.ts`, `queue/RedisEvent*.ts` | clients, observers, channels | add, write, remove, subscribe, unsubscribe, clean up | engine, webhook listeners |
| Webhook listeners | `services/webhook-listener` | listeners of a flow, with an expiry | register, heartbeat, unregister, bind an execution | event streams |
| Rate limits | `utils/rateLimit.ts` | one limiter for each flow on each server | add, remove, publish, receive | flow requests |

What makes them correct:

- **Engine and graph**: an answer serves one question; joins run after all they need and
  never wait for a branch that was ruled out; no branch runs that was ruled out; the row
  tells what the executed data tells; no row stays INPROGRESS without a request; every
  request ends.
- **Chat flow evaluation**: a node is initialised after all it depends on, once, and all nodes
  are that are not ruled out; an ending node runs.
- **Shared message quota**: a request id runs its flow once; what was returned is paid for;
  what is paid for was saved; nothing is given back after a success.
- **Usage**: the counter is the number of predictions made, up to the limit.
- **Abort controllers and queues**: an abort reaches the request it is meant for, and no other.
- **Schedules**: an enabled record has one job and a disabled or deleted one has none, once
  nobody is at work on them; a job that should not fire goes away.
- **Event streams, webhook listeners**: an event reaches each client of its chat once, a
  response is ended once its request is over, and no channel stays subscribed without a client.
- **Rate limits**: all servers limit a flow the same way.

## Hard behaviours

`PROJECT.json` lists them under `hazards`, each at its line. In short: every `await` lets
another request of the same session, chat or organisation in; rows are found, merged and
saved without a lock or a version; the queue of a flow lives in memory while its row lives
in the database; the quota service is called over HTTP, where calls are lost, repeated and
late; decisions, joins and loops meet in graphs that users draw; the order in which a flow's
nodes are evaluated follows from its edge list, its depths and its ending nodes together;
requests of one chat share an abort controller, a client and a channel, and all requests of
an organisation a counter; rows, jobs, bind messages and aborts travel apart, so that each may
be outdated when it arrives.

## Modules

### AgentflowGraph

The graph, and the pure functions the engine computes from it. The edge list is a
sequence, because the code takes the first edge that matches (`find`) in
`findConditionParent` and `determineNodesToIgnore`.

| Definition | Code |
| --- | --- |
| `Targets`, `StartingNodes` | `constructGraphs`, `getStartingNode` |
| `ConditionParent`, by way of `Ancestor` | `findConditionParent`: a recursion over the nodes above, along the first incoming edge, that stops when a node comes back |
| `ExpectedInputs`, `ConditionalGroups` | `setupNodeDependencies` |
| `HasRequiredInputs` | `hasReceivedRequiredInputs` |
| `NodesToIgnore`, `Receives` | `determineNodesToIgnore` and the loop over children in `processNodeOutputs` |

`Fulfilled` is the meaning of an outcome on the canvas, which the properties compare the
code with.

### AgentflowEngine

Requests of one session to one flow. Each has its place `pc`, its own copy of the local
variables of `executeAgentFlow`, and shares the execution table with the others.

| State | Code |
| --- | --- |
| `queue`, `waiting`, `loops`, `iterations`, `data`, `human` | `nodeExecutionQueue`, `waitingNodes`, `loopCounts`, `iterations`, `agentFlowExecutedData`, `currentHumanInput` |
| `row`, `rows`, `created` | `newExecution.id`, the execution table, its order by creation date |
| `aborted` | the signal of the request's abort controller |
| `items`, `current` | the loop of `executeNode` over an iteration's items, `currentNode` |
| `passed` | history: human input nodes the request let through |

| Action | Code |
| --- | --- |
| `Start` | the branch that calls `addExecution` and queues the starting node |
| `Resume`, `Refuse` | the checks of the latest execution when the request carries an answer |
| `Reclaim` | the row is rewritten without its last error, when the resumed node failed |
| `Claim`, `ClaimFails` | the row is set to INPROGRESS and the node is queued; the row is gone |
| `Execute` | a turn of the main loop up to `executeNode` |
| `AbortedBefore`, `LimitReached` | the two early exits of a turn |
| `Stop` | a human input node without an answer, an agent whose tool needs one |
| `Throw` | the node throws, or its own use of the abort signal does; the catch block adds its entry |
| `Iterate` | one item of an iteration node: the recursive `executeAgentFlow`, and the update of the row |
| `Finish` | the node's entry, `processNodeOutputs` for every child, and the loop back |
| `Complete`, `WriteFailure` | the last `updateExecution` of a request |
| `Abort`, `Delete` | `AbortControllerPool.abort`, `deleteExecutions` |

The steps are as long as the code between two awaits that matter to the database.
`Resume` reads the row and `Claim` writes it: other requests step in between. The catch
block adds its entry in one step and writes the row in the next. `updateExecution` finds,
merges and saves in one step: between its own find and save the only other outcome is
that a deleted row comes back, which is left out. A sub-flow of an iteration is cut down
to one node, which finishes, waits or throws.

The data of nodes (texts, states, inputs) is left out; which outcome a decision takes is
any of its handles. An execution's data is the sequence of its entries.

`WithoutNode` (drop the entries of a resumed node) and `DeliverAll` (hand an output to one
child after the other) are recursive functions over positions, so that the proofs can
unfold them.

### AgentflowShapes

What a user has to draw for joins and routes to behave: conditions on the graph alone, from
which the theorems about `JoinsWait`, `RunsAreFed` and `NoRouteLost` follow.

| Definition | What it asks of a flow |
| --- | --- |
| `NoLoops`, `NoQuestions` | no loop and iteration nodes; only plain nodes and conditions |
| `DistinctEdges` | no edge is drawn twice, and an outcome of a decision leads to one node |
| `GuardsHold` | `guard` names, for each node, outcomes that every run of it presupposes |
| `InputsExclude` | two inputs of a join of which `setupNodeDependencies` asks for one presuppose different outcomes of a decision |
| `Acyclic` | a rank grows along the edges |
| `JoinsAreFed` | whatever the decisions choose, a join they reach gets what it needs |

### AgentflowMC

Flows drawn for the runs, each a set of nodes, their kinds and their edges. `DiamondFits`
assumes all conditions of `AgentflowShapes` of the flow `Diamond`, and TLC evaluates it.

### ChatflowBuild

`buildFlow`, and what its callers prepare. A behaviour begins with any flow of `Size`
nodes; edges lead from smaller to larger numbers, which every flow without cycles allows.
It has one ifElse node at most, which takes the same outcome whenever it is initialised,
and no two edges between the same nodes. The order of edges is left open where the code
depends on it: the order of starting nodes, of neighbours, and of several ending nodes.

| State | Code |
| --- | --- |
| `flow` | `reactFlowEdges`, the ifElse node, the targets of the outcome it does not take and `first`, the one that `find` returns, `isUpsert`, the ending nodes or `stopNodeId` |
| `depthQueue`, `graph`, `queue`, `explored`, `initialized`, `ignored` | `depthQueue`, `graph`, `nodeQueue`, `exploredNode`, `initializedNodes`, `ignoreNodeIds` |
| `last` | the last of `flowNodes` |
| `inits` | history: initialisations of a node |

| Action | Code |
| --- | --- |
| `Init` | `executeFlow` or `executeUpsert` up to `buildFlow`, and the lines before its loop |
| `Initialize` | one turn of the loop: the node is initialised, an ifElse node rules out, neighbours and the next level are queued |
| `Upsert` | the turn that reaches `stopNodeId` |
| `NodeThrows`, `Finish` | the two other ways the loop ends |

`graph[n]` grows: the code pushes the nodes of the next level into the list it shares with
its caller. In an upsert that list holds the nodes above, since the caller passes the
reversed graph: only levels bring nodes into the queue.

An outcome of an ifElse node may lead to several nodes. The code cuts all its edges (`Uncut`),
but follows only the first one (`FirstRefused`) and rules out what is still connected with
that node, in either direction. So the ifElse node may rule out itself, and a second node of
the outcome may run; `RefusedIsOut` speaks of the first. `ExecutesEnd` says when the last of
the nodes is an ending node: with several ending nodes, when nothing is ruled out, or when the
ifElse node decides between them (`ChooserDecides`).

### SharedQuota and MeteredDelivery

`SharedQuota` has one action for each branch of `runWithSharedMessageQuota`, and the
execute closure that `utilBuildChatflow` passes to it. A run has a place `pc`, the status
`call` of the call it awaits, and the loop counter `attempt`. The quota service is not in
the repository: its ledger and operations are written from the statuses the client handles
and from `utils/sharedMessageQuota.test.ts` (`Serve`, `Refuse`, `Expire`). A call may
break before or after the service carried it out (`Break`), and one that the client gave up
on may still arrive (`ServeLate`) or not (`DropLate`).

`MeteredDelivery` is the promise: a request id holds at most one unit, the unit is charged
only when a message was saved, the message is returned only when its unit is charged. It
knows no runs, calls or failures. `SharedQuota` implements it: `ImplementsMetered` is its
specification under the mapping `accountBar`, `savedBar`, `deliveredBar`.

The model shows one thing the properties state with care: a flow that fails after its
message was saved (telemetry, speech or the usage update throw) gives the unit back, so
`NoRefundAfterSuccess` speaks of runs whose accounting succeeded.

### ChatRequests

Requests that run flows for chats, with what they share. `SharedQuota` looks at one message
and its unit; this module looks at requests side by side, and takes the quota as steps that may refuse
(`NoQuota`) and that a request waits for: a request that failed waits for the release of its
unit before its catch block runs ("failing"), and one whose prediction was counted waits for
the consume before it answers ("settling"). Other requests come and go during these waits. The
mode of the server and the chats of the requests are chosen at the start of a behaviour.

| State | Code |
| --- | --- |
| `pc`, `chat`, `on`, `stalls` | the place of `utilBuildChatflow`, the key `chatflowid_chatid`, the worker that has the job, how often BullMQ found the job stalled |
| `pool`, `wpool` | `AbortControllerPool` of the server and of each worker, as the request whose controller is stored |
| `aborted` | the signal of the controller a request runs with |
| `inbox` | abort events that a worker has not seen yet |
| `count`, `seen` | the entry `predictions:<organisation>` of the cache, and its value as an update read it |
| `history` | who met whom, which aborts were asked for, how many updates there were |

| Action | Code |
| --- | --- |
| `Check`, `Refuse`, `NoQuota` | `checkPredictions`, and the refusals before the flow, whose catch block removes the controller of the chat |
| `Execute`, `AddJob` | the two branches of the execute closure |
| `PickUp` | `PredictionQueue.processJob` |
| `Return` | the flow or its job returns, and the controller is removed |
| `Throw` | the flow or its job throws, or the queue takes no job: the release of the unit is awaited |
| `ReadUsage`, `WriteUsage`, `UsageThrows` | `updatePredictionsUsage` before and after its await |
| `Settle`, `Catch` | the answer; the catch block, which removes whatever controller the chat has by then |
| `Abort`, `Deliver` | `abortChatMessage`, and the listener of `commands/worker.ts` |
| `CrashWorker`, `Renew` | a worker dies, and its jobs stall; the counter expires |

`ChatRequestsMC` says which requests are of which chats in the run: all ways up to the names of
chats and requests.

### ScheduleSystem

The table of schedules, the jobs that fire them, and everybody who changes either: requests,
a firing job, a starting server. Each of them reads a row, writes all of it, and changes the
job in a later step. `NodeCron` are the expressions that `cron.validate` accepts among those
that may be saved: in cron mode a row with another one gets no timer (`JobFor`). `CronsOf` are
the expressions that requests give to a flow.

| State | Code |
| --- | --- |
| `rec`, `created` | rows of `ScheduleRecord`, numbered in the order of `createdDate` |
| `job` | `cronJobs` of `ScheduleBeat`, or the job schedulers in Redis |
| `ed` | a request in `createOrUpdateSchedule`, `toggleScheduleEnabled`, `deleteScheduleForTarget` or `onScheduleChanged`, with the row it read |
| `run` | an execution of `executeScheduleJob`, with the row it read |
| `sync`, `up` | `_syncAllJobs` with its offset and page; whether the one server of cron mode runs |
| `passed` | end dates in the past |
| `excused` | history: rows whose job may differ from what they ask for, see below |

| Action | Code |
| --- | --- |
| `Find`, `Create`, `Save`, `Toggle`, `ToggleRefused`, `Drop` | the requests up to their write |
| `Reread`, `ApplyUpsert`, `ApplyDelete`, `ApplyLost` | `onScheduleChanged`, also when the second look at the row or Redis fails |
| `Fire`, `Load`, `Skip`, `Lapse`, `Unschedule`, `TooEarly`, `Execute`, `End` | `executeScheduleJob`, and the callbacks of `_onCronFire` and `ScheduleQueue.processJob` |
| `RemovalLost` | Redis refuses the removal that an execution asks for: `removeJobScheduler` only warns |
| `Boot`, `ReadPage`, `Register` | `_syncAllJobs` |
| `SyncFails` | `_syncAllJobs` throws; `initDatabase` logs it and the server listens with the jobs it has |
| `Crash`, `CrashWorker`, `Pass` | a server or a worker dies, an end date passes |

`JobsFollowRows` says when row and job may differ. Somebody is about to set the job: a request,
an execution, or a starting server that has the row ahead of it. Or the row is excused, until
somebody who knows it as it is sets its job, because

- whoever set the job last knew the row as it was before;
- the change of the job after a write of the row was lost: the second look at the row failed,
  Redis refused, or a crash came in between;
- a start did not reach the row: it failed, its server died, or the row moved up in the list
  when another one was disabled.

So it does not say that row and job never differ: two requests side by side, or a start that
fails, may leave an enabled schedule without a job until the next start, and a disabled one may
keep its job until it fires. `UselessJobsGo` is the second half of that sentence. A removal that
Redis refuses after an execution found its row gone or disabled excuses nobody: it leaves row
and job as they were. A request or an execution whose read or save of the row
throws changes nothing and ends, so it has no action.

`ScheduleMC` gives the two flows of the run an expression each.

### EventStreams

Who hears the events of a chat in queue mode. Events are not modelled one by one: what
matters is how many handlers a server has on a channel, and which response and which observers
are registered for the chat when an event comes.

| State | Code |
| --- | --- |
| `clients`, `observers` | the maps of `SSEStreamer` |
| `known`, `handlers` | `subscribedChannels` of `RedisEventSubscriber`, and the handlers its Redis client really has |
| `cmds`, `binds` | commands without an answer yet, messages on the bind channel of a server |
| `registry` | the hash `wh-listener:<flow>` |
| `pc`, `home`, `todo` | the place and the server of a prediction, a call or a panel; the listeners a call has still to bind |

| Action | Code |
| --- | --- |
| `Predict`, `Return`, `ReturnUnknown` | the streaming branch of both prediction controllers |
| `Open`, `Heartbeat`, `Close`, `Unregister` | `streamListener` and its close handler |
| `List`, `BindHere`, `BindThere`, `Begin`, `Finish` | `createWebhook` with `bindExecution` |
| `Reject` | a call throws after it bound its panels and before its flow: nobody tells them |
| `Bound` | the handler of the bind channel |
| `Answer`, `SubscribeFails`, `UnsubscribeFails` | Redis answers, and the code after the await |
| `Event`, `Cleanup` | `safeWrite` drops observers without a connection; `startPeriodicCleanup` |

Panels of a rejected call observe a chat in which nothing may ever happen. `PanelsAreToldHere`
and `DeadObserversGo` except chats with such a call; `EndReachesPanels`, which `RemotePanel`
checks, does not count it as an end.

### SequenceLemmas and the modules of proofs

`SequenceLemmas` holds facts about numbers and sequences that several proofs cite.
`SharedQuota_proofs`, `AgentflowEngine_proofs`, `AgentflowRoutes_proofs`,
`ChatRequests_proofs`, `ScheduleSystem_proofs`, `EventStreams_proofs` and
`ChatflowBuild_proofs` hold the theorems: see [Proofs](#proofs).

## Runs

`CHECK_DEADLOCK FALSE` is in every configuration, because the system may stop: every
request may have ended, and the flow may be built.

| Run | Instance | Asks |
| --- | --- | --- |
| `SharedQuota` | 2 requests, 2 ids (which the requests may share), 1 unit, 3 attempts | are executions, charges and refunds right under any loss, delay, retry and expiry; does every request end; does the protocol implement `MeteredDelivery` |
| `Diamond` | 1 request, a condition with branches of length 2 and 1, a plain branch, a join | do joins wait for what they need and for nothing else |
| `Approval` | 3 requests, two human inputs in a row, an agent | does an answer serve one question, and does the row tell what its data tells, under any interleaving with aborts, failures, deletions |
| `Revision` | 2 requests, a condition and a rejection that loop back, answers that name an old node, `MaxIterations` 6 | do requests end, also when the limit throws |
| `Items` | 3 requests, a human input before an iteration node of 2 items over an agent that may wait | does the row tell what its data tells, also when two answers run the items at once |
| `Schedules` | 2 flows, 1 request at a time, 1 execution at a time, 2 records, 1 cron expression for each flow, one of which node-cron does not know, 1 end date, pages of 1 record, 1 crash of a worker, both modes | do jobs follow the table; do useless jobs go away |
| `ChatRequests` | 3 requests of one chat or two, 1 worker, limit 2, 1 abort, 1 crash, 1 renewal, both modes; one flow returns only when it is aborted | do aborts hit what they are meant for and nothing else; is the counter right; does the limit hold |
| `EventStreams` | 2 servers, 1 chat, 2 predictions, 1 streaming call, which may be rejected, 1 panel, 1 refused command | who hears events, and how often; are responses ended; do dead observers and stale channels go |
| `ChatflowBuild` | all flows of 5 nodes without cycles, all choices of ending nodes, of an ifElse node and of what it refuses, answers and upserts | are nodes initialised in order, are all of them, is what is refused left out, does an ending node run, is an upsert done once |

Bounds, and why they are enough:

- `Run`: an answer needs one request that started and one that resumes; a race needs a
  third. Requests that only start do not disturb each other. In `Items` two answers to one
  question go through the items side by side.
- `MaxLoop` is 3 in `Revision`: each loop goes back twice, so that it meets its own entries.
- `MaxIterations` is out of reach, except in `Revision`: there it is low enough for two
  turns of a loop to reach it, and high enough for an answer to come back to its human
  input.
- `MaxItems` is 2: a row can be deleted between two items.
- `Orphan` is one row in `Items`, none elsewhere: rows that items create when the row of
  their request is gone.
- `ResumeAt` are the nodes clients name: a node that ran before, in `Revision`, and none in
  the others, where an answer goes to the node that stopped. It holds no iteration node,
  whose own entries would be dropped while its items add to them.
- `Size` is 5: two ways of different length to one ending node and a second ending node
  fit; a node is initialised twice only in flows of this size and above. Flows in which a node
  that is no ending node runs need six nodes and more, too many to go through all flows of: the
  conditions of `ExecutesEnd` were found with chosen flows of up to nine nodes, and its theorem
  holds for any size.
- `Capacity` is 1 for 2 ids: the second id is refused while the first holds the unit.
- `MaxAttempts` is 3, as in the code: a first, a middle and a last attempt.
- `Req` is 3 in `ChatRequests`, all of one chat or two of one beside one of another, and the one
  whose flow returns only when it is aborted may be either (`OneChatOrTwo`).
  One abort is enough for it to be late, early or meant for another request; one worker is
  enough for an entry to be overwritten and for an event to outlive its job. `Limit` is 2: the
  first request is below the limit, the second reaches it, the third is refused.
- `MaxRecords` is 2 and `BatchSize` 1 in `Schedules`: the record on the first page is disabled
  before the second page is read. One cron expression for each flow is enough, since a job is
  wrong when it is there and should not be, or the other way round; one of the two gets no timer
  in cron mode. Servers of `Schedules` crash and start
  without bound.
- `Editor` and `Run` have one element in `Schedules`: a request, an execution and a starting
  server race with each other. Two requests side by side are beyond TLC here.
- `EventStreams` has one chat, because chats share nothing but the order of commands. Two
  servers are enough for a call and its panel to be apart. `DoubleBind` and `RemotePanel` are
  smaller still.

Requests are interchangeable, so `Approval` and `Items` declare symmetry; the runs with
liveness properties do not.

`OneQuestionOpen` is checked where answers go to the node that stopped (`Approval`). An
answer that names a human input that was answered before may stop there again and leave two
questions open.

## Where code and comments disagree

Three runs expect a violation. Each checks what one comment or message says:

| Run | Comment or message | What the code does |
| --- | --- | --- |
| `ResumeRace` | `utils/buildAgentflow.ts`, line 1816, only stopped executions are resumed | the state is checked when the row is read and not when it is claimed: two answers resume one execution |
| `DoubleBind` | `queue/RedisEventSubscriber.ts`, lines 58 and 60, prevent duplicate subscription | the channel is added after the answer of Redis: two bind messages in a row attach two handlers, and every event arrives twice |
| `RemotePanel` | `controllers/webhook/index.ts`, line 149, and `utils/SSEStreamer.ts`, line 116, notify listeners that the execution is done | only the panels of the server that took the call are told; others keep observing |

Further disagreements are known from reading and modelling, and the properties are stated so
that they do not depend on them:

- `utils/index.ts`, line 731, "If nodeId has been seen, cycle detected": a node that waits in
  the queue is queued again by the next level, and a flow without cycles may initialise it
  twice. In an upsert it does not (`UpsertOnce`): there a node is queued only by the level
  before its own.
- `utils/index.ts`, line 749, "Move end node to last", and `utils/buildChatflow.ts`, line 172,
  which runs the last node when there are several ending nodes: what moves is a node all of
  whose neighbours, those of its level included, are ruled out. Two flows show what else may
  run. (1) Edges 1-2, 3-4, 4-5, 4-6, 5-6, ending nodes 2 and 6, the ifElse node 4 refuses 5.
  Node 6 still connects 5 with 4, so that 4 rules out itself and all behind it; when 2 is
  initialised before 4, node 4 moves after it, and runs in place of the ending node 2. (2)
  Edges 1-2, 2-3, 2-8, 4-5, 5-6, 6-7, 7-8, ending nodes 3 and 8, the ifElse node 2 refuses 8. Node 3
  stays, but the level behind it holds node 2, whose depth counts from 8: nothing moves, and the
  last node of the drawing runs. `ExecutesEnd` leaves out both (`ChooserDecides`).
- `utils/buildAgentflow.ts`, line 1408, "Stop going through the current route": a stop for a
  human leaves every route, and the queue is lost. The flows of `Approval` and `Revision` have
  one route to a human input.
- Line 831, "Find nodes to ignore based on unfulfilled conditions": only the first edge of an
  outcome is looked at. In `Diamond` an outcome leads to one node.
- Line 820, "so at least one branch executes": a node that two decisions share waits for both.
- Line 1785, "stopped and ready to resume": a stop inside an iteration node is resumed with an
  empty queue.
- Lines 1359 to 1370 of `utils/buildAgentflow.ts` save the data of an item and leave the
  state alone. When two answers run one execution, the save of one may follow the end that
  the other wrote: the row is FINISHED, and its last entry waits or failed. `RowTellsData`
  leaves out the rows of such executions while a request works on their items.
- `schedule/ScheduleBeat.ts`, line 65, resync after a change: see `JobsFollowRows` above.
- `index.ts`, line 163: a start whose list of schedules fails half way logs the error and
  listens, without the rest of the jobs (`SyncFails`).
- `controllers/webhook/index.ts`, line 149, "Notify webhook listeners that this execution is
  done": a call that throws at line 77 or 110, after it bound its panels at line 69, ends at
  line 163, and nobody notifies them (`Reject`).
- `controllers/webhook/index.ts`, line 75, "let downstream nodes push events through
  sseStreamer": in queue mode a streaming call does not subscribe to its channel, so that its
  response hears events only when a panel of the same server was bound (`Begin`).

## Fairness

`SharedQuota!Fairness` is weak fairness of each run's handlers and of its network calls: a
handler runs when its promise settles, and every promise settles, since `fetch` has a
time limit of its own and the flow returns or throws. Nothing makes a client start a
request, or the service expire a reservation.

`AgentflowEngine!FairSpec` is weak fairness of `Step(p)`: a request that began goes on,
since nodes return or throw and the database answers. No fairness is assumed of new
requests, aborts and deletions. `Start`, `Resume` and `Refuse` are not fair either: a
client may never send its answer.

`ChatRequests!Fairness`: a handler goes on when its promise settles, a waiting job is picked
up, a flow returns or throws (one of `Hung` only when it is aborted), the calls to the quota
service end (`fetch` has a time limit), and an abort event reaches the workers that listen. Nobody has to send a request or an abort.

`ScheduleSystem!Fairness`: requests, executions and a starting server go on. A job that stays
registered fires again and again (strong fairness of `Fire`), since its expression has a next
time; an execution of the same schedule may be under way whenever it does. Redis may refuse any removal
of a job, but not all removals that the firings of one row ask for (strong fairness of `Skip` or
`Unschedule` for each row): a Redis that refuses for ever cannot be told from one that is down.
Starts that fail, and requests, are not fair: nobody has to change a schedule.

`EventStreams!Fairness`: flows return, Redis answers, bind messages arrive, and the cleanup
runs again and again, since it is an interval timer. No panel has to open or close, and no
event has to come.

## Proofs

TLC checks small instances; the theorems hold for every value of the constants. Each comes
from an inductive invariant, which the modules put together from named parts.

Recursive definitions and searches are reasoned about through the least element of a finite
set of numbers, which follows from the well-foundedness of strict subsets (`LeastOf` in
`SequenceLemmas`): `UpToBound` and `Carried` go up to a bound step by step, and `Recursion`
shows that a recursive function over `0..n` has a value.

`SharedQuota_proofs`, for any number of requests, ids, units and attempts, from
`QuotaAssumption`:

- `TypeCorrect`: `Spec => []TypeOK`.
- `ExecutesOnce`, `AnswersAreCharged`, `ChargesAreSaved`, `SuccessIsKept`: the safety
  properties of the run `SharedQuota`. They are not inductive alone: that an id runs once
  rests on the ledger (an id whose run was let in has a record, and a record is never
  removed), that a charge was saved rests on which late calls exist (a consume call is on
  its way only for a run that saved), and so on. The inductive invariant of the module
  names these parts.
- `Refinement`: `Spec => ImplementsMetered`, action by action: a served call maps to
  `Hold`, `Charge` or `Refund`, saving to `Save`, an answer to `Return`, all else to a
  stutter.

`AgentflowEngine_proofs`, for every flow graph, any number of requests and any limits, from
`GraphAssumption` and `EngineAssumption`:

- `ApprovesOnce`: `Spec => []OneApproval`. An answer belongs to the node that is queued
  alone (`AnswerIsNext`), so it is used up by the first node that runs (`OneAnswer`).
- `InProgressIsWorkedOn`: `Spec => []InProgressIsActive`. Whoever claims a row works on it,
  and leaves it only through a write of an end state, or through the iteration limit. A
  request that did not begin has no row (`NewHasNoRow`).
- `TypeCorrect`: `Spec => []TypeOK`, with where requests are placed (`Placed`): who executes
  has a node, who resumes has a row and a node. The queue keeps its type through any number
  of deliveries (`DeliverAll`), the data through the removal of a node's entries
  (`WithoutNode`).
- `RowsTellTruth`: `Spec => []RowTellsData`. A failed entry is the last one, and belongs to
  a request that is about to write it (`DataCalm`); a row that waits holds nothing that failed
  (`RowsCalm`). Requests may race for a row in any way: who writes an end writes the state and
  the data of one request, and who saves an item is at work on it.
- `AsksOnce`: `Spec => []OneQuestionOpen`, for flows without iteration nodes and answers that
  go to the node that stopped, as in the run `Approval`. A request resumes with data whose only
  question is the one that it answers (`Open`), so what it writes has one question at most.

`AgentflowRoutes_proofs`, for every flow of the shapes of `AgentflowShapes`, where answers go
to the node that stopped. The properties do not hold of every graph: a join that two
outcomes of different decisions lead to may run before one of them. The theorems say which
graphs are safe, and `DiamondFits` shows that the flow `Diamond` is one:

- `JoinsWaitForAll` (`JoinsWait`) and `EveryRunIsFed` (`RunsAreFed`), for flows without loops and
  iterations, with `DistinctEdges`, and outcomes `guard` with `GuardsHold` and
  `InputsExclude`. What was given to a node is what waits for it, what is queued with it, or
  what it ran with (`FInv`); no node runs without the outcomes it presupposes, so of two inputs
  that exclude each other only one arrives.
- `EveryRouteArrives` (`NoRouteLost`), for flows that also ask nobody, have a rank along their
  edges, and whose joins are fed whatever is chosen. What was given to a node and did not run
  waits (`KInv`). When the queue is empty, suppose some node waits, and take one of least rank
  among those that should have run: all that leads to it has run, so it has what it needs and
  was queued (`AllArrive`).

`ChatRequests_proofs`, for any number of requests, chats and workers, any limit and any number
of aborts, crashes and renewals, from `RequestsAssumption`:

- `TypeCorrect`: `Spec => []TypeOK`.
- `PoolHasUnderWay`: `Spec => []PooledIsUnderWay`. A request enters the pool when its flow begins
  and leaves it when the flow returns or in its catch block; while it waits for its release its
  controller stays. A worker that crashes ends flows without touching the pool of the server;
  that is harmless because a server with workers keeps nothing in its pool (`ModesApart`).
- `AbortsAreAsked`: `Spec => []OnlyAskedIsAborted`, since entries and events stay with their
  chat (`KeysFit`).
- `LoneStaysReachable`: `Spec => []LoneIsReachable`. Whoever removes or overwrites the entry
  of a chat is a request of that chat, and then both are known to share it (`SharedIsKnown`): a request
  whose catch block is still to come is under way until it ran.
- `CountsRight`: `Spec => []CountIsRight`. What an update read is the counter itself unless
  another one overlaps (`ReadIsRecent`).
- `LimitIsKept`: `Spec => []LimitHolds`. As long as requests came alone, the counter is not
  behind the predictions, and a request that passed the check leaves room for its own
  (`AloneIsCounted`).

`ScheduleSystem_proofs`, for any number of flows, records, requests, executions and crashes and
for pages of any size, from `ScheduleAssumption` and `NamesAssumption`:

- `TypeCorrect`: `Spec => []TypeOK`.
- `JobsFollow`: `Spec => []JobsFollowRows`. A row whose job is not right yet is on the page of a
  starting server or further down the list (`ToBeListed`), where the place of a row is the number
  of enabled rows before it, and rows that are disabled in between move the others up. A start
  that fails or dies excuses exactly these rows. A server that is down has left no job
  (`DownIsEmpty`).

`EventStreams_proofs`, for any number of servers, chats, predictions, calls, panels and refused
commands, from `StreamsAssumption`:

- `TypeCorrect`: `Spec => []TypeOK`.
- `HeardOnce` (`AloneIsHeardOnce`) and `EndedWhenDone` (`AloneIsEnded`): who waits for Redis
  waits for one command of its own (`CommandsFit`), handlers sit on channels that are known
  (`ChannelsFit`), bind messages are on their way only for calls (`BindsFit`), and a prediction
  alone in its chat has one handler once its subscription was answered (`AloneFits`).
- `PanelsTold`: `Spec => []PanelsAreToldHere`, which is inductive with the others. It says nothing
  of chats with a call that was rejected after it was bound.

`ChatflowBuild_proofs`, for flows of any size without cycles, from `BuildAssumption`:

- `TypeCorrect`: `Spec => []TypeOK`. The walk of `getStartingNodes` has a result in every such
  flow; a node at depth `d` has `d` nodes initialised before it (`DepthsAreCounted`), which
  bounds depths.
- `InputsComeFirst`: `Spec => []DependenciesFirst`. Nothing leads to a starting node, and a
  node is queued when its inputs were initialised (`QueuedIsReady`).
- `RefusedNeverRuns`: `Spec => []RefusedIsOut`. The first refused node has the ifElse node among
  its inputs, so it is not queued before that, and ignored after (`RefusedIsIgnored`).
- `UpsertsOnce`: `Spec => []UpsertOnce`. In an upsert neighbours are the nodes above, which are
  initialised already: a node is queued by its level alone (`LevelsQueueOnce`).
- `LimitNeverReached`: `Spec => []NeverExhausted`, when `MaxLoop` is 2 or more (it is 3 in the
  code). The queue holds the rest of one level and then the next (`LevelsFollow`); a node is
  queued by the level in front of it and once more by its own (`QueuedTwice`).
- `EveryNodeIsReached`: `Spec => []AllReached`, under the same condition. A node keeps the level
  that queued it first (`QueuedAt`), later than the levels of its inputs
  (`InputsQueuedBefore`). While level `t` is queued, what is initialised was queued before, and
  what could have been queued by its depth and inputs is (`LevelReached`). When the queue is
  empty, suppose nodes are left, and take the last ending node whose depths count for one of
  them. All nodes of its ways up to depth `t` were initialised, so a way from depth 0 was queued
  level by level, and its node at depth `t` in level `t` at the earliest (`WayIsQueued`): too
  late for an initialised node. Nodes of one way that are left are ruled out together
  (`LeftTogether`), since what is ruled out is one component of the flow (`IgnoredIsApart`).
- `AnEndRuns`: `Spec => []ExecutesEnd`, under the same condition. What is ruled out is in front
  of everything behind the ifElse node (`IgnoredInFront`), so an ending node that moved is
  followed only by nodes that stay (`EndMoves`), and what moves is an ending node, or ruled out,
  or an ifElse node that led only to what it rules out (`LastMoved`). Among the ending nodes
  that stay, the one that was queued last did move: no level behind it has a node
  (`LastEndHasNoLevel`), since that node would count from an ending node that was queued later,
  or from one that is ruled out and then also from the ending node listed last.

Only model-checked:

- liveness under fairness (`RunsEnd`, `RequestsEnd`, `AbortEnds`, `UselessJobsGo`,
  `DeadObserversGo`, `StaleChannelsGo`), which is out of the prover's reach;
- `OneQuestionOpen`, `JoinsWait`, `RunsAreFed` and `NoRouteLost` for flows that do not meet the
  conditions of their theorems (`RunsAreFed` of `Revision`, whose loops go back);
- the three properties that a run expects to be violated.

## Not modelled

- What nodes compute (`packages/components`), texts and variables, telemetry and logs.
- Chat messages: the two messages of an answer are saved without a transaction; the model
  knows only whether the answer was saved.
- Chat flows with cycles (the walk of `getStartingNodes` does not end in them), with several
  ifElse nodes, and their texts, variables and histories. Version 1 multi-agent flows are
  compiled for a library.
- Accounts, workspaces, roles, billing, credentials, document stores, evaluations, MCP and
  OAuth adapters: records and calls of other systems.
- User interfaces (`packages/ui`, `packages/agentflow`, `packages/observe`). The canvas of
  agent flows forbids human input nodes inside iterations, so `Items` waits at an agent.
- Crashes of a server that runs a flow: a row in progress stays so for ever; nothing in the
  code picks it up. Workers and the servers of `ScheduleSystem` do crash.
- Trigger logs, `nextRunAt` and time zones of schedules: a run may overlap the next, which the
  code does not prevent.
- Event streams without queues, the registry in memory, the expiry of registry entries, the
  callbacks and signatures of webhooks.
- Plans without a limit, the usage of storage, aborts of text to speech, rate limits.

## Plan

1. **Done**: `SharedQuota` with `MeteredDelivery`, `AgentflowGraph`, `AgentflowEngine` with
   `AgentflowShapes`, `ChatflowBuild`, `ChatRequests`, `ScheduleSystem`, `EventStreams`, and
   proofs about all of them.
2. Proofs: every safety property of a passing run has its theorem. Left are their conditions:
   `AsksOnce` for flows with iteration nodes, `EveryRouteArrives` for flows with human inputs on
   a single route.
3. `ExecutionLifecycle`: what an execution promises to those who look at its row, refined by
   `AgentflowEngine`. `ScheduleTable`: a table with one job for each enabled row, which
   `ScheduleSystem` refines when requests do not overlap.
4. `RateLimits`: the limiters of two servers. The trigger logs of schedules, with times.

## How to run

```
tlc -config Approval.cfg AgentflowMC      # the runs: PROJECT.json names module and cfg
tlc -config SharedQuota.cfg SharedQuota
tlapm SharedQuota_proofs.tla
tlapm AgentflowEngine_proofs.tla
tlapm AgentflowRoutes_proofs.tla
tlapm ChatRequests_proofs.tla
tlapm ScheduleSystem_proofs.tla
tlapm EventStreams_proofs.tla
tlapm ChatflowBuild_proofs.tla
tlapm SequenceLemmas.tla
```

Definitions marked "faulty" in the modules are slips of the kind a change of the code could
make. No action uses them: `PROJECT.json` lists, under `mutants`, which definition each one
replaces and which property then fails.
