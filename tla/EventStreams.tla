----------------------------- MODULE EventStreams -----------------------------
(***************************************************************************)
(* How the events of a flow reach those who watch it, in "queue" mode: the *)
(* connections and observers of each replica (utils/SSEStreamer.ts), its   *)
(* Redis channels (queue/RedisEventSubscriber.ts), the listeners of a      *)
(* webhook flow (services/webhook-listener/registry.ts), and the requests  *)
(* that use them (controllers/predictions, internal-predictions, webhook   *)
(* and webhook-listener).                                                  *)
(*                                                                         *)
(* The flow runs on a worker, which publishes its events on the channel of *)
(* its chat.  A replica that subscribed hears them once for each handler   *)
(* it attached.  Redis is external: it answers the commands of a           *)
(* connection in their order, and a pair of reply and continuation is one  *)
(* step here.                                                              *)
(*                                                                         *)
(* Definitions marked "faulty" are slips the properties must catch: no     *)
(* action uses them.                                                       *)
(***************************************************************************)
EXTENDS Naturals, Sequences

CONSTANTS Replica,   \* servers
          Chat,      \* chats, which name channels
          Req,       \* streaming predictions
          Hook,      \* calls of the webhook of one flow
          Streaming, \* calls whose responseMode is "stream", if the flow can stream
          Listener,  \* listener panels of that flow
          MaxErrors, \* bound: commands that Redis refuses
          None       \* no replica, nobody

ASSUME StreamsAssumption ==
  /\ Streaming \subseteq Hook
  /\ Req \cap Hook = {}
  /\ Listener \cap (Req \cup Hook \cup Chat) = {}
  /\ MaxErrors \in Nat
  /\ None \notin Replica \cup Req \cup Hook \cup Listener

VARIABLES
  chat,     \* chat[x]: the chat of request x
  home,     \* home[x]: the replica of request or listener x
  pc,       \* pc[x]: the place of request or listener x
  todo,     \* todo[h]: listeners that bindExecution has still to bind
  clients,  \* clients[s][k]: whose response is registered for chat or listener k
  observers,\* observers[s][c]: listeners that observe c
  known,    \* known[s]: subscribedChannels
  handlers, \* handlers[s][c]: handlers attached to channel c
  cmds,     \* cmds[s]: commands Redis has not answered yet
  binds,    \* binds[s]: messages on the bind channel of s
  registry, \* registry[l]: the replica of l in the hash of the flow
  errors,   \* commands refused so far
  history   \* what the properties look back at

streamer == <<clients, observers>>
redis == <<known, handlers, cmds>>
places == <<chat, home, pc>>
vars == <<places, todo, streamer, redis, binds, registry, errors, history>>

Request == Req \cup Hook
Key == Chat \cup Listener
Command == [op : {"sub", "unsub"}, chat : Chat, who : Request \cup {None}]
Bind == [chat : Chat, listener : Listener]

\* history.alone   predictions that met nobody and nothing of their chat
\* history.ended   requests whose response was ended
\* history.broken  channels a replica forgot although Redis refused to
TypeOK ==
  /\ chat \in [Request -> Chat]
  /\ home \in [Request \cup Listener -> Replica \cup {None}]
  /\ pc \in [Request \cup Listener ->
               {"new", "subscribing", "binding", "attaching", "running", "unsubscribing",
                "done", "rejected", "opened", "listening", "closed"}]
  /\ todo \in [Hook -> SUBSET Listener]
  /\ clients \in [Replica -> [Key -> Request \cup Listener \cup {None}]]
  /\ observers \in [Replica -> [Chat -> SUBSET Listener]]
  /\ known \in [Replica -> SUBSET Chat]
  /\ handlers \in [Replica -> [Chat -> Nat]]
  /\ cmds \in [Replica -> Seq(Command)]
  /\ binds \in [Replica -> Seq(Bind)]
  /\ registry \in [Listener -> Replica \cup {None}]
  /\ errors \in 0..MaxErrors
  /\ history \in [alone : SUBSET Req, ended : SUBSET Request, broken : SUBSET (Replica \X Chat)]

Init ==
  /\ chat \in [Request -> Chat]
  /\ home = [x \in Request \cup Listener |-> None]
  /\ pc = [x \in Request \cup Listener |-> "new"]
  /\ todo = [h \in Hook |-> {}]
  /\ clients = [s \in Replica |-> [k \in Key |-> None]]
  /\ observers = [s \in Replica |-> [c \in Chat |-> {}]]
  /\ known = [s \in Replica |-> {}]
  /\ handlers = [s \in Replica |-> [c \in Chat |-> 0]]
  /\ cmds = [s \in Replica |-> <<>>]
  /\ binds = [s \in Replica |-> <<>>]
  /\ registry = [l \in Listener |-> None]
  /\ errors = 0
  /\ history = [alone |-> {}, ended |-> {}, broken |-> {}]

-----------------------------------------------------------------------------
(* SSEStreamer and RedisEventSubscriber.                                   *)

GoTo(x, place) == pc' = [pc EXCEPT ![x] = place]
Elements(q) == {q[i] : i \in DOMAIN q}
UnderWay(s, c) == \E m \in Elements(cmds[s]) : m.chat = c
Active(x) == pc[x] \notin {"new", "done", "rejected"}
Executed(x) == pc[x] \in {"new", "done"}

NoClient(s, k, who) == UNCHANGED clients
AddClient(s, k, who) == clients' = [clients EXCEPT ![s][k] = who]
AddObserver(s, c, l) == observers' = [observers EXCEPT ![s][c] = @ \cup {l}]
HasClientOrObserver(s, c) == clients[s][c] # None \/ observers[s][c] # {}

\* removeClient(c): whoever is registered for the chat is ended, and its
\* observers are told and forgotten.
ForgottenChat(s, c) ==
  /\ clients' = [clients EXCEPT ![s][c] = None]
  /\ UNCHANGED observers
RemoveChat(s, c) ==
  /\ clients' = [clients EXCEPT ![s][c] = None]
  /\ observers' = [observers EXCEPT ![s][c] = {}]
EndsAnyway(s, c) == {clients[s][c]}
EndedBy(s, c) == IF clients[s][c] = None THEN {} ELSE {clients[s][c]}

\* removeClient(l): the listener is scrubbed from all sets.
UnscrubbedListener(s, l) ==
  /\ clients' = [clients EXCEPT ![s][l] = None]
  /\ UNCHANGED observers
RemoveListener(s, l) ==
  /\ clients' = [clients EXCEPT ![s][l] = None]
  /\ observers' = [observers EXCEPT ![s] = [c \in Chat |-> @[c] \ {l}]]

Send(s, op, c, who) ==
  cmds' = [cmds EXCEPT ![s] = Append(@, [op |-> op, chat |-> c, who |-> who])]

\* The command is answered: a subscribe attaches its handler, an unsubscribe
\* detaches all of them.
Known(s, m) == IF m.op = "sub" THEN known[s] \cup {m.chat} ELSE known[s] \ {m.chat}
NoneDetached(s, m) == IF m.op = "sub" THEN handlers[s][m.chat] + 1 ELSE handlers[s][m.chat]
Attached(s, m) == IF m.op = "sub" THEN handlers[s][m.chat] + 1 ELSE 0

-----------------------------------------------------------------------------
(* Streaming predictions.                                                  *)

\* The response is registered for the chat, whatever was there, and the
\* replica subscribes unless it knows the channel.
Predict(r, s) ==
  /\ pc[r] = "new"
  /\ LET c == chat[r]
         others == {x \in Request : x # r /\ chat[x] = c /\ Active(x)}
         quiet == others = {} /\ ~UnderWay(s, c) /\ handlers[s][c] <= 1
                    /\ (\A b \in Elements(binds[s]) : b.chat # c) /\ <<s, c>> \notin history.broken
     IN  /\ AddClient(s, c, r)
         /\ IF c \in known[s]
            THEN GoTo(r, "running") /\ UNCHANGED cmds
            ELSE GoTo(r, "subscribing") /\ Send(s, "sub", c, r)
         /\ history' = [history EXCEPT !.alone = (@ \ others) \cup (IF quiet THEN {r} ELSE {})]
  /\ home' = [home EXCEPT ![r] = s]
  /\ UNCHANGED <<chat, todo, observers, known, handlers, binds, registry, errors>>

\* The flow returned or threw: the finally block unsubscribes ...
Return(r) ==
  /\ pc[r] = "running" /\ chat[r] \in known[home[r]]
  /\ GoTo(r, "unsubscribing")
  /\ Send(home[r], "unsub", chat[r], r)
  /\ UNCHANGED <<chat, home, todo, streamer, known, handlers, binds, registry, errors, history>>

\* ... or has nothing to unsubscribe, and removes the client.
ReturnUnknown(r) ==
  /\ pc[r] = "running" /\ chat[r] \notin known[home[r]]
  /\ GoTo(r, "done")
  /\ RemoveChat(home[r], chat[r])
  /\ history' = [history EXCEPT !.ended = @ \cup EndedBy(home[r], chat[r])]
  /\ UNCHANGED <<chat, home, todo, redis, binds, registry, errors>>

-----------------------------------------------------------------------------
(* Listener panels.                                                        *)

\* streamListener: the response is registered under the listener's id ...
Open(l, s) ==
  /\ pc[l] = "new"
  /\ GoTo(l, "opened")
  /\ home' = [home EXCEPT ![l] = s]
  /\ AddClient(s, l, l)
  /\ UNCHANGED <<chat, todo, observers, redis, binds, registry, errors, history>>

\* ... and the heartbeat enters it into the hash.
Heartbeat(l) ==
  /\ pc[l] = "opened"
  /\ GoTo(l, "listening")
  /\ registry' = [registry EXCEPT ![l] = home[l]]
  /\ UNCHANGED <<chat, home, todo, streamer, redis, binds, errors, history>>

\* The panel is closed: the client is removed at once ...
Close(l) ==
  /\ pc[l] = "listening"
  /\ GoTo(l, "closed")
  /\ RemoveListener(home[l], l)
  /\ UNCHANGED <<chat, home, todo, redis, binds, registry, errors, history>>

\* ... and its entry a little later.
Unregister(l) ==
  /\ pc[l] = "closed"
  /\ GoTo(l, "done")
  /\ registry' = [registry EXCEPT ![l] = None]
  /\ UNCHANGED <<chat, home, todo, streamer, redis, binds, errors, history>>

-----------------------------------------------------------------------------
(* Calls of the webhook.                                                   *)

\* bindExecution reads the hash ...
List(h, s) ==
  /\ pc[h] = "new"
  /\ GoTo(h, "binding")
  /\ home' = [home EXCEPT ![h] = s]
  /\ todo' = [todo EXCEPT ![h] = {l \in Listener : registry[l] # None}]
  /\ history' = [history EXCEPT !.alone = {r \in @ : chat[r] # chat[h] \/ ~Active(r)}]
  /\ UNCHANGED <<chat, streamer, redis, binds, registry, errors>>

\* ... and binds one listener after the other.  A listener of this replica
\* observes at once; the replica subscribes unless it knows the channel.
BindHere(h, l) ==
  /\ pc[h] = "binding" /\ l \in todo[h] /\ home[l] = home[h]
  /\ todo' = [todo EXCEPT ![h] = @ \ {l}]
  /\ AddObserver(home[h], chat[h], l)
  /\ IF chat[h] \in known[home[h]]
     THEN UNCHANGED <<pc, cmds>>
     ELSE GoTo(h, "attaching") /\ Send(home[h], "sub", chat[h], h)
  /\ UNCHANGED <<chat, home, clients, known, handlers, binds, registry, errors, history>>

\* For another replica's listener, that replica is told.
BindThere(h, l) ==
  /\ pc[h] = "binding" /\ l \in todo[h] /\ home[l] # home[h]
  /\ todo' = [todo EXCEPT ![h] = @ \ {l}]
  /\ binds' = [binds EXCEPT ![home[l]] = Append(@, [chat |-> chat[h], listener |-> l])]
  /\ UNCHANGED <<places, streamer, redis, registry, errors, history>>

\* The message arrives: it is dropped if the listener is not connected.
Bound(s) ==
  /\ binds[s] # <<>>
  /\ LET b == Head(binds[s])
         connected == clients[s][b.listener] # None
     IN  /\ IF connected THEN AddObserver(s, b.chat, b.listener) ELSE UNCHANGED observers
         /\ IF connected /\ b.chat \notin known[s]
            THEN Send(s, "sub", b.chat, None) ELSE UNCHANGED cmds
  /\ binds' = [binds EXCEPT ![s] = Tail(@)]
  /\ UNCHANGED <<places, todo, clients, known, handlers, registry, errors, history>>

\* All are bound: the flow starts.  In "stream" mode the response is
\* registered for the chat; the replica does not subscribe for it.
Begin(h) ==
  /\ pc[h] = "binding" /\ todo[h] = {}
  /\ GoTo(h, "running")
  /\ IF h \in Streaming THEN AddClient(home[h], chat[h], h) ELSE UNCHANGED clients
  /\ UNCHANGED <<chat, home, todo, observers, redis, binds, registry, errors, history>>

\* Or the call throws before its flow starts: the flow cannot be looked up
\* ("stream" mode), or the callbackUrl is not valid ("async" mode).  The error
\* is answered, and those bound are not told.
Reject(h) ==
  /\ pc[h] = "binding" /\ todo[h] = {}
  /\ GoTo(h, "rejected")
  /\ UNCHANGED <<chat, home, todo, streamer, redis, binds, registry, errors, history>>

\* The flow returned or threw.
Finish(h) ==
  /\ pc[h] = "running"
  /\ GoTo(h, "done")
  /\ RemoveChat(home[h], chat[h])
  /\ history' = [history EXCEPT !.ended = @ \cup EndedBy(home[h], chat[h])]
  /\ UNCHANGED <<chat, home, todo, redis, binds, registry, errors>>

-----------------------------------------------------------------------------
(* Redis.                                                                  *)

\* What the sender of a command does with the answer: a prediction goes on or
\* ends its response, a call goes on binding, a bind message is done.
Continue(s, m, place) ==
  /\ IF m.who = None THEN UNCHANGED pc ELSE GoTo(m.who, place)
  /\ IF place = "done"
     THEN /\ RemoveChat(s, m.chat)
          /\ history' = [history EXCEPT !.ended = @ \cup EndedBy(s, m.chat)]
     ELSE UNCHANGED <<streamer, history>>

Place(m) ==
  IF m.op = "unsub" /\ m.who # None THEN "done"
  ELSE IF m.who \in Hook THEN "binding" ELSE "running"

Answer(s) ==
  /\ cmds[s] # <<>>
  /\ LET m == Head(cmds[s])
     IN  /\ known' = [known EXCEPT ![s] = Known(s, m)]
         /\ handlers' = [handlers EXCEPT ![s][m.chat] = Attached(s, m)]
         /\ Continue(s, m, Place(m))
  /\ cmds' = [cmds EXCEPT ![s] = Tail(@)]
  /\ UNCHANGED <<chat, home, todo, binds, registry, errors>>

\* A subscribe is refused: the prediction fails; the call gives up binding and
\* runs its flow.
SubscribeFails(s) ==
  /\ cmds[s] # <<>> /\ Head(cmds[s]).op = "sub" /\ errors < MaxErrors
  /\ LET m == Head(cmds[s])
     IN  /\ IF m.who \in Req
            THEN IF m.chat \in known[s]
                 THEN /\ cmds' = [cmds EXCEPT ![s] =
                              Append(Tail(@), [op |-> "unsub", chat |-> m.chat, who |-> m.who])]
                      /\ GoTo(m.who, "unsubscribing")
                      /\ UNCHANGED <<streamer, history>>
                 ELSE /\ cmds' = [cmds EXCEPT ![s] = Tail(@)]
                      /\ Continue(s, m, "done")
            ELSE /\ cmds' = [cmds EXCEPT ![s] = Tail(@)]
                 /\ Continue(s, m, "binding")
         /\ todo' = IF m.who \in Hook THEN [todo EXCEPT ![m.who] = {}] ELSE todo
  /\ errors' = errors + 1
  /\ UNCHANGED <<chat, home, known, handlers, binds, registry>>

\* An unsubscribe is refused: the channel is forgotten all the same.
UnsubscribeFails(s) ==
  /\ cmds[s] # <<>> /\ Head(cmds[s]).op = "unsub" /\ errors < MaxErrors
  /\ LET m == Head(cmds[s])
     IN  /\ known' = [known EXCEPT ![s] = @ \ {m.chat}]
         /\ IF m.who = None
            THEN UNCHANGED <<pc, streamer>> /\ history' = [history EXCEPT !.broken = @ \cup {<<s, m.chat>>}]
            ELSE /\ GoTo(m.who, "done")
                 /\ RemoveChat(s, m.chat)
                 /\ history' = [history EXCEPT !.ended = @ \cup EndedBy(s, m.chat),
                                               !.broken = @ \cup {<<s, m.chat>>}]
  /\ cmds' = [cmds EXCEPT ![s] = Tail(@)]
  /\ errors' = errors + 1
  /\ UNCHANGED <<chat, home, todo, handlers, binds, registry>>

\* An event of the flow arrives, maybe late: observers without a connection
\* are dropped.
Event(s, c) ==
  /\ handlers[s][c] > 0
  /\ \E x \in Request : chat[x] = c /\ pc[x] \in {"running", "unsubscribing", "done"}
  /\ observers' = [observers EXCEPT ![s][c] = {l \in @ : clients[s][l] # None}]
  /\ observers' # observers
  /\ UNCHANGED <<places, todo, clients, redis, binds, registry, errors, history>>

\* The periodic cleanup.  Redis answers faster than its interval.
Cleanup(s, c) ==
  /\ c \in known[s] /\ ~HasClientOrObserver(s, c)
  /\ \A m \in Elements(cmds[s]) : ~(m.op = "unsub" /\ m.chat = c /\ m.who = None)
  /\ Send(s, "unsub", c, None)
  /\ UNCHANGED <<places, todo, streamer, known, handlers, binds, registry, errors, history>>

-----------------------------------------------------------------------------
StepOf(r) == Return(r) \/ ReturnUnknown(r)
Call(h) == (\E l \in Listener : BindHere(h, l) \/ BindThere(h, l)) \/ Begin(h)
             \/ Reject(h) \/ Finish(h)
Reply(s) == Answer(s) \/ SubscribeFails(s) \/ UnsubscribeFails(s)

Next ==
  \/ \E s \in Replica :
       \/ \E r \in Req : Predict(r, s)
       \/ \E l \in Listener : Open(l, s)
       \/ \E h \in Hook : List(h, s)
       \/ Bound(s) \/ Reply(s)
       \/ \E c \in Chat : Event(s, c) \/ Cleanup(s, c)
  \/ \E r \in Req : StepOf(r)
  \/ \E h \in Hook : Call(h)
  \/ \E l \in Listener : Heartbeat(l) \/ Close(l) \/ Unregister(l)

\* Flows return, handlers go on, Redis answers, messages arrive, and the
\* cleanup runs again and again.  No panel has to open or to close.
Fairness ==
  /\ \A r \in Req : WF_vars(StepOf(r))
  /\ \A h \in Hook : WF_vars(Call(h))
  /\ \A s \in Replica : WF_vars(Reply(s)) /\ WF_vars(Bound(s))
  /\ \A s \in Replica, c \in Chat : WF_vars(Cleanup(s, c))

Spec == Init /\ [][Next]_vars
FairSpec == Spec /\ Fairness

-----------------------------------------------------------------------------
(* Properties.                                                             *)

\* A prediction whose chat nobody else uses hears each event once, on its own
\* response, also when an earlier execution left the channel subscribed.
AloneIsHeardOnce ==
  \A r \in Req : pc[r] = "running" /\ r \in history.alone
    => handlers[home[r]][chat[r]] = 1 /\ clients[home[r]][chat[r]] = r

\* Its response is ended when it is done, and not before.
AloneIsEnded ==
  \A r \in history.alone : r \in history.ended <=> pc[r] = "done"

\* On the replica that took the calls of a chat, no panel observes it any more
\* when they are over: the panels were told.  Those of a call that was rejected
\* after it was bound are not (controllers/webhook).
PanelsAreToldHere ==
  \A s \in Replica, c \in Chat :
    (\A h \in Hook : chat[h] = c => Executed(h) /\ home[h] \in {s, None})
      => observers[s][c] = {}

\* A listener that is gone does not observe for ever: an event, or the end of
\* the execution it was bound to, drops it (bindExecution does not look whether
\* the listener is still connected).  It stays if a call of the chat was
\* rejected after it was bound, since no event and no end need follow.
DeadObserversGo ==
  \A s \in Replica, c \in Chat, l \in Listener :
    (l \in observers[s][c] /\ clients[s][l] = None)
      ~> (l \notin observers[s][c] \/ \E h \in Hook : chat[h] = c /\ pc[h] = "rejected")

\* A channel nobody watches on a replica is given up, or watched again.
StaleChannelsGo ==
  \A s \in Replica, c \in Chat :
    (handlers[s][c] > 0 /\ ~HasClientOrObserver(s, c))
      ~> (handlers[s][c] = 0 \/ HasClientOrObserver(s, c) \/ <<s, c>> \in history.broken)

\* A channel is subscribed once (RedisEventSubscriber.ts, lines 58 to 61).
SubscribedOnce == \A s \in Replica, c \in Chat : handlers[s][c] <= 1

\* When the executions of a chat are over, no panel still observes it: the
\* panels were told (SSEStreamer.ts, line 116; controllers/webhook, line 149).
EndReachesPanels ==
  \A s \in Replica, c \in Chat :
    (\A x \in Request : chat[x] = c => Executed(x)) /\ ~UnderWay(s, c)
      => observers[s][c] = {}
=============================================================================
