------------------------- MODULE EventStreams_proofs -------------------------
(***************************************************************************)
(* What holds of the event streams for any number of replicas, chats,      *)
(* predictions, calls, panels and refused commands: the types, that a      *)
(* prediction alone in its chat hears each event once and is ended when it *)
(* is done, and that the panels of the replica that took a call are told.  *)
(***************************************************************************)
EXTENDS EventStreams, TLAPS

-----------------------------------------------------------------------------
(* The inductive invariant.                                                *)

\* Whoever began has a replica, and what was ended or is registered began, under its own
\* chat and on its own replica.
Homes ==
  \A x \in Request \cup Listener : pc[x] = "new" <=> home[x] = None

Registered ==
  /\ \A s \in Replica, k \in Key, x \in Request :
       clients[s][k] = x => k = chat[x] /\ home[x] = s
  /\ \A s \in Replica, c \in Chat : clients[s][c] \in Request \cup {None}
  /\ \A x \in history.ended : pc[x] # "new"

\* Where the sender of a command waits for its answer.
Sent(m) == IF m.op = "unsub" THEN "unsubscribing"
           ELSE IF m.who \in Hook THEN "attaching" ELSE "subscribing"

\* A sender waits for the one command it sent.
CommandsFit ==
  \A s \in Replica : \A i \in 1..Len(cmds[s]) :
    LET m == cmds[s][i]
    IN  m.who # None =>
          /\ chat[m.who] = m.chat /\ home[m.who] = s /\ pc[m.who] = Sent(m)
          /\ m.op = "unsub" => m.who \in Req
          /\ \A j \in 1..Len(cmds[s]) : cmds[s][j].who = m.who => j = i

\* Handlers are attached where the channel is known, and nowhere else, unless an
\* unsubscribe was refused.
ChannelsFit ==
  \A s \in Replica, c \in Chat :
    /\ c \in known[s] => handlers[s][c] > 0
    /\ c \notin known[s] /\ <<s, c>> \notin history.broken => handlers[s][c] = 0

\* A bind message comes from a call on another replica.
BindsFit ==
  \A s \in Replica : \A i \in 1..Len(binds[s]) :
    \E h \in Hook : chat[h] = binds[s][i].chat /\ home[h] \notin {s, None}

\* No command of q is about channel c, or m is the only one about its channel.
NoneFor(q, c) == \A i \in 1..Len(q) : q[i].chat # c
OnlyOne(q, m) ==
  \E i \in 1..Len(q) : q[i] = m /\ \A j \in 1..Len(q) : q[j].chat = m.chat => j = i

\* Nobody else uses the chat of r and its channel.
AloneWith(r, s, c) ==
  /\ pc[r] \in {"subscribing", "running", "unsubscribing"}
  /\ \A x \in Request : x # r /\ chat[x] = c => ~Active(x)
  /\ clients[s][c] = r
  /\ \A i \in 1..Len(binds[s]) : binds[s][i].chat # c
  /\ pc[r] = "running" => c \in known[s] /\ handlers[s][c] = 1 /\ NoneFor(cmds[s], c)
  /\ pc[r] = "subscribing" =>
       /\ c \notin known[s] /\ handlers[s][c] = 0
       /\ OnlyOne(cmds[s], [op |-> "sub", chat |-> c, who |-> r])
  /\ pc[r] = "unsubscribing" =>
       OnlyOne(cmds[s], [op |-> "unsub", chat |-> c, who |-> r])

Alone(r) ==
  /\ r \in history.ended <=> pc[r] = "done"
  /\ pc[r] # "done" => AloneWith(r, home[r], chat[r])

AloneFits == \A r \in history.alone : Alone(r)

IInv == /\ TypeOK /\ Homes /\ Registered /\ CommandsFit /\ ChannelsFit /\ BindsFit
        /\ PanelsAreToldHere /\ AloneFits

-----------------------------------------------------------------------------
(* Queues of commands.                                                     *)

\* A sequence grows at its end.
LEMMA Appended ==
  ASSUME NEW S, NEW q \in Seq(S), NEW m \in S
  PROVE  /\ Append(q, m) \in Seq(S) /\ Len(Append(q, m)) = Len(q) + 1 /\ Len(q) \in Nat
         /\ \A i \in 1..Len(q) : Append(q, m)[i] = q[i]
         /\ Append(q, m)[Len(q) + 1] = m
OBVIOUS

\* A sequence loses its head.
LEMMA Popped ==
  ASSUME NEW S, NEW q \in Seq(S), q # <<>>
  PROVE  /\ Tail(q) \in Seq(S) /\ Len(Tail(q)) = Len(q) - 1 /\ Len(q) \in Nat \ {0}
         /\ \A i \in 1..(Len(q) - 1) : Tail(q)[i] = q[i + 1]
         /\ Head(q) = q[1] /\ Head(q) \in S
OBVIOUS

\* A command about another channel is sent.
LEMMA Longer ==
  ASSUME NEW q \in Seq(Command), NEW n \in Command, NEW c, n.chat # c
  PROVE  /\ NoneFor(q, c) => NoneFor(Append(q, n), c)
         /\ \A m \in Command : m.chat = c /\ OnlyOne(q, m) => OnlyOne(Append(q, n), m)
<1> DEFINE p == Append(q, n)
<1>1. /\ Len(p) = Len(q) + 1 /\ Len(q) \in Nat /\ p[Len(q) + 1] = n
      /\ \A i \in 1..Len(q) : p[i] = q[i]
  BY Appended
<1> HIDE DEF p
<1>2. \A i \in 1..Len(p) : i \in 1..Len(q) \/ p[i] = n
  BY <1>1
<1>3. NoneFor(q, c) => NoneFor(p, c)
  BY <1>1, <1>2 DEF NoneFor
<1>4. ASSUME NEW m \in Command, m.chat = c, OnlyOne(q, m) PROVE OnlyOne(p, m)
  <2>1. PICK i \in 1..Len(q) : q[i] = m /\ \A j \in 1..Len(q) : q[j].chat = m.chat => j = i
    BY <1>4 DEF OnlyOne
  <2>2. i \in 1..Len(p) /\ p[i] = m
    BY <1>1, <2>1
  <2>3. \A j \in 1..Len(p) : p[j].chat = m.chat => j = i
    BY <1>1, <1>2, <1>4, <2>1
  <2> QED
    BY <2>2, <2>3 DEF OnlyOne
<1> QED
  BY <1>3, <1>4 DEF p

\* A command about another channel is answered.
LEMMA Shorter ==
  ASSUME NEW q \in Seq(Command), q # <<>>, NEW c, Head(q).chat # c
  PROVE  /\ NoneFor(q, c) => NoneFor(Tail(q), c)
         /\ \A m \in Command : m.chat = c /\ OnlyOne(q, m) => OnlyOne(Tail(q), m)
<1> DEFINE p == Tail(q)
<1>1. /\ Len(p) = Len(q) - 1 /\ Len(q) \in Nat \ {0} /\ q[1].chat # c
      /\ \A i \in 1..(Len(q) - 1) : p[i] = q[i + 1]
  BY Popped
<1> HIDE DEF p
<1>2. \A i \in 1..Len(p) : i + 1 \in 1..Len(q) /\ p[i] = q[i + 1]
  BY <1>1
<1>3. NoneFor(q, c) => NoneFor(p, c)
  BY <1>2 DEF NoneFor
<1>4. ASSUME NEW m \in Command, m.chat = c, OnlyOne(q, m) PROVE OnlyOne(p, m)
  <2>1. PICK i \in 1..Len(q) : q[i] = m /\ \A j \in 1..Len(q) : q[j].chat = m.chat => j = i
    BY <1>4 DEF OnlyOne
  <2>2. i # 1
    BY <1>1, <1>4, <2>1
  <2>3. i - 1 \in 1..Len(p) /\ p[i - 1] = m
    BY <1>1, <2>1, <2>2
  <2>4. \A j \in 1..Len(p) : p[j].chat = m.chat => j = i - 1
    BY <1>2, <2>1
  <2> QED
    BY <2>3, <2>4 DEF OnlyOne
<1> QED
  BY <1>3, <1>4 DEF p

\* The only command about a channel is answered, or sent.
LEMMA OnlyHead ==
  ASSUME NEW q \in Seq(Command), q # <<>>, NEW m, OnlyOne(q, m), Head(q).chat = m.chat
  PROVE  Head(q) = m /\ NoneFor(Tail(q), m.chat)
<1> DEFINE p == Tail(q)
<1>1. /\ Len(p) = Len(q) - 1 /\ Len(q) \in Nat \ {0} /\ q[1].chat = m.chat /\ Head(q) = q[1]
      /\ \A i \in 1..(Len(q) - 1) : p[i] = q[i + 1]
  BY Popped
<1>2. PICK i \in 1..Len(q) : q[i] = m /\ \A j \in 1..Len(q) : q[j].chat = m.chat => j = i
  BY DEF OnlyOne
<1> HIDE DEF p
<1>3. i = 1
  BY <1>1, <1>2
<1>4. \A j \in 1..Len(p) : p[j] = q[j + 1] /\ j + 1 \in 1..Len(q) /\ j + 1 # 1
  BY <1>1
<1> QED
  BY <1>1, <1>2, <1>3, <1>4 DEF NoneFor, p

\* The first command about a channel is sent.
LEMMA FirstOne ==
  ASSUME NEW q \in Seq(Command), NEW m \in Command, NoneFor(q, m.chat)
  PROVE  OnlyOne(Append(q, m), m)
<1> DEFINE p == Append(q, m)
<1>1. /\ Len(p) = Len(q) + 1 /\ Len(q) \in Nat /\ p[Len(q) + 1] = m
      /\ \A i \in 1..Len(q) : p[i] = q[i]
  BY Appended
<1> HIDE DEF p
<1>2. \A i \in 1..Len(p) : i \in 1..Len(q) \/ i = Len(q) + 1
  BY <1>1
<1>3. \A i \in 1..Len(p) : p[i].chat = m.chat => i = Len(q) + 1
  BY <1>1, <1>2 DEF NoneFor
<1>4. Len(q) + 1 \in 1..Len(p)
  BY <1>1
<1> QED
  BY <1>1, <1>3, <1>4 DEF OnlyOne, p

-----------------------------------------------------------------------------
(* Types.                                                                  *)

PlaceName == {"new", "subscribing", "binding", "attaching", "running", "unsubscribing",
           "done", "rejected", "opened", "listening", "closed"}
Anybody == Request \cup Listener
HistoryState ==
  [alone : SUBSET Req, ended : SUBSET Request, broken : SUBSET (Replica \X Chat)]

\* TypeOK, a variable at a time.
LEMMA Types ==
  TypeOK <=> /\ chat \in [Request -> Chat] /\ home \in [Anybody -> Replica \cup {None}]
             /\ pc \in [Anybody -> PlaceName] /\ todo \in [Hook -> SUBSET Listener]
             /\ clients \in [Replica -> [Key -> Anybody \cup {None}]]
             /\ observers \in [Replica -> [Chat -> SUBSET Listener]]
             /\ known \in [Replica -> SUBSET Chat] /\ handlers \in [Replica -> [Chat -> Nat]]
             /\ cmds \in [Replica -> Seq(Command)] /\ binds \in [Replica -> Seq(Bind)]
             /\ registry \in [Listener -> Replica \cup {None}] /\ errors \in 0..MaxErrors
             /\ history \in HistoryState
BY DEF TypeOK, Anybody, PlaceName, HistoryState

\* The same of the next state.
LEMMA TypesNext ==
  TypeOK' <=> /\ chat' \in [Request -> Chat] /\ home' \in [Anybody -> Replica \cup {None}]
              /\ pc' \in [Anybody -> PlaceName] /\ todo' \in [Hook -> SUBSET Listener]
              /\ clients' \in [Replica -> [Key -> Anybody \cup {None}]]
              /\ observers' \in [Replica -> [Chat -> SUBSET Listener]]
              /\ known' \in [Replica -> SUBSET Chat] /\ handlers' \in [Replica -> [Chat -> Nat]]
              /\ cmds' \in [Replica -> Seq(Command)] /\ binds' \in [Replica -> Seq(Bind)]
              /\ registry' \in [Listener -> Replica \cup {None}] /\ errors' \in 0..MaxErrors
              /\ history' \in HistoryState
BY DEF TypeOK, Anybody, PlaceName, HistoryState

\* Everybody is a request or a listener, and nobody is None.
LEMMA Names ==
  /\ Request \subseteq Anybody /\ Listener \subseteq Anybody /\ Req \subseteq Request /\ Hook \subseteq Request
  /\ Chat \subseteq Key /\ Listener \subseteq Key
  /\ None \notin Anybody /\ None \notin Replica /\ None \notin Request /\ None \notin Hook
  /\ \A l \in Listener : l \notin Request /\ l \notin Chat
  /\ \A r \in Req : r \notin Hook
BY StreamsAssumption DEF Anybody, Request, Key

\* Somebody goes to another place.
LEMMA Went ==
  ASSUME TypeOK, NEW x \in Anybody, NEW place \in PlaceName, GoTo(x, place)
  PROVE  /\ pc' \in [Anybody -> PlaceName] /\ pc'[x] = place
         /\ \A y \in Anybody : y # x => pc'[y] = pc[y]
BY Types DEF GoTo

\* Somebody takes up a replica.
LEMMA Moved ==
  ASSUME TypeOK, NEW x \in Anybody, NEW s \in Replica, home' = [home EXCEPT ![x] = s]
  PROVE  /\ home' \in [Anybody -> Replica \cup {None}] /\ home'[x] = s
         /\ \A y \in Anybody : y # x => home'[y] = home[y]
BY Types

\* One entry of the clients or of the observers of a replica changes.
LEMMA ClientChanged ==
  ASSUME TypeOK, NEW s \in Replica, NEW k \in Key, NEW w \in Anybody \cup {None},
         clients' = [clients EXCEPT ![s][k] = w]
  PROVE  /\ clients' \in [Replica -> [Key -> Anybody \cup {None}]]
         /\ \A t \in Replica, j \in Key :
              clients'[t][j] = IF t = s /\ j = k THEN w ELSE clients[t][j]
BY Types

\* The same of the observers of a chat.
LEMMA ObserversChanged ==
  ASSUME TypeOK, NEW s \in Replica, NEW c \in Chat, NEW o \in SUBSET Listener,
         observers' = [observers EXCEPT ![s][c] = o]
  PROVE  /\ observers' \in [Replica -> [Chat -> SUBSET Listener]]
         /\ \A t \in Replica, d \in Chat :
              observers'[t][d] = IF t = s /\ d = c THEN o ELSE observers[t][d]
BY Types

\* A listener becomes an observer of a chat.
LEMMA ObserverAdded ==
  ASSUME TypeOK, NEW s \in Replica, NEW c \in Chat, NEW l \in Listener, AddObserver(s, c, l)
  PROVE  /\ observers' \in [Replica -> [Chat -> SUBSET Listener]]
         /\ \A t \in Replica, d \in Chat : ~(t = s /\ d = c) => observers'[t][d] = observers[t][d]
<1>1. observers[s][c] \cup {l} \in SUBSET Listener
  BY Types
<1> QED
  BY <1>1, ObserversChanged DEF AddObserver

\* A listener leaves its replica.
LEMMA ListenerLeft ==
  ASSUME TypeOK, NEW s \in Replica, NEW l \in Listener, RemoveListener(s, l)
  PROVE  /\ clients' \in [Replica -> [Key -> Anybody \cup {None}]]
         /\ \A t \in Replica, j \in Key :
              clients'[t][j] = IF t = s /\ j = l THEN None ELSE clients[t][j]
         /\ observers' \in [Replica -> [Chat -> SUBSET Listener]]
         /\ \A t \in Replica, d \in Chat : observers'[t][d] \subseteq observers[t][d]
<1>1. l \in Key /\ clients' = [clients EXCEPT ![s][l] = None]
  BY Names DEF RemoveListener
<1>2. observers' = [observers EXCEPT ![s] = [c \in Chat |-> observers[s][c] \ {l}]]
  BY DEF RemoveListener
<1>3. /\ observers' \in [Replica -> [Chat -> SUBSET Listener]]
      /\ \A t \in Replica, d \in Chat : observers'[t][d] \subseteq observers[t][d]
  BY <1>2, Types
<1> QED
  BY <1>1, <1>3, ClientChanged

\* removeClient of a chat: whoever is registered for it is ended.
LEMMA ChatRemoved ==
  ASSUME TypeOK, NEW s \in Replica, NEW c \in Chat, RemoveChat(s, c)
  PROVE  /\ clients' \in [Replica -> [Key -> Anybody \cup {None}]]
         /\ \A t \in Replica, j \in Key :
              clients'[t][j] = IF t = s /\ j = c THEN None ELSE clients[t][j]
         /\ observers' \in [Replica -> [Chat -> SUBSET Listener]]
         /\ \A t \in Replica, d \in Chat :
              observers'[t][d] = IF t = s /\ d = c THEN {} ELSE observers[t][d]
<1>1. c \in Key /\ clients' = [clients EXCEPT ![s][c] = None]
  BY Names DEF RemoveChat
<1>2. {} \in SUBSET Listener /\ observers' = [observers EXCEPT ![s][c] = {}]
  BY DEF RemoveChat
<1>3. /\ clients' \in [Replica -> [Key -> Anybody \cup {None}]]
      /\ \A t \in Replica, j \in Key :
           clients'[t][j] = IF t = s /\ j = c THEN None ELSE clients[t][j]
  BY <1>1, ClientChanged
<1> QED
  BY <1>2, <1>3, ObserversChanged

\* The client of a chat is ended, and maybe a channel is broken.
LEMMA Ended ==
  ASSUME TypeOK, Registered, NEW s \in Replica, NEW c \in Chat,
         NEW b \in SUBSET (Replica \X Chat),
         history' = [history EXCEPT !.ended = @ \cup EndedBy(s, c), !.broken = @ \cup b]
  PROVE  /\ history' \in HistoryState /\ history'.alone = history.alone
         /\ history'.broken = history.broken \cup b
         /\ \A x \in Request : x \in history'.ended <=> x \in history.ended \/ clients[s][c] = x
<1>1. EndedBy(s, c) \subseteq Request
  BY Names DEF EndedBy, Registered
<1>2. \A x \in Request : x \in EndedBy(s, c) <=> clients[s][c] = x
  BY Names DEF EndedBy
<1> HIDE DEF EndedBy
<1> QED
  BY <1>1, <1>2, Types DEF HistoryState

\* The client of a chat is ended.
LEMMA EndedOnly ==
  ASSUME TypeOK, Registered, NEW s \in Replica, NEW c \in Chat,
         history' = [history EXCEPT !.ended = @ \cup EndedBy(s, c)]
  PROVE  /\ history' \in HistoryState /\ history'.alone = history.alone
         /\ history'.broken = history.broken
         /\ \A x \in Request : x \in history'.ended <=> x \in history.ended \/ clients[s][c] = x
<1>1. EndedBy(s, c) \subseteq Request
  BY Names DEF EndedBy, Registered
<1>2. \A x \in Request : x \in EndedBy(s, c) <=> clients[s][c] = x
  BY Names DEF EndedBy
<1> QED
  BY <1>1, <1>2, Types DEF HistoryState

\* A command is sent.
LEMMA CommandSent ==
  ASSUME TypeOK, NEW s \in Replica, NEW op \in {"sub", "unsub"}, NEW c \in Chat,
         NEW who \in Request \cup {None}, Send(s, op, c, who)
  PROVE  /\ [op |-> op, chat |-> c, who |-> who] \in Command
         /\ cmds' \in [Replica -> Seq(Command)]
         /\ cmds'[s] = Append(cmds[s], [op |-> op, chat |-> c, who |-> who])
         /\ \A t \in Replica : t # s => cmds'[t] = cmds[t]
<1> DEFINE m == [op |-> op, chat |-> c, who |-> who]
<1>1. m \in Command /\ cmds[s] \in Seq(Command)
  BY Types DEF Command
<1>2. cmds' = [cmds EXCEPT ![s] = Append(cmds[s], m)]
  BY DEF Send
<1> HIDE DEF m
<1>3. Append(cmds[s], m) \in Seq(Command)
  BY <1>1, Appended
<1>4. /\ cmds' \in [Replica -> Seq(Command)] /\ cmds'[s] = Append(cmds[s], m)
      /\ \A t \in Replica : t # s => cmds'[t] = cmds[t]
  BY <1>2, <1>3, Types
<1> QED
  BY <1>1, <1>4 DEF m

\* The first command is answered.
LEMMA CommandTaken ==
  ASSUME TypeOK, NEW s \in Replica, cmds[s] # <<>>, cmds' = [cmds EXCEPT ![s] = Tail(@)]
  PROVE  /\ cmds' \in [Replica -> Seq(Command)] /\ cmds'[s] = Tail(cmds[s])
         /\ \A t \in Replica : t # s => cmds'[t] = cmds[t]
<1>1. cmds[s] \in Seq(Command)
  BY Types
<1>2. Tail(cmds[s]) \in Seq(Command)
  BY <1>1, Popped
<1> QED
  BY <1>2, Types

\* The first command, and the place of its sender.
LEMMA HeadFits ==
  ASSUME TypeOK, CommandsFit, NEW s \in Replica, cmds[s] # <<>>
  PROVE  LET m == Head(cmds[s])
         IN  /\ m \in Command /\ m.chat \in Chat /\ m.op \in {"sub", "unsub"}
             /\ m.who \in Request \cup {None} /\ cmds[s] \in Seq(Command)
             /\ m.who # None => /\ m.who \in Request /\ chat[m.who] = m.chat /\ home[m.who] = s
                                /\ pc[m.who] = Sent(m) /\ (m.op = "unsub" => m.who \in Req)
<1>1. cmds[s] \in Seq(Command) /\ Head(cmds[s]) = cmds[s][1] /\ 1 \in 1..Len(cmds[s])
      /\ Head(cmds[s]) \in Command
  <2>1. cmds[s] \in Seq(Command)
    BY Types
  <2> QED
    BY <2>1, Popped
<1> QED
  BY <1>1 DEF CommandsFit, Command

-----------------------------------------------------------------------------
(* What the answer to a command does.                                      *)

\* Who goes where when a command is answered, and whose response is ended.
Goes(m, place) == GoTo(m.who, place) /\ UNCHANGED <<clients, observers, history>>
Ends(s, m) ==
  /\ GoTo(m.who, "done") /\ RemoveChat(s, m.chat)
  /\ history' = [history EXCEPT !.ended = @ \cup EndedBy(s, m.chat)]

\* What the answer to a command does.
LEMMA Answered ==
  ASSUME TypeOK, CommandsFit, NEW s \in Replica, Answer(s)
  PROVE  LET m == Head(cmds[s])
         IN  \/ m.who = None /\ UNCHANGED <<pc, clients, observers, history>>
             \/ m.who \in Req /\ m.op = "unsub" /\ Ends(s, m)
             \/ m.who \in Req /\ m.op = "sub" /\ Goes(m, "running")
             \/ m.who \in Hook /\ m.op = "sub" /\ Goes(m, "binding")
<1> DEFINE m == Head(cmds[s])
<1>1. /\ m.op \in {"sub", "unsub"} /\ m.who \in Request \cup {None}
      /\ m.who # None => (m.op = "unsub" => m.who \in Req)
  BY HeadFits DEF Answer
<1>2. Continue(s, m, Place(m))
  BY DEF Answer
<1> HIDE DEF m
<1>3. CASE m.who = None
  <2>1. Place(m) # "done"
    BY <1>3 DEF Place
  <2> QED
    BY <1>2, <1>3, <2>1 DEF Continue, streamer, m
<1>4. CASE m.who \in Req /\ m.op = "unsub"
  <2>1. m.who # None
    BY <1>4, Names
  <2> QED
    BY <1>2, <1>4, <2>1 DEF Continue, Place, Ends, m
<1>5. CASE m.who \in Request /\ m.op = "sub"
  <2>1. m.who # None /\ (m.who \in Req => m.who \notin Hook)
    BY <1>5, Names
  <2> QED
    BY <1>2, <1>5, <2>1 DEF Continue, Place, Goes, streamer, Request, m
<1> QED
  BY <1>1, <1>3, <1>4, <1>5 DEF m

\* What a refused subscribe does.
LEMMA Refused ==
  ASSUME TypeOK, CommandsFit, NEW s \in Replica, SubscribeFails(s)
  PROVE  LET m == Head(cmds[s])
         IN  \/ /\ m.who = None /\ UNCHANGED <<pc, clients, observers, history>>
                /\ cmds' = [cmds EXCEPT ![s] = Tail(@)]
             \/ /\ m.who \in Req /\ m.chat \in known[s] /\ Goes(m, "unsubscribing")
                /\ cmds' = [cmds EXCEPT ![s] =
                     Append(Tail(@), [op |-> "unsub", chat |-> m.chat, who |-> m.who])]
             \/ /\ m.who \in Req /\ m.chat \notin known[s] /\ Ends(s, m)
                /\ cmds' = [cmds EXCEPT ![s] = Tail(@)]
             \/ /\ m.who \in Hook /\ Goes(m, "binding")
                /\ cmds' = [cmds EXCEPT ![s] = Tail(@)]
<1> DEFINE m == Head(cmds[s])
<1>1. m.who \in Request \cup {None}
  BY HeadFits DEF SubscribeFails
<1>2. CASE m.who = None
  <2>1. m.who \notin Req
    BY <1>2, Names
  <2> QED
    BY <1>2, <2>1 DEF SubscribeFails, Continue, streamer
<1>3. CASE m.who \in Req
  <2>1. m.who # None
    BY <1>3, Names
  <2> QED
    BY <1>3, <2>1 DEF SubscribeFails, Continue, streamer, Goes, Ends
<1>4. CASE m.who \in Hook
  <2>1. m.who # None /\ m.who \notin Req
    BY <1>4, Names
  <2> QED
    BY <1>4, <2>1 DEF SubscribeFails, Continue, streamer, Goes
<1> QED
  BY <1>1, <1>2, <1>3, <1>4 DEF Request

\* What the replies to the commands of a replica have in common.  The sender of the
\* answered command, if there is one, goes to a place other than "new", a call to
\* "binding"; the client of the chat may be removed, and is then ended.
LEMMA Replied ==
  ASSUME TypeOK, Registered, CommandsFit, NEW s \in Replica, Reply(s)
  PROVE  LET m == Head(cmds[s])
             again == [op |-> "unsub", chat |-> m.chat, who |-> m.who]
         IN  /\ cmds[s] # <<>> /\ m.chat \in Chat /\ m.who \in Request \cup {None}
             /\ UNCHANGED <<chat, home, binds, registry>>
             /\ again \in Command /\ again.chat = m.chat
             /\ \/ UNCHANGED <<pc, clients, observers>>
                \/ /\ m.who \in Request
                   /\ \E place \in PlaceName \ {"new"} :
                        GoTo(m.who, place) /\ (m.who \in Hook => place = "binding")
                   /\ UNCHANGED <<clients, observers>> \/ RemoveChat(s, m.chat)
             /\ history' \in HistoryState /\ history'.alone = history.alone
             /\ \A x \in Request : x \in history.ended => x \in history'.ended
             /\ \A x \in Request :
                  x \in history'.ended => x \in history.ended \/ clients[s][m.chat] = x
             /\ \E q \in {Tail(cmds[s]), Append(Tail(cmds[s]), again)} :
                  cmds' = [cmds EXCEPT ![s] = q]
<1> DEFINE m == Head(cmds[s])
           again == [op |-> "unsub", chat |-> m.chat, who |-> m.who]
<1>1. /\ cmds[s] # <<>> /\ UNCHANGED <<chat, home, binds, registry>>
      /\ m.chat \in Chat /\ m.who \in Request \cup {None} /\ cmds[s] \in Seq(Command)
      /\ m.who # None => (m.op = "unsub" => m.who \in Req)
  BY HeadFits DEF Reply, Answer, SubscribeFails, UnsubscribeFails
<1>2. again \in Command /\ again.chat = m.chat
  BY <1>1 DEF Command
<1>3. \E q \in {Tail(cmds[s]), Append(Tail(cmds[s]), again)} : cmds' = [cmds EXCEPT ![s] = q]
  BY Refused DEF Reply, Answer, UnsubscribeFails
<1> DEFINE More(b) ==
      history' = [history EXCEPT !.ended = @ \cup EndedBy(s, m.chat), !.broken = @ \cup b]
<1>4. \/ UNCHANGED <<pc, clients, observers>> /\ history' = history
      \/ /\ UNCHANGED <<pc, clients, observers>>
         /\ history' = [history EXCEPT !.broken = @ \cup {<<s, m.chat>>}]
      \/ m.who \in Request /\ \E place \in {"running", "unsubscribing"} : Goes(m, place) /\ m.who \in Req
      \/ m.who \in Request /\ Goes(m, "binding")
      \/ m.who \in Req /\ Ends(s, m)
      \/ m.who \in Req /\ GoTo(m.who, "done") /\ RemoveChat(s, m.chat) /\ More({<<s, m.chat>>})
  <2>1. CASE Answer(s) \/ SubscribeFails(s)
    BY <2>1, Answered, Refused, Names
  <2>2. CASE UnsubscribeFails(s)
    BY <1>1, <2>2 DEF UnsubscribeFails, streamer
  <2> QED
    BY <2>1, <2>2 DEF Reply
<1> HIDE DEF m, again
<1>5. /\ history' \in HistoryState /\ history'.alone = history.alone
      /\ \A x \in Request : x \in history.ended => x \in history'.ended
      /\ \A x \in Request : x \in history'.ended => x \in history.ended \/ clients[s][m.chat] = x
  <2>1. {<<s, m.chat>>} \in SUBSET (Replica \X Chat)
    BY <1>1
  <2>2. CASE history' = history
    BY <2>2, Types
  <2>3. CASE history' = [history EXCEPT !.broken = @ \cup {<<s, m.chat>>}]
    BY <2>1, <2>3, Types DEF HistoryState
  <2>4. CASE Ends(s, m)
    BY <1>1, <2>4, EndedOnly DEF Ends
  <2>5. CASE More({<<s, m.chat>>})
    BY <1>1, <2>1, <2>5, Ended
  <2> HIDE DEF More
  <2> QED
    BY <1>4, <2>2, <2>3, <2>4, <2>5 DEF Goes
<1>6. \/ UNCHANGED <<pc, clients, observers>>
      \/ /\ m.who \in Request
         /\ \E place \in PlaceName \ {"new"} :
              GoTo(m.who, place) /\ (m.who \in Hook => place = "binding")
         /\ UNCHANGED <<clients, observers>> \/ RemoveChat(s, m.chat)
  <2>1. {"running", "unsubscribing", "binding", "done"} \subseteq PlaceName \ {"new"}
    BY DEF PlaceName
  <2>2. m.who \in Req => m.who \notin Hook /\ m.who \in Request
    BY Names
  <2> QED
    BY <1>4, <2>1, <2>2 DEF Goes, Ends
<1> QED
  BY <1>1, <1>2, <1>3, <1>5, <1>6 DEF m, again

\* Every step keeps the types.
LEMMA TypeNext ==
  ASSUME TypeOK, Homes, Registered, CommandsFit, [Next]_vars
  PROVE  TypeOK'
<1>1. ASSUME NEW s \in Replica, NEW r \in Req, Predict(r, s) PROVE TypeOK'
  <2>1. r \in Anybody /\ r \in Request /\ chat[r] \in Chat /\ chat[r] \in Key
    BY Names, Types
  <2>2. home' \in [Anybody -> Replica \cup {None}]
    BY <1>1, <2>1, Moved DEF Predict
  <2>3. clients' \in [Replica -> [Key -> Anybody \cup {None}]]
    BY <1>1, <2>1, ClientChanged DEF Predict, AddClient
  <2>4. pc' \in [Anybody -> PlaceName] /\ cmds' \in [Replica -> Seq(Command)]
    <3>1. CASE chat[r] \in known[s]
      <4>1. GoTo(r, "running") /\ cmds' = cmds
        BY <1>1, <3>1 DEF Predict
      <4> QED
        BY <2>1, <4>1, Went, Types DEF PlaceName
    <3>2. CASE chat[r] \notin known[s]
      <4>1. GoTo(r, "subscribing") /\ Send(s, "sub", chat[r], r)
        BY <1>1, <3>2 DEF Predict
      <4> QED
        BY <2>1, <4>1, Went, CommandSent DEF PlaceName
    <3> QED
      BY <3>1, <3>2
  <2>5. history' \in HistoryState
    <3>1. \E a \in SUBSET Req : history' = [history EXCEPT !.alone = a]
      BY <1>1, Types DEF Predict, HistoryState
    <3> QED
      BY <3>1, Types DEF HistoryState
  <2> QED
    BY <1>1, <2>2, <2>3, <2>4, <2>5, Types, TypesNext DEF Predict, places, streamer, redis
<1>2. ASSUME NEW r \in Req, Return(r) PROVE TypeOK'
  <2>1. r \in Anybody /\ r \in Request /\ chat[r] \in Chat /\ home[r] \in Replica
    BY <1>2, Names, Types DEF Return, Homes
  <2>2. pc' \in [Anybody -> PlaceName]
    BY <1>2, <2>1, Went DEF Return, PlaceName
  <2>3. cmds' \in [Replica -> Seq(Command)]
    BY <1>2, <2>1, CommandSent DEF Return
  <2> QED
    BY <1>2, <2>2, <2>3, Types, TypesNext DEF Return, places, streamer, redis
<1>3. ASSUME NEW r \in Req, ReturnUnknown(r) PROVE TypeOK'
  <2>1. r \in Anybody /\ r \in Request /\ chat[r] \in Chat /\ home[r] \in Replica
    BY <1>3, Names, Types DEF ReturnUnknown, Homes
  <2>2. pc' \in [Anybody -> PlaceName]
    BY <1>3, <2>1, Went DEF ReturnUnknown, PlaceName
  <2>3. /\ clients' \in [Replica -> [Key -> Anybody \cup {None}]]
        /\ observers' \in [Replica -> [Chat -> SUBSET Listener]]
    BY <1>3, <2>1, ChatRemoved DEF ReturnUnknown
  <2>4. history' \in HistoryState
    BY <1>3, <2>1, EndedOnly DEF ReturnUnknown
  <2> QED
    BY <1>3, <2>2, <2>3, <2>4, Types, TypesNext DEF ReturnUnknown, places, streamer, redis
<1>4. ASSUME NEW s \in Replica, NEW l \in Listener, Open(l, s) PROVE TypeOK'
  <2>1. l \in Anybody /\ l \in Key
    BY Names
  <2>2. pc' \in [Anybody -> PlaceName]
    BY <1>4, <2>1, Went DEF Open, PlaceName
  <2>3. home' \in [Anybody -> Replica \cup {None}]
    BY <1>4, <2>1, Moved DEF Open
  <2>4. clients' \in [Replica -> [Key -> Anybody \cup {None}]]
    BY <1>4, <2>1, ClientChanged DEF Open, AddClient
  <2> QED
    BY <1>4, <2>2, <2>3, <2>4, Types, TypesNext DEF Open, places, streamer, redis
<1>5. ASSUME NEW l \in Listener, Heartbeat(l) PROVE TypeOK'
  <2>1. l \in Anybody
    BY Names
  <2>2. pc' \in [Anybody -> PlaceName]
    BY <1>5, <2>1, Went DEF Heartbeat, PlaceName
  <2>3. registry' \in [Listener -> Replica \cup {None}]
    BY <1>5, <2>1, Types DEF Heartbeat
  <2> QED
    BY <1>5, <2>2, <2>3, Types, TypesNext DEF Heartbeat, places, streamer, redis
<1>6. ASSUME NEW l \in Listener, Close(l) PROVE TypeOK'
  <2>1. l \in Anybody /\ home[l] \in Replica
    BY <1>6, Names, Types DEF Close, Homes
  <2>2. pc' \in [Anybody -> PlaceName]
    BY <1>6, <2>1, Went DEF Close, PlaceName
  <2>3. /\ clients' \in [Replica -> [Key -> Anybody \cup {None}]]
        /\ observers' \in [Replica -> [Chat -> SUBSET Listener]]
    BY <1>6, <2>1, ListenerLeft DEF Close
  <2> QED
    BY <1>6, <2>2, <2>3, Types, TypesNext DEF Close, places, streamer, redis
<1>7. ASSUME NEW l \in Listener, Unregister(l) PROVE TypeOK'
  <2>1. l \in Anybody
    BY Names
  <2>2. pc' \in [Anybody -> PlaceName]
    BY <1>7, <2>1, Went DEF Unregister, PlaceName
  <2>3. registry' \in [Listener -> Replica \cup {None}]
    BY <1>7, <2>1, Types DEF Unregister
  <2> QED
    BY <1>7, <2>2, <2>3, Types, TypesNext DEF Unregister, places, streamer, redis
<1>8. ASSUME NEW s \in Replica, NEW h \in Hook, List(h, s) PROVE TypeOK'
  <2>1. h \in Anybody
    BY Names
  <2>2. pc' \in [Anybody -> PlaceName]
    BY <1>8, <2>1, Went DEF List, PlaceName
  <2>3. home' \in [Anybody -> Replica \cup {None}]
    BY <1>8, <2>1, Moved DEF List
  <2>4. todo' \in [Hook -> SUBSET Listener]
    BY <1>8, Types DEF List
  <2>5. history' \in HistoryState
    BY <1>8, Types DEF List, HistoryState
  <2> QED
    BY <1>8, <2>2, <2>3, <2>4, <2>5, Types, TypesNext DEF List, places, streamer, redis
<1>9. ASSUME NEW h \in Hook, NEW l \in Listener, BindHere(h, l) PROVE TypeOK'
  <2>1. h \in Anybody /\ h \in Request /\ chat[h] \in Chat /\ home[h] \in Replica
    BY <1>9, Names, Types DEF BindHere, Homes
  <2>2. pc' \in [Anybody -> PlaceName] /\ cmds' \in [Replica -> Seq(Command)]
    <3>1. CASE chat[h] \in known[home[h]]
      BY <1>9, <3>1, Types DEF BindHere
    <3>2. CASE chat[h] \notin known[home[h]]
      <4>1. GoTo(h, "attaching") /\ Send(home[h], "sub", chat[h], h)
        BY <1>9, <3>2 DEF BindHere
      <4> QED
        BY <2>1, <4>1, Went, CommandSent DEF PlaceName
    <3> QED
      BY <3>1, <3>2
  <2>3. observers' \in [Replica -> [Chat -> SUBSET Listener]]
    BY <1>9, <2>1, ObserverAdded DEF BindHere
  <2>4. todo' \in [Hook -> SUBSET Listener]
    BY <1>9, Types DEF BindHere
  <2> QED
    BY <1>9, <2>2, <2>3, <2>4, Types, TypesNext DEF BindHere, places, streamer, redis
<1>10. ASSUME NEW h \in Hook, NEW l \in Listener, BindThere(h, l) PROVE TypeOK'
  <2>1. chat[h] \in Chat
    BY Names, Types
  <2>2. todo' \in [Hook -> SUBSET Listener]
    BY <1>10, Types DEF BindThere
  <2>3. binds' \in [Replica -> Seq(Bind)]
    <3>1. [chat |-> chat[h], listener |-> l] \in Bind
      BY <2>1 DEF Bind
    <3>2. \A t \in Replica : Append(binds[t], [chat |-> chat[h], listener |-> l]) \in Seq(Bind)
      BY <3>1, Types, Appended
    <3> QED
      BY <1>10, <3>2, Types DEF BindThere
  <2> QED
    BY <1>10, <2>2, <2>3, Types, TypesNext DEF BindThere, places, streamer, redis
<1>11. ASSUME NEW s \in Replica, Bound(s) PROVE TypeOK'
  <2> DEFINE b == Head(binds[s])
  <2>1. b \in Bind /\ binds' \in [Replica -> Seq(Bind)]
    <3>1. binds[s] \in Seq(Bind) /\ binds[s] # <<>> /\ binds' = [binds EXCEPT ![s] = Tail(binds[s])]
      BY <1>11, Types DEF Bound
    <3> HIDE DEF b
    <3>2. Tail(binds[s]) \in Seq(Bind) /\ Head(binds[s]) \in Bind
      BY <3>1, Popped
    <3> QED
      BY <3>1, <3>2, Types DEF b
  <2>2. observers' \in [Replica -> [Chat -> SUBSET Listener]]
    <3>1. b.chat \in Chat /\ b.listener \in Listener
      BY <2>1 DEF Bind
    <3>2. observers' = observers \/ AddObserver(s, b.chat, b.listener)
      BY <1>11 DEF Bound
    <3> QED
      BY <3>1, <3>2, ObserverAdded, Types
  <2>3. cmds' \in [Replica -> Seq(Command)]
    <3>1. b.chat \in Chat
      BY <2>1 DEF Bind
    <3>2. cmds' = cmds \/ Send(s, "sub", b.chat, None)
      BY <1>11 DEF Bound
    <3> QED
      BY <3>1, <3>2, CommandSent, Types
  <2> QED
    BY <1>11, <2>1, <2>2, <2>3, Types, TypesNext DEF Bound, places, streamer, redis
<1>12. ASSUME NEW h \in Hook, Begin(h) PROVE TypeOK'
  <2>1. h \in Anybody /\ h \in Request /\ chat[h] \in Key /\ home[h] \in Replica
    BY <1>12, Names, Types DEF Begin, Homes
  <2>2. pc' \in [Anybody -> PlaceName]
    BY <1>12, <2>1, Went DEF Begin, PlaceName
  <2>3. clients' \in [Replica -> [Key -> Anybody \cup {None}]]
    <3>1. clients' = clients \/ AddClient(home[h], chat[h], h)
      BY <1>12 DEF Begin
    <3> QED
      BY <2>1, <3>1, ClientChanged, Types DEF AddClient
  <2> QED
    BY <1>12, <2>2, <2>3, Types, TypesNext DEF Begin, places, streamer, redis
<1>13. ASSUME NEW h \in Hook, Finish(h) PROVE TypeOK'
  <2>1. h \in Anybody /\ h \in Request /\ chat[h] \in Chat /\ home[h] \in Replica
    BY <1>13, Names, Types DEF Finish, Homes
  <2>2. pc' \in [Anybody -> PlaceName]
    BY <1>13, <2>1, Went DEF Finish, PlaceName
  <2>3. /\ clients' \in [Replica -> [Key -> Anybody \cup {None}]]
        /\ observers' \in [Replica -> [Chat -> SUBSET Listener]]
    BY <1>13, <2>1, ChatRemoved DEF Finish
  <2>4. history' \in HistoryState
    BY <1>13, <2>1, EndedOnly DEF Finish
  <2> QED
    BY <1>13, <2>2, <2>3, <2>4, Types, TypesNext DEF Finish, places, streamer, redis
<1>14. ASSUME NEW s \in Replica, Reply(s) PROVE TypeOK'
  <2> DEFINE m == Head(cmds[s])
             again == [op |-> "unsub", chat |-> m.chat, who |-> m.who]
  <2>1. /\ m.chat \in Chat /\ cmds[s] # <<>> /\ again \in Command
        /\ \/ UNCHANGED <<pc, clients, observers>>
           \/ /\ m.who \in Request /\ \E place \in PlaceName : GoTo(m.who, place)
              /\ UNCHANGED <<clients, observers>> \/ RemoveChat(s, m.chat)
        /\ UNCHANGED <<chat, home, binds, registry>> /\ history' \in HistoryState
        /\ \E q \in {Tail(cmds[s]), Append(Tail(cmds[s]), again)} :
             cmds' = [cmds EXCEPT ![s] = q]
    BY <1>14, Replied
  <2>2. cmds' \in [Replica -> Seq(Command)]
    <3>1. cmds[s] \in Seq(Command)
      BY Types
    <3>2. Tail(cmds[s]) \in Seq(Command)
      BY <2>1, <3>1, Popped
    <3> HIDE DEF m, again
    <3>3. Append(Tail(cmds[s]), again) \in Seq(Command)
      BY <2>1, <3>2, Appended
    <3> QED
      BY <2>1, <3>2, <3>3, Types
  <2>3. known' \in [Replica -> SUBSET Chat]
    <3>1. \E k \in SUBSET Chat : known' = [known EXCEPT ![s] = k]
      <4>1. Known(s, m) \in SUBSET Chat /\ known[s] \ {m.chat} \in SUBSET Chat
            /\ known = [known EXCEPT ![s] = known[s]] /\ known[s] \in SUBSET Chat
        BY <2>1, Types DEF Known
      <4>2. \/ known' = [known EXCEPT ![s] = Known(s, m)]
            \/ known' = [known EXCEPT ![s] = known[s] \ {m.chat}]
            \/ known' = known
        BY <1>14 DEF Reply, Answer, SubscribeFails, UnsubscribeFails
      <4> HIDE DEF m
      <4> QED
        BY <4>1, <4>2
    <3> QED
      BY <3>1, Types
  <2>4. handlers' \in [Replica -> [Chat -> Nat]]
    <3>1. Attached(s, m) \in Nat
      BY <2>1, Types DEF Attached
    <3>2. handlers' = handlers \/ handlers' = [handlers EXCEPT ![s][m.chat] = Attached(s, m)]
      BY <1>14 DEF Reply, Answer, SubscribeFails, UnsubscribeFails
    <3>3. CASE handlers' = handlers
      BY <3>3, Types
    <3>4. CASE handlers' = [handlers EXCEPT ![s][m.chat] = Attached(s, m)]
      <4> HIDE DEF m
      <4> QED
        BY <2>1, <3>1, <3>4, Types
    <3> QED
      BY <3>2, <3>3, <3>4
  <2>5. todo' \in [Hook -> SUBSET Listener] /\ errors' \in 0..MaxErrors
    <3>1. todo' = todo \/ todo' = [todo EXCEPT ![m.who] = {}]
      BY <1>14 DEF Reply, Answer, SubscribeFails, UnsubscribeFails
    <3>2. errors' = errors \/ (errors' = errors + 1 /\ errors < MaxErrors)
      BY <1>14 DEF Reply, Answer, SubscribeFails, UnsubscribeFails
    <3> HIDE DEF m
    <3>3. todo' \in [Hook -> SUBSET Listener]
      BY <3>1, Types
    <3>4. errors' \in 0..MaxErrors
      BY <3>2, Types, StreamsAssumption
    <3> QED
      BY <3>3, <3>4
  <2> HIDE DEF m, again
  <2>6. pc' \in [Anybody -> PlaceName]
    BY <2>1, Names, Types, Went
  <2>7. /\ clients' \in [Replica -> [Key -> Anybody \cup {None}]]
        /\ observers' \in [Replica -> [Chat -> SUBSET Listener]]
    BY <2>1, Types, ChatRemoved
  <2> QED
    BY <2>1, <2>2, <2>3, <2>4, <2>5, <2>6, <2>7, Types, TypesNext
<1>15. ASSUME NEW s \in Replica, NEW c \in Chat, Event(s, c) PROVE TypeOK'
  <2>1. observers' \in [Replica -> [Chat -> SUBSET Listener]]
    BY <1>15, Types DEF Event
  <2> QED
    BY <1>15, <2>1, Types, TypesNext DEF Event, places, streamer, redis
<1>16. ASSUME NEW s \in Replica, NEW c \in Chat, Cleanup(s, c) PROVE TypeOK'
  <2>1. cmds' \in [Replica -> Seq(Command)]
    BY <1>16, CommandSent DEF Cleanup
  <2> QED
    BY <1>16, <2>1, Types, TypesNext DEF Cleanup, places, streamer, redis
<1>17. CASE UNCHANGED vars
  BY <1>17, Types, TypesNext DEF vars, places, streamer, redis
<1>18. ASSUME NEW h \in Hook, Reject(h) PROVE TypeOK'
  <2>1. h \in Anybody
    BY Names
  <2>2. pc' \in [Anybody -> PlaceName]
    BY <1>18, <2>1, Went DEF Reject, PlaceName
  <2> QED
    BY <1>18, <2>2, Types, TypesNext DEF Reject, places, streamer, redis
<1> QED
  BY <1>1, <1>2, <1>3, <1>4, <1>5, <1>6, <1>7, <1>8, <1>9, <1>10, <1>11, <1>12, <1>13,
     <1>14, <1>15, <1>16, <1>17, <1>18 DEF Next, StepOf, Call

-----------------------------------------------------------------------------
(* Replicas and registered responses.                                      *)

\* Nobody changes its chat, and who began stays on its replica.
Kept ==
  /\ chat' = chat
  /\ \A x \in Anybody : pc[x] # "new" => pc'[x] # "new" /\ home'[x] = home[x]

\* Nobody moves.
LEMMA Idle ==
  ASSUME Homes, UNCHANGED <<chat, pc, home>>
  PROVE  Homes' /\ Kept
BY DEF Homes, Kept

\* Who began goes on.
LEMMA GoesOn ==
  ASSUME TypeOK, Homes, NEW x \in Anybody, pc[x] # "new", NEW place \in PlaceName \ {"new"},
         GoTo(x, place), UNCHANGED <<chat, home>>
  PROVE  Homes' /\ Kept
BY Went DEF Homes, Kept, Anybody

\* Who begins takes up a replica.
LEMMA Begins ==
  ASSUME TypeOK, Homes, NEW x \in Anybody, pc[x] = "new", NEW place \in PlaceName \ {"new"},
         GoTo(x, place), NEW s \in Replica, home' = [home EXCEPT ![x] = s], chat' = chat
  PROVE  Homes' /\ Kept
<1>1. s # None
  BY StreamsAssumption
<1>2. pc'[x] # "new" /\ home'[x] # None
  BY <1>1, Went, Moved
<1>3. \A y \in Anybody : y # x => pc'[y] = pc[y] /\ home'[y] = home[y]
  BY Went, Moved
<1> QED
  BY <1>2, <1>3 DEF Homes, Kept, Anybody

\* Every step leaves those who began, and only them, with a replica.
LEMMA HomesNext ==
  ASSUME TypeOK, Homes, Registered, CommandsFit, [Next]_vars
  PROVE  Homes' /\ Kept
<1>1. ASSUME NEW s \in Replica, NEW r \in Req, Predict(r, s) PROVE Homes' /\ Kept
  <2>1. r \in Anybody /\ {"running", "subscribing"} \subseteq PlaceName \ {"new"}
    BY Names DEF PlaceName
  <2>2. \E place \in {"running", "subscribing"} : GoTo(r, place)
    BY <1>1 DEF Predict
  <2> QED
    BY <1>1, <2>1, <2>2, Begins DEF Predict
<1>2. ASSUME NEW r \in Req, Return(r) PROVE Homes' /\ Kept
  <2>1. r \in Anybody /\ "unsubscribing" \in PlaceName \ {"new"}
    BY Names DEF PlaceName
  <2> QED
    BY <1>2, <2>1, GoesOn DEF Return
<1>3. ASSUME NEW r \in Req, ReturnUnknown(r) PROVE Homes' /\ Kept
  <2>1. r \in Anybody /\ "done" \in PlaceName \ {"new"}
    BY Names DEF PlaceName
  <2> QED
    BY <1>3, <2>1, GoesOn DEF ReturnUnknown
<1>4. ASSUME NEW s \in Replica, NEW l \in Listener, Open(l, s) PROVE Homes' /\ Kept
  <2>1. l \in Anybody /\ "opened" \in PlaceName \ {"new"}
    BY Names DEF PlaceName
  <2> QED
    BY <1>4, <2>1, Begins DEF Open
<1>5. ASSUME NEW l \in Listener, Heartbeat(l) PROVE Homes' /\ Kept
  <2>1. l \in Anybody /\ "listening" \in PlaceName \ {"new"}
    BY Names DEF PlaceName
  <2> QED
    BY <1>5, <2>1, GoesOn DEF Heartbeat
<1>6. ASSUME NEW l \in Listener, Close(l) PROVE Homes' /\ Kept
  <2>1. l \in Anybody /\ "closed" \in PlaceName \ {"new"}
    BY Names DEF PlaceName
  <2> QED
    BY <1>6, <2>1, GoesOn DEF Close
<1>7. ASSUME NEW l \in Listener, Unregister(l) PROVE Homes' /\ Kept
  <2>1. l \in Anybody /\ "done" \in PlaceName \ {"new"}
    BY Names DEF PlaceName
  <2> QED
    BY <1>7, <2>1, GoesOn DEF Unregister
<1>8. ASSUME NEW s \in Replica, NEW h \in Hook, List(h, s) PROVE Homes' /\ Kept
  <2>1. h \in Anybody /\ "binding" \in PlaceName \ {"new"}
    BY Names DEF PlaceName
  <2> QED
    BY <1>8, <2>1, Begins DEF List
<1>9. ASSUME NEW h \in Hook, NEW l \in Listener, BindHere(h, l) PROVE Homes' /\ Kept
  <2>1. h \in Anybody /\ "attaching" \in PlaceName \ {"new"}
    BY Names DEF PlaceName
  <2>2. pc' = pc \/ GoTo(h, "attaching")
    BY <1>9 DEF BindHere
  <2> QED
    BY <1>9, <2>1, <2>2, GoesOn, Idle DEF BindHere
<1>10. ASSUME NEW h \in Hook, NEW l \in Listener, BindThere(h, l) PROVE Homes' /\ Kept
  BY <1>10, Idle DEF BindThere, places
<1>11. ASSUME NEW s \in Replica, Bound(s) PROVE Homes' /\ Kept
  BY <1>11, Idle DEF Bound, places
<1>12. ASSUME NEW h \in Hook, Begin(h) PROVE Homes' /\ Kept
  <2>1. h \in Anybody /\ "running" \in PlaceName \ {"new"}
    BY Names DEF PlaceName
  <2> QED
    BY <1>12, <2>1, GoesOn DEF Begin
<1>13. ASSUME NEW h \in Hook, Finish(h) PROVE Homes' /\ Kept
  <2>1. h \in Anybody /\ "done" \in PlaceName \ {"new"}
    BY Names DEF PlaceName
  <2> QED
    BY <1>13, <2>1, GoesOn DEF Finish
<1>14. ASSUME NEW s \in Replica, Reply(s) PROVE Homes' /\ Kept
  <2> DEFINE m == Head(cmds[s])
  <2>1. m.who # None => m.who \in Anybody /\ pc[m.who] # "new"
    BY <1>14, HeadFits, Names DEF Reply, Answer, SubscribeFails, UnsubscribeFails, Sent
  <2>2. /\ UNCHANGED <<chat, home>>
        /\ \/ pc' = pc
           \/ m.who # None /\ \E place \in PlaceName \ {"new"} : GoTo(m.who, place)
    BY <1>14, Replied, Names
  <2> HIDE DEF m
  <2> QED
    BY <2>1, <2>2, GoesOn, Idle
<1>15. ASSUME NEW s \in Replica, NEW c \in Chat, Event(s, c) PROVE Homes' /\ Kept
  BY <1>15, Idle DEF Event, places
<1>16. ASSUME NEW s \in Replica, NEW c \in Chat, Cleanup(s, c) PROVE Homes' /\ Kept
  BY <1>16, Idle DEF Cleanup, places
<1>17. CASE UNCHANGED vars
  BY <1>17, Idle DEF vars, places
<1>18. ASSUME NEW h \in Hook, Reject(h) PROVE Homes' /\ Kept
  <2>1. h \in Anybody /\ "rejected" \in PlaceName \ {"new"}
    BY Names DEF PlaceName
  <2> QED
    BY <1>18, <2>1, GoesOn DEF Reject
<1> QED
  BY <1>1, <1>2, <1>3, <1>4, <1>5, <1>6, <1>7, <1>8, <1>9, <1>10, <1>11, <1>12, <1>13,
     <1>14, <1>15, <1>16, <1>17, <1>18 DEF Next, StepOf, Call

\* Responses stay, go, or are registered by their owners.
LEMMA StillRegistered ==
  ASSUME TypeOK, Homes, Registered, Kept,
         \A s \in Replica, k \in Key :
           \/ clients'[s][k] \in {clients[s][k], None}
           \/ clients'[s][k] \in Listener /\ k \in Listener
           \/ /\ clients'[s][k] \in Request
              /\ k = chat[clients'[s][k]] /\ home'[clients'[s][k]] = s,
         \A x \in history'.ended : x \in Request /\ (x \in history.ended \/ pc'[x] # "new")
  PROVE  Registered'
<1>1. ASSUME NEW s \in Replica, NEW k \in Key, NEW x \in Request, clients'[s][k] = x
      PROVE  k = chat'[x] /\ home'[x] = s
  <2>1. x # None /\ x \notin Listener /\ x \in Anybody /\ s # None
    BY Names
  <2>2. CASE clients[s][k] = x
    <3>1. k = chat[x] /\ home[x] = s
      BY <2>2 DEF Registered
    <3>2. pc[x] # "new"
      BY <2>1, <3>1 DEF Homes, Anybody
    <3> QED
      BY <2>1, <3>1, <3>2 DEF Kept
  <2> QED
    BY <1>1, <2>1, <2>2 DEF Kept
<1>2. ASSUME NEW s \in Replica, NEW c \in Chat PROVE clients'[s][c] \in Request \cup {None}
  <2>1. c \in Key /\ c \notin Listener
    BY Names
  <2>2. clients[s][c] \in Request \cup {None}
    BY DEF Registered
  <2> QED
    BY <2>1, <2>2
<1>3. ASSUME NEW x \in history'.ended PROVE pc'[x] # "new"
  BY Names DEF Registered, Kept
<1> QED
  BY <1>1, <1>2, <1>3 DEF Registered

\* Every step registers responses under their own chats.
LEMMA RegisteredNext ==
  ASSUME TypeOK, Homes, Registered, CommandsFit, [Next]_vars
  PROVE  Registered'
<1>1. Kept
  BY HomesNext
<1>2. history.ended \subseteq Request
  BY Types DEF HistoryState
\* A response is registered, a listener opens or closes, a chat is removed, or none of these.
<1>3. ASSUME NEW x \in Request, NEW s \in Replica, home'[x] = s, AddClient(s, chat[x], x),
             history'.ended = history.ended
      PROVE  Registered'
  <2>1. chat[x] \in Key /\ x \in Anybody
    BY Names, Types
  <2>2. \A t \in Replica, k \in Key :
          clients'[t][k] = IF t = s /\ k = chat[x] THEN x ELSE clients[t][k]
    BY <1>3, <2>1, ClientChanged DEF AddClient
  <2> QED
    BY <1>1, <1>2, <1>3, <2>2, StillRegistered
<1>4. ASSUME NEW l \in Listener, NEW s \in Replica, AddClient(s, l, l) \/ RemoveListener(s, l),
             history'.ended = history.ended
      PROVE  Registered'
  <2>1. l \in Key /\ l \in Anybody
    BY Names
  <2>2. \E w \in {l, None} : \A t \in Replica, k \in Key :
          clients'[t][k] = IF t = s /\ k = l THEN w ELSE clients[t][k]
    BY <1>4, <2>1, ClientChanged, ListenerLeft DEF AddClient
  <2> QED
    BY <1>1, <1>2, <1>4, <2>2, StillRegistered
<1>5. ASSUME NEW s \in Replica, NEW c \in Chat, clients' = clients \/ RemoveChat(s, c),
             history' \in HistoryState,
             \A x \in Request : x \in history'.ended => x \in history.ended \/ clients[s][c] = x
      PROVE  Registered'
  <2>1. \A t \in Replica, k \in Key : clients'[t][k] \in {clients[t][k], None}
    BY <1>5, ChatRemoved
  <2>2. \A x \in history'.ended : x \in Request /\ (x \in history.ended \/ pc'[x] # "new")
    <3>1. history'.ended \subseteq Request
      BY <1>5 DEF HistoryState
    <3>2. \A x \in Request : clients[s][c] = x => x \in Anybody /\ pc[x] # "new"
      BY <1>5, Names DEF Registered, Homes
    <3> QED
      BY <1>1, <1>5, <3>1, <3>2 DEF Kept
  <2> QED
    BY <1>1, <2>1, <2>2, StillRegistered
<1>6. ASSUME clients' = clients, history'.ended = history.ended PROVE Registered'
  BY <1>1, <1>2, <1>6, StillRegistered
<1>7. ASSUME NEW s \in Replica, NEW r \in Req, Predict(r, s) PROVE Registered'
  <2>1. r \in Request /\ r \in Anybody
    BY Names
  <2>2. home'[r] = s
    BY <1>7, <2>1, Moved DEF Predict
  <2>3. AddClient(s, chat[r], r) /\ history'.ended = history.ended
    BY <1>7, Types DEF Predict, HistoryState
  <2> QED
    BY <1>3, <2>1, <2>2, <2>3
<1>8. ASSUME NEW x \in Request, ReturnUnknown(x) \/ Finish(x) PROVE Registered'
  <2>1. chat[x] \in Chat /\ home[x] \in Replica
    BY <1>8, Names, Types DEF ReturnUnknown, Finish, Homes
  <2>2. /\ RemoveChat(home[x], chat[x])
        /\ history' = [history EXCEPT !.ended = @ \cup EndedBy(home[x], chat[x])]
    BY <1>8 DEF ReturnUnknown, Finish
  <2> QED
    BY <1>5, <2>1, <2>2, EndedOnly
<1>9. ASSUME NEW s \in Replica, NEW l \in Listener, Open(l, s) PROVE Registered'
  BY <1>4, <1>9 DEF Open
<1>10. ASSUME NEW l \in Listener, Close(l) PROVE Registered'
  <2>1. home[l] \in Replica
    BY <1>10, Names, Types DEF Close, Homes
  <2> QED
    BY <1>4, <1>10, <2>1 DEF Close
<1>11. ASSUME NEW h \in Hook, Begin(h) PROVE Registered'
  <2>1. h \in Request /\ home[h] \in Replica
    BY <1>11, Names, Types DEF Begin, Homes
  <2>2. home'[h] = home[h] /\ history' = history
    BY <1>11 DEF Begin
  <2>3. clients' = clients \/ AddClient(home[h], chat[h], h)
    BY <1>11 DEF Begin
  <2> QED
    BY <1>3, <1>6, <2>1, <2>2, <2>3
<1>12. ASSUME NEW s \in Replica, Reply(s) PROVE Registered'
  <2> DEFINE c == Head(cmds[s]).chat
  <2>1. /\ c \in Chat /\ history' \in HistoryState
        /\ clients' = clients \/ RemoveChat(s, c)
        /\ \A x \in Request : x \in history'.ended => x \in history.ended \/ clients[s][c] = x
    BY <1>12, Replied
  <2> HIDE DEF c
  <2> QED
    BY <1>5, <2>1
<1>13. ASSUME \/ \E h \in Hook, s \in Replica : List(h, s)
              \/ \E h \in Hook : Reject(h) \/ \E l \in Listener : BindHere(h, l) \/ BindThere(h, l)
              \/ \E s \in Replica : Bound(s) \/ \E c \in Chat : Event(s, c) \/ Cleanup(s, c)
              \/ \E l \in Listener : Heartbeat(l) \/ Unregister(l)
              \/ \E r \in Req : Return(r)
              \/ UNCHANGED vars
       PROVE  Registered'
  <2>1. clients' = clients
    BY <1>13 DEF List, Reject, BindHere, BindThere, Bound, Event, Cleanup, Heartbeat, Unregister, Return,
                 vars, streamer
  <2>2. history'.ended = history.ended
    BY <1>13, Types DEF List, Reject, BindHere, BindThere, Bound, Event, Cleanup, Heartbeat,
                        Unregister, Return, vars, HistoryState
  <2> QED
    BY <1>6, <2>1, <2>2
<1> QED
  BY <1>7, <1>8, <1>9, <1>10, <1>11, <1>12, <1>13, Names DEF Next, StepOf, Call

-----------------------------------------------------------------------------
(* Commands and their senders.                                             *)

Waits(x) == pc[x] \in {"subscribing", "unsubscribing", "attaching"}

\* Senders wait on.
LEMMA NoCommand ==
  ASSUME TypeOK, CommandsFit, UNCHANGED <<cmds, chat>>,
         \A x \in Request : Waits(x) => pc'[x] = pc[x] /\ home'[x] = home[x]
  PROVE  CommandsFit'
<1> SUFFICES ASSUME NEW s \in Replica, NEW i \in 1..Len(cmds[s]), cmds[s][i].who # None
             PROVE  LET m == cmds[s][i]
                    IN  /\ chat[m.who] = m.chat /\ home'[m.who] = s /\ pc'[m.who] = Sent(m)
                        /\ m.op = "unsub" => m.who \in Req
                        /\ \A j \in 1..Len(cmds[s]) : cmds[s][j].who = m.who => j = i
  BY DEF CommandsFit, Sent
<1>1. cmds[s][i].who \in Request
  <2>1. cmds[s] \in Seq(Command)
    BY Types
  <2>2. cmds[s][i] \in Command
    BY <2>1
  <2> QED
    BY <2>2 DEF Command
<1>2. Waits(cmds[s][i].who)
  BY DEF CommandsFit, Sent, Waits
<1> QED
  BY <1>1, <1>2 DEF CommandsFit

\* A command is sent by nobody, or by somebody who waits for it from now on.
LEMMA OneCommand ==
  ASSUME TypeOK, CommandsFit, NEW s \in Replica, NEW m \in Command, chat' = chat,
         cmds'[s] = Append(cmds[s], m), \A t \in Replica : t # s => cmds'[t] = cmds[t],
         \A x \in Request : Waits(x) => pc'[x] = pc[x] /\ home'[x] = home[x],
         m.who # None => /\ chat[m.who] = m.chat /\ home'[m.who] = s /\ pc'[m.who] = Sent(m)
                         /\ m.op = "unsub" => m.who \in Req
                         /\ ~Waits(m.who)
  PROVE  CommandsFit'
<1>1. \A t \in Replica : cmds[t] \in Seq(Command)
  BY Types
<1>2. /\ Len(cmds'[s]) = Len(cmds[s]) + 1 /\ Len(cmds[s]) \in Nat
      /\ \A i \in 1..Len(cmds[s]) : cmds'[s][i] = cmds[s][i]
      /\ cmds'[s][Len(cmds[s]) + 1] = m
  BY <1>1, Appended
<1>3. ASSUME NEW t \in Replica, NEW i \in 1..Len(cmds[t]), cmds[t][i].who # None
      PROVE  /\ chat[cmds[t][i].who] = cmds[t][i].chat
             /\ home'[cmds[t][i].who] = t /\ pc'[cmds[t][i].who] = Sent(cmds[t][i])
             /\ cmds[t][i].op = "unsub" => cmds[t][i].who \in Req
             /\ cmds[t][i].who # m.who
             /\ \A j \in 1..Len(cmds[t]) : cmds[t][j].who = cmds[t][i].who => j = i
  <2>1. cmds[t][i].who \in Request
    <3>1. cmds[t][i] \in Command
      BY <1>1
    <3> QED
      BY <1>3, <3>1 DEF Command
  <2>2. Waits(cmds[t][i].who)
    BY <1>3 DEF CommandsFit, Sent, Waits
  <2> QED
    BY <1>3, <2>1, <2>2 DEF CommandsFit
<1> SUFFICES ASSUME NEW t \in Replica, NEW i \in 1..Len(cmds'[t]), cmds'[t][i].who # None
             PROVE  LET n == cmds'[t][i]
                    IN  /\ chat[n.who] = n.chat /\ home'[n.who] = t /\ pc'[n.who] = Sent(n)
                        /\ n.op = "unsub" => n.who \in Req
                        /\ \A j \in 1..Len(cmds'[t]) : cmds'[t][j].who = n.who => j = i
  BY DEF CommandsFit, Sent
<1>4. CASE t # s
  BY <1>3, <1>4
<1>5. CASE t = s /\ i # Len(cmds[s]) + 1
  <2>1. i \in 1..Len(cmds[s]) /\ cmds'[s][i] = cmds[s][i]
    BY <1>2, <1>5
  <2>2. \A j \in 1..Len(cmds'[s]) : j \in 1..Len(cmds[s]) \/ j = Len(cmds[s]) + 1
    BY <1>2
  <2> DEFINE n == cmds[s][i]
  <2>3. /\ chat[n.who] = n.chat /\ home'[n.who] = s /\ pc'[n.who] = Sent(n)
        /\ n.op = "unsub" => n.who \in Req
        /\ n.who # m.who
        /\ \A j \in 1..Len(cmds[s]) : cmds[s][j].who = n.who => j = i
    BY <1>3, <1>5, <2>1
  <2> HIDE DEF n
  <2>4. \A j \in 1..Len(cmds'[s]) : cmds'[s][j].who = n.who => j = i
    <3> SUFFICES ASSUME NEW j \in 1..Len(cmds'[s]), cmds'[s][j].who = n.who PROVE j = i
      OBVIOUS
    <3>1. j \in 1..Len(cmds[s])
      BY <1>2, <2>2, <2>3
    <3> QED
      BY <1>2, <2>3, <3>1
  <2> QED
    BY <1>5, <2>1, <2>3, <2>4 DEF n
<1>6. CASE t = s /\ i = Len(cmds[s]) + 1
  <2>1. \A j \in 1..Len(cmds'[s]) : j # i => j \in 1..Len(cmds[s])
    BY <1>2, <1>6
  <2>2. m.who # None /\ cmds'[s][i] = m
    BY <1>2, <1>6
  <2>3. \A j \in 1..Len(cmds[s]) : cmds[s][j].who # m.who
    BY <1>3, <2>2
  <2> QED
    BY <1>2, <1>6, <2>1, <2>2, <2>3
<1> QED
  BY <1>4, <1>5, <1>6

\* A command is answered, and its sender goes on.
LEMMA CommandDone ==
  ASSUME TypeOK, CommandsFit, NEW s \in Replica, cmds[s] # <<>>, UNCHANGED <<chat, home>>,
         cmds'[s] = Tail(cmds[s]), \A t \in Replica : t # s => cmds'[t] = cmds[t],
         \A x \in Anybody : x # Head(cmds[s]).who => pc'[x] = pc[x]
  PROVE  CommandsFit' /\ \A t \in Replica : \A i \in 1..Len(cmds'[t]) :
                           cmds'[t][i].who # None => cmds'[t][i].who # Head(cmds[s]).who
<1>1. \A t \in Replica : cmds[t] \in Seq(Command)
  BY Types
<1>2. /\ Len(cmds'[s]) = Len(cmds[s]) - 1 /\ Len(cmds[s]) \in Nat \ {0}
      /\ \A i \in 1..(Len(cmds[s]) - 1) : cmds'[s][i] = cmds[s][i + 1]
      /\ Head(cmds[s]) = cmds[s][1]
  BY <1>1, Popped
<1>3. ASSUME NEW t \in Replica, NEW i \in 1..Len(cmds[t]), cmds[t][i].who # None,
             t = s => i # 1
      PROVE  /\ chat[cmds[t][i].who] = cmds[t][i].chat
             /\ home[cmds[t][i].who] = t /\ pc'[cmds[t][i].who] = Sent(cmds[t][i])
             /\ cmds[t][i].op = "unsub" => cmds[t][i].who \in Req
             /\ \A j \in 1..Len(cmds[t]) : cmds[t][j].who = cmds[t][i].who => j = i
             /\ cmds[t][i].who # Head(cmds[s]).who
  <2>1. cmds[t][i].who \in Anybody
    <3>1. cmds[t][i] \in Command
      BY <1>1
    <3> QED
      BY <1>3, <3>1, Names DEF Command
  <2>2. /\ chat[cmds[t][i].who] = cmds[t][i].chat
        /\ home[cmds[t][i].who] = t /\ pc[cmds[t][i].who] = Sent(cmds[t][i])
        /\ cmds[t][i].op = "unsub" => cmds[t][i].who \in Req
        /\ \A j \in 1..Len(cmds[t]) : cmds[t][j].who = cmds[t][i].who => j = i
    BY <1>3 DEF CommandsFit
  <2>3. cmds[t][i].who # Head(cmds[s]).who
    <3>1. 1 \in 1..Len(cmds[s])
      BY <1>2
    <3>2. CASE t = s
      BY <1>2, <1>3, <2>2, <3>1, <3>2
    <3>3. CASE t # s
      <4>1. cmds[s][1].who # None => home[cmds[s][1].who] = s
        BY <3>1 DEF CommandsFit
      <4> QED
        BY <1>2, <1>3, <2>2, <3>3, <4>1
    <3> QED
      BY <3>2, <3>3
  <2> QED
    BY <2>1, <2>2, <2>3
<1>4. ASSUME NEW t \in Replica, NEW i \in 1..Len(cmds'[t]), cmds'[t][i].who # None
      PROVE  LET n == cmds'[t][i]
             IN  /\ chat[n.who] = n.chat /\ home[n.who] = t /\ pc'[n.who] = Sent(n)
                 /\ n.op = "unsub" => n.who \in Req
                 /\ \A j \in 1..Len(cmds'[t]) : cmds'[t][j].who = n.who => j = i
                 /\ n.who # Head(cmds[s]).who
  <2>1. CASE t # s
    BY <1>3, <1>4, <2>1
  <2>2. CASE t = s
    <3>1. \A j \in 1..Len(cmds'[s]) : /\ j + 1 \in 1..Len(cmds[s]) /\ j + 1 # 1
                                      /\ cmds'[s][j] = cmds[s][j + 1]
      BY <1>2
    <3>2. cmds[s][i + 1].who # None /\ i + 1 \in 1..Len(cmds[s]) /\ i + 1 # 1
      BY <1>4, <2>2, <3>1
    <3> DEFINE n == cmds[s][i + 1]
    <3>3. /\ chat[n.who] = n.chat /\ home[n.who] = s /\ pc'[n.who] = Sent(n)
          /\ n.op = "unsub" => n.who \in Req
          /\ n.who # Head(cmds[s]).who
          /\ \A j \in 1..Len(cmds[s]) : cmds[s][j].who = n.who => j = i + 1
      BY <1>3, <3>2
    <3>4. cmds'[s][i] = n
      BY <2>2, <3>1
    <3> HIDE DEF n
    <3>5. \A j \in 1..Len(cmds'[s]) : cmds'[s][j].who = n.who => j + 1 = i + 1
      BY <3>1, <3>3
    <3>6. \A j \in 1..Len(cmds'[s]) : cmds'[s][j].who = n.who => j = i
      BY <2>2, <3>5
    <3> QED
      BY <2>2, <3>3, <3>4, <3>6
  <2> QED
    BY <2>1, <2>2
<1> QED
  BY <1>4 DEF CommandsFit, Sent

\* A command is answered, and its sender sends another one.
LEMMA CommandResent ==
  ASSUME TypeOK, CommandsFit, NEW s \in Replica, cmds[s] # <<>>, UNCHANGED <<chat, home>>,
         NEW n \in Command, n.who = Head(cmds[s]).who, n.who # None, n.who \in Req,
         chat[n.who] = n.chat, home[n.who] = s, pc'[n.who] = Sent(n),
         cmds'[s] = Append(Tail(cmds[s]), n), \A t \in Replica : t # s => cmds'[t] = cmds[t],
         \A x \in Anybody : x # n.who => pc'[x] = pc[x]
  PROVE  CommandsFit'
<1>1. \A t \in Replica : cmds[t] \in Seq(Command)
  BY Types
<1> DEFINE q == Tail(cmds[s])
<1>2. /\ Len(q) = Len(cmds[s]) - 1 /\ Len(cmds[s]) \in Nat \ {0} /\ q \in Seq(Command)
      /\ \A i \in 1..(Len(cmds[s]) - 1) : q[i] = cmds[s][i + 1]
      /\ Head(cmds[s]) = cmds[s][1]
  BY <1>1, Popped
<1>3. cmds'[s] = Append(q, n)
  OBVIOUS
<1> HIDE DEF q
<1>4. /\ Len(cmds'[s]) = Len(q) + 1 /\ Len(q) \in Nat /\ cmds'[s][Len(q) + 1] = n
      /\ \A i \in 1..Len(q) : cmds'[s][i] = q[i]
  BY <1>2, <1>3, Appended
<1>5. ASSUME NEW t \in Replica, NEW i \in 1..Len(cmds[t]), cmds[t][i].who # None,
             t = s => i # 1
      PROVE  /\ chat[cmds[t][i].who] = cmds[t][i].chat
             /\ home[cmds[t][i].who] = t /\ pc'[cmds[t][i].who] = Sent(cmds[t][i])
             /\ cmds[t][i].op = "unsub" => cmds[t][i].who \in Req
             /\ \A j \in 1..Len(cmds[t]) : cmds[t][j].who = cmds[t][i].who => j = i
             /\ cmds[t][i].who # n.who
  <2>1. cmds[t][i].who \in Anybody
    <3>1. cmds[t][i] \in Command
      BY <1>1
    <3> QED
      BY <1>5, <3>1, Names DEF Command
  <2>2. /\ chat[cmds[t][i].who] = cmds[t][i].chat
        /\ home[cmds[t][i].who] = t /\ pc[cmds[t][i].who] = Sent(cmds[t][i])
        /\ cmds[t][i].op = "unsub" => cmds[t][i].who \in Req
        /\ \A j \in 1..Len(cmds[t]) : cmds[t][j].who = cmds[t][i].who => j = i
    BY <1>5 DEF CommandsFit
  <2>3. cmds[t][i].who # n.who
    <3>1. 1 \in 1..Len(cmds[s])
      BY <1>2
    <3>2. CASE t = s
      BY <1>2, <1>5, <2>2, <3>1, <3>2
    <3>3. CASE t # s
      BY <2>2, <3>3
    <3> QED
      BY <3>2, <3>3
  <2> QED
    BY <2>1, <2>2, <2>3
<1>6. \A i \in 1..Len(q) : /\ i + 1 \in 1..Len(cmds[s]) /\ i + 1 # 1
                           /\ cmds'[s][i] = cmds[s][i + 1]
  BY <1>2, <1>4
<1>7. \A i \in 1..Len(cmds'[s]) : i \in 1..Len(q) \/ i = Len(q) + 1
  BY <1>4
<1> SUFFICES ASSUME NEW t \in Replica, NEW i \in 1..Len(cmds'[t]), cmds'[t][i].who # None
             PROVE  LET m == cmds'[t][i]
                    IN  /\ chat[m.who] = m.chat /\ home[m.who] = t /\ pc'[m.who] = Sent(m)
                        /\ m.op = "unsub" => m.who \in Req
                        /\ \A j \in 1..Len(cmds'[t]) : cmds'[t][j].who = m.who => j = i
  BY DEF CommandsFit, Sent
<1>8. CASE t # s
  BY <1>5, <1>8
<1>9. CASE t = s /\ i \in 1..Len(q)
  <2>1. cmds[s][i + 1].who # None /\ i + 1 \in 1..Len(cmds[s]) /\ i + 1 # 1
    BY <1>6, <1>9
  <2> DEFINE m == cmds[s][i + 1]
  <2>2. /\ chat[m.who] = m.chat /\ home[m.who] = s /\ pc'[m.who] = Sent(m)
        /\ m.op = "unsub" => m.who \in Req
        /\ m.who # n.who
        /\ \A j \in 1..Len(cmds[s]) : cmds[s][j].who = m.who => j = i + 1
    BY <1>5, <2>1
  <2>3. cmds'[s][i] = m
    BY <1>6, <1>9
  <2> HIDE DEF m
  <2>4. \A j \in 1..Len(q) : cmds'[s][j].who = m.who => j + 1 = i + 1
    BY <1>6, <2>2
  <2>5. \A j \in 1..Len(cmds'[s]) : cmds'[s][j].who = m.who => j = i
    <3> SUFFICES ASSUME NEW j \in 1..Len(cmds'[s]), cmds'[s][j].who = m.who PROVE j = i
      OBVIOUS
    <3>1. j \in 1..Len(q)
      BY <1>4, <1>7, <2>2
    <3>2. j + 1 = i + 1
      BY <2>4, <3>1
    <3> QED
      BY <3>1, <3>2, <1>9
  <2> QED
    BY <1>9, <2>2, <2>3, <2>5
<1>10. CASE t = s /\ i = Len(q) + 1
  <2>1. \A j \in 1..Len(q) : cmds'[s][j].who # n.who
    BY <1>5, <1>6
  <2>2. \A j \in 1..Len(cmds'[s]) : cmds'[s][j].who = n.who => j = i
    BY <1>7, <1>10, <2>1
  <2> QED
    BY <1>4, <1>10, <2>2
<1> QED
  BY <1>7, <1>8, <1>9, <1>10

\* A request sends a command and waits for it.
LEMMA CommandBegun ==
  ASSUME TypeOK, CommandsFit, NEW x \in Request, NEW s \in Replica, NEW op \in {"sub", "unsub"},
         op = "unsub" => x \in Req, ~Waits(x), Send(s, op, chat[x], x), chat' = chat,
         GoTo(x, Sent([op |-> op, chat |-> chat[x], who |-> x])),
         home' = [home EXCEPT ![x] = s] \/ (home' = home /\ home[x] = s)
  PROVE  CommandsFit'
<1> DEFINE n == [op |-> op, chat |-> chat[x], who |-> x]
<1>1. x \in Anybody /\ chat[x] \in Chat /\ x \in Request \cup {None}
  BY Names, Types
<1>2. /\ n \in Command /\ n.who = x /\ n.chat = chat[x] /\ n.op = op
      /\ cmds'[s] = Append(cmds[s], n)
      /\ \A t \in Replica : t # s => cmds'[t] = cmds[t]
  BY <1>1, CommandSent
<1>3. Sent(n) \in PlaceName /\ GoTo(x, Sent(n))
  BY DEF Sent, PlaceName
<1> HIDE DEF n
<1>4. pc'[x] = Sent(n) /\ \A y \in Anybody : y # x => pc'[y] = pc[y]
  BY <1>1, <1>3, Went
<1>5. home'[x] = s /\ \A y \in Anybody : y # x => home'[y] = home[y]
  BY <1>1, Moved
<1>6. \A y \in Request : Waits(y) => pc'[y] = pc[y] /\ home'[y] = home[y]
  BY <1>4, <1>5, Names
<1> QED
  BY <1>2, <1>4, <1>5, <1>6, OneCommand

\* Nobody sends a command.
LEMMA CommandOfNobody ==
  ASSUME TypeOK, CommandsFit, NEW s \in Replica, NEW op \in {"sub", "unsub"}, NEW c \in Chat,
         Send(s, op, c, None), UNCHANGED <<chat, pc, home>>
  PROVE  CommandsFit'
<1> DEFINE n == [op |-> op, chat |-> c, who |-> None]
<1>1. /\ n \in Command /\ n.who = None /\ cmds'[s] = Append(cmds[s], n)
      /\ \A t \in Replica : t # s => cmds'[t] = cmds[t]
  BY CommandSent
<1> HIDE DEF n
<1> QED
  BY <1>1, OneCommand

\* Every step leaves each sender waiting for its command.
LEMMA CommandsNext ==
  ASSUME TypeOK, Homes, Registered, CommandsFit, [Next]_vars
  PROVE  CommandsFit'
<1>1. ASSUME NEW s \in Replica, NEW r \in Req, Predict(r, s) PROVE CommandsFit'
  <2>1. r \in Request /\ r \in Anybody /\ r \notin Hook /\ ~Waits(r)
    BY <1>1, Names DEF Predict, Waits
  <2>2. CASE chat[r] \notin known[s]
    BY <1>1, <2>1, <2>2, CommandBegun DEF Predict, Sent
  <2>3. CASE chat[r] \in known[s]
    <3>1. GoTo(r, "running") /\ UNCHANGED <<cmds, chat>>
      BY <1>1, <2>3 DEF Predict
    <3>2. \A x \in Request : Waits(x) => pc'[x] = pc[x] /\ home'[x] = home[x]
      BY <1>1, <2>1, <3>1, Types, Names DEF Predict, GoTo
    <3> QED
      BY <3>1, <3>2, NoCommand
  <2> QED
    BY <2>2, <2>3
<1>2. ASSUME NEW r \in Req, Return(r) PROVE CommandsFit'
  <2>1. r \in Request /\ home[r] \in Replica /\ ~Waits(r)
    BY <1>2, Names, Types DEF Return, Homes, Waits
  <2> QED
    BY <1>2, <2>1, CommandBegun DEF Return, Sent
<1>3. ASSUME NEW h \in Hook, NEW l \in Listener, BindHere(h, l) PROVE CommandsFit'
  <2>1. h \in Request /\ home[h] \in Replica /\ ~Waits(h)
    BY <1>3, Names, Types DEF BindHere, Homes, Waits
  <2>2. CASE chat[h] \notin known[home[h]]
    BY <1>3, <2>1, <2>2, CommandBegun DEF BindHere, Sent
  <2>3. CASE chat[h] \in known[home[h]]
    BY <1>3, <2>3, NoCommand DEF BindHere
  <2> QED
    BY <2>2, <2>3
<1>4. ASSUME NEW s \in Replica, Bound(s) PROVE CommandsFit'
  <2> DEFINE b == Head(binds[s])
  <2>1. b.chat \in Chat
    <3>1. binds[s] \in Seq(Bind) /\ binds[s] # <<>>
      BY <1>4, Types DEF Bound
    <3>2. Head(binds[s]) \in Bind
      BY <3>1, Popped
    <3> QED
      BY <3>2 DEF Bind
  <2>2. UNCHANGED <<chat, pc, home>> /\ (cmds' = cmds \/ Send(s, "sub", b.chat, None))
    BY <1>4 DEF Bound, places
  <2> HIDE DEF b
  <2> QED
    BY <2>1, <2>2, NoCommand, CommandOfNobody
<1>5. ASSUME NEW s \in Replica, NEW c \in Chat, Cleanup(s, c) PROVE CommandsFit'
  BY <1>5, CommandOfNobody DEF Cleanup, places
<1>6. ASSUME NEW s \in Replica, Reply(s) PROVE CommandsFit'
  <2> DEFINE m == Head(cmds[s])
             again == [op |-> "unsub", chat |-> m.chat, who |-> m.who]
  <2>1. /\ cmds[s] # <<>> /\ UNCHANGED <<chat, home>> /\ m.who \in Request \cup {None}
        /\ again \in Command /\ again.chat = m.chat /\ again.op = "unsub" /\ again.who = m.who
        /\ pc' = pc \/ (m.who \in Request /\ \E place \in PlaceName : GoTo(m.who, place))
    BY <1>6, Replied
  <2>2. \/ cmds' = [cmds EXCEPT ![s] = Tail(@)]
        \/ /\ m.who \in Req /\ GoTo(m.who, "unsubscribing")
           /\ cmds' = [cmds EXCEPT ![s] = Append(Tail(cmds[s]), again)]
    BY <1>6, Refused DEF Reply, Answer, UnsubscribeFails, Goes
  <2>3. m.who # None => chat[m.who] = m.chat /\ home[m.who] = s
    BY <2>1, HeadFits
  <2> HIDE DEF m, again
  <2>4. \A x \in Anybody : x # m.who => pc'[x] = pc[x]
    BY <2>1, Names, Went
  <2>5. CASE cmds' = [cmds EXCEPT ![s] = Tail(@)]
    <3>1. cmds'[s] = Tail(cmds[s]) /\ \A t \in Replica : t # s => cmds'[t] = cmds[t]
      BY <2>1, <2>5, CommandTaken
    <3> QED
      BY <2>1, <2>4, <3>1, CommandDone DEF m
  <2>6. CASE /\ m.who \in Req /\ GoTo(m.who, "unsubscribing")
             /\ cmds' = [cmds EXCEPT ![s] = Append(Tail(cmds[s]), again)]
    <3>1. again.who \in Req /\ again.who # None /\ again.who = Head(cmds[s]).who
      BY <2>1, <2>6, Names DEF m
    <3>2. pc'[again.who] = Sent(again)
      <4>1. again.who \in Anybody /\ "unsubscribing" \in PlaceName
        BY <3>1, Names DEF PlaceName
      <4> QED
        BY <2>1, <2>6, <4>1, Went DEF Sent
    <3>3. chat[again.who] = again.chat /\ home[again.who] = s
      BY <2>1, <2>3, <3>1
    <3>4. cmds'[s] = Append(Tail(cmds[s]), again) /\ \A t \in Replica : t # s => cmds'[t] = cmds[t]
      BY <2>6, Types
    <3>5. \A x \in Anybody : x # again.who => pc'[x] = pc[x]
      BY <2>1, <2>4
    <3> QED
      BY <2>1, <3>1, <3>2, <3>3, <3>4, <3>5, CommandResent
  <2> QED
    BY <2>2, <2>5, <2>6
<1>7. ASSUME \/ \E l \in Listener : Heartbeat(l) \/ Unregister(l) \/ Close(l)
             \/ \E l \in Listener, s \in Replica : Open(l, s)
             \/ \E h \in Hook, l \in Listener : BindThere(h, l)
             \/ \E s \in Replica, c \in Chat : Event(s, c)
             \/ UNCHANGED vars
      PROVE  CommandsFit'
  <2>1. UNCHANGED <<cmds, chat>>
    BY <1>7 DEF Heartbeat, Unregister, Close, Open, BindThere, Event, vars, places, redis
  <2>2. \A x \in Request : Waits(x) => pc'[x] = pc[x] /\ home'[x] = home[x]
    BY <1>7, Names, Types DEF Heartbeat, Unregister, Close, Open, BindThere, Event, vars, places, GoTo
  <2> QED
    BY <2>1, <2>2, NoCommand
<1>8. ASSUME \/ \E r \in Req : ReturnUnknown(r)
             \/ \E h \in Hook : Begin(h) \/ Reject(h) \/ Finish(h) \/ \E s \in Replica : List(h, s)
      PROVE  CommandsFit'
  <2>1. UNCHANGED <<cmds, chat>>
    BY <1>8 DEF ReturnUnknown, Begin, Reject, Finish, List, redis
  <2>2. \A x \in Request : Waits(x) => pc'[x] = pc[x] /\ home'[x] = home[x]
    BY <1>8, Names, Types DEF ReturnUnknown, Begin, Reject, Finish, List, GoTo, Waits
  <2> QED
    BY <2>1, <2>2, NoCommand
<1> QED
  BY <1>1, <1>2, <1>3, <1>4, <1>5, <1>6, <1>7, <1>8 DEF Next, StepOf, Call

-----------------------------------------------------------------------------
(* Channels, bind messages and panels.                                     *)

\* Every step leaves handlers where channels are known.
LEMMA ChannelsNext ==
  ASSUME TypeOK, Homes, Registered, CommandsFit, ChannelsFit, [Next]_vars
  PROVE  ChannelsFit'
<1>1. ASSUME NEW s \in Replica, Answer(s) PROVE ChannelsFit'
  <2> DEFINE m == Head(cmds[s])
  <2>1. m.chat \in Chat /\ m.op \in {"sub", "unsub"}
    BY <1>1, HeadFits DEF Answer
  <2>2. history'.broken = history.broken
    <3>1. history' = history \/ Ends(s, m)
      BY <1>1, Answered DEF Goes
    <3> HIDE DEF m
    <3> QED
      BY <2>1, <3>1, EndedOnly DEF Ends
  <2>3. /\ known' = [known EXCEPT ![s] = Known(s, m)]
        /\ handlers' = [handlers EXCEPT ![s][m.chat] = Attached(s, m)]
    BY <1>1 DEF Answer
  <2> HIDE DEF m
  <2>4. \A t \in Replica, c \in Chat : ~(t = s /\ c = m.chat) =>
          (c \in known'[t] <=> c \in known[t]) /\ handlers'[t][c] = handlers[t][c]
    BY <2>3, Types DEF Known
  <2>5. /\ m.chat \in known'[s] <=> m.op = "sub"
        /\ handlers'[s][m.chat] = IF m.op = "sub" THEN handlers[s][m.chat] + 1 ELSE 0
        /\ handlers[s][m.chat] \in Nat
    BY <2>1, <2>3, Types DEF Known, Attached
  <2> SUFFICES ASSUME NEW t \in Replica, NEW c \in Chat
               PROVE  /\ c \in known'[t] => handlers'[t][c] > 0
                      /\ c \notin known'[t] /\ <<t, c>> \notin history'.broken
                           => handlers'[t][c] = 0
    BY DEF ChannelsFit
  <2>6. CASE t = s /\ c = m.chat
    BY <2>5, <2>6
  <2>7. CASE ~(t = s /\ c = m.chat)
    BY <2>2, <2>4, <2>7 DEF ChannelsFit
  <2> QED
    BY <2>6, <2>7
<1>2. ASSUME NEW s \in Replica, SubscribeFails(s) PROVE ChannelsFit'
  <2> DEFINE m == Head(cmds[s])
  <2>1. m.chat \in Chat /\ m.op \in {"sub", "unsub"}
    BY <1>2, HeadFits DEF SubscribeFails
  <2>2. history'.broken = history.broken
    <3>1. history' = history \/ Ends(s, m)
      BY <1>2, Refused DEF Goes
    <3> HIDE DEF m
    <3> QED
      BY <2>1, <3>1, EndedOnly DEF Ends
  <2>3. UNCHANGED <<known, handlers>>
    BY <1>2 DEF SubscribeFails
  <2> QED
    BY <2>2, <2>3 DEF ChannelsFit
<1>3. ASSUME NEW s \in Replica, UnsubscribeFails(s) PROVE ChannelsFit'
  <2> DEFINE m == Head(cmds[s])
  <2>1. m.chat \in Chat /\ m.op \in {"sub", "unsub"}
    BY <1>3, HeadFits DEF UnsubscribeFails
  <2>2. history'.broken = history.broken \cup {<<s, m.chat>>}
    <3>1. {<<s, m.chat>>} \in SUBSET (Replica \X Chat)
      BY <2>1
    <3>2. CASE m.who = None
      <4>1. history' = [history EXCEPT !.broken = @ \cup {<<s, m.chat>>}]
        BY <1>3, <3>2 DEF UnsubscribeFails
      <4> HIDE DEF m
      <4> QED
        BY <4>1, Types DEF HistoryState
    <3>3. CASE m.who # None
      <4>1. history' = [history EXCEPT !.ended = @ \cup EndedBy(s, m.chat),
                                       !.broken = @ \cup {<<s, m.chat>>}]
        BY <1>3, <3>3 DEF UnsubscribeFails
      <4> HIDE DEF m
      <4> QED
        BY <2>1, <3>1, <4>1, Ended
    <3> QED
      BY <3>2, <3>3
  <2>3. known' = [known EXCEPT ![s] = known[s] \ {m.chat}] /\ handlers' = handlers
    BY <1>3 DEF UnsubscribeFails
  <2> HIDE DEF m
  <2>4. \A t \in Replica, c \in Chat :
          \/ c \in known'[t] <=> c \in known[t]
          \/ t = s /\ c = m.chat /\ c \notin known'[t] /\ <<t, c>> \in history'.broken
    BY <2>2, <2>3, Types
  <2> QED
    BY <2>2, <2>3, <2>4 DEF ChannelsFit
<1>4. ASSUME \/ \E r \in Req : \/ Return(r) \/ ReturnUnknown(r)
                               \/ \E s \in Replica : Predict(r, s)
             \/ \E h \in Hook : \/ Begin(h) \/ Reject(h) \/ Finish(h)
                                \/ \E s \in Replica : List(h, s)
                                \/ \E l \in Listener : BindHere(h, l) \/ BindThere(h, l)
             \/ \E s \in Replica : Bound(s) \/ \E c \in Chat : Event(s, c) \/ Cleanup(s, c)
             \/ \E l \in Listener : \/ Heartbeat(l) \/ Unregister(l) \/ Close(l)
                                    \/ \E s \in Replica : Open(l, s)
             \/ UNCHANGED vars
      PROVE  ChannelsFit'
  <2>1. UNCHANGED <<known, handlers>>
    BY <1>4 DEF Return, ReturnUnknown, Predict, Begin, Reject, Finish, List, BindHere, BindThere,
                Bound, Event, Cleanup, Heartbeat, Unregister, Close, Open, vars, redis
  <2>2. history'.broken = history.broken
    BY <1>4, Types DEF Return, ReturnUnknown, Predict, Begin, Reject, Finish, List, BindHere,
                       BindThere, Bound, Event, Cleanup, Heartbeat, Unregister, Close, Open, vars, HistoryState
  <2> QED
    BY <2>1, <2>2 DEF ChannelsFit
<1> QED
  BY <1>1, <1>2, <1>3, <1>4 DEF Next, StepOf, Call, Reply

\* Bind messages of those who began stay.
LEMMA BindsStay ==
  ASSUME TypeOK, Homes, BindsFit, Kept,
         \A s \in Replica : \A i \in 1..Len(binds'[s]) :
           \/ \E j \in 1..Len(binds[s]) : binds'[s][i] = binds[s][j]
           \/ \E h \in Hook : chat[h] = binds'[s][i].chat /\ home'[h] \notin {s, None}
  PROVE  BindsFit'
<1> SUFFICES ASSUME NEW s \in Replica, NEW i \in 1..Len(binds'[s]),
                    NEW j \in 1..Len(binds[s]), binds'[s][i] = binds[s][j]
             PROVE  \E h \in Hook : chat[h] = binds'[s][i].chat /\ home'[h] \notin {s, None}
  BY DEF BindsFit, Kept
<1>1. PICK h \in Hook : chat[h] = binds[s][j].chat /\ home[h] \notin {s, None}
  BY DEF BindsFit
<1>2. pc[h] # "new"
  BY <1>1, Names DEF Homes, Anybody
<1> QED
  BY <1>1, <1>2, Names DEF Kept

\* Every step leaves bind messages to replicas other than that of a call of their chat.
LEMMA BindsNext ==
  ASSUME TypeOK, Homes, Registered, CommandsFit, BindsFit, [Next]_vars
  PROVE  BindsFit'
<1>1. Kept
  BY HomesNext
<1>2. ASSUME NEW h \in Hook, NEW l \in Listener, BindThere(h, l) PROVE BindsFit'
  <2>1. UNCHANGED <<chat, home>>
    BY <1>2 DEF BindThere, places
  <2>2. home[h] # None /\ home[l] # home[h] /\ home[l] \in Replica \cup {None}
    BY <1>2, Names, Types DEF BindThere, Homes, Anybody
  <2> DEFINE b == [chat |-> chat[h], listener |-> l]
  <2>3. b \in Bind /\ b.chat = chat[h] /\ binds' = [binds EXCEPT ![home[l]] = Append(@, b)]
    BY <1>2, Names, Types DEF BindThere, Bind
  <2> HIDE DEF b
  <2>4. ASSUME NEW s \in Replica, NEW i \in 1..Len(binds'[s])
        PROVE  \/ \E j \in 1..Len(binds[s]) : binds'[s][i] = binds[s][j]
               \/ \E g \in Hook : chat[g] = binds'[s][i].chat /\ home'[g] \notin {s, None}
    <3>1. CASE s # home[l]
      <4>1. binds'[s] = binds[s]
        BY <2>3, <3>1, Types
      <4> QED
        BY <4>1
    <3>2. CASE s = home[l]
      <4>1. binds'[s] = Append(binds[s], b) /\ binds[s] \in Seq(Bind)
        BY <2>3, <3>2, Types
      <4>2. /\ Len(binds'[s]) = Len(binds[s]) + 1 /\ Len(binds[s]) \in Nat
            /\ \A j \in 1..Len(binds[s]) : binds'[s][j] = binds[s][j]
            /\ binds'[s][Len(binds[s]) + 1] = b
        BY <2>3, <4>1, Appended
      <4>3. CASE i = Len(binds[s]) + 1
        BY <2>1, <2>2, <2>3, <3>2, <4>2, <4>3
      <4>4. CASE i # Len(binds[s]) + 1
        <5>1. i \in 1..Len(binds[s])
          BY <4>2, <4>4
        <5> QED
          BY <4>2, <5>1
      <4> QED
        BY <4>3, <4>4
    <3> QED
      BY <3>1, <3>2
  <2> QED
    BY <1>1, <2>4, BindsStay
<1>3. ASSUME NEW s \in Replica, Bound(s) PROVE BindsFit'
  <2>1. ASSUME NEW t \in Replica, NEW i \in 1..Len(binds'[t])
        PROVE  \E j \in 1..Len(binds[t]) : binds'[t][i] = binds[t][j]
    <3>1. CASE t # s
      <4>1. binds'[t] = binds[t]
        BY <1>3, <3>1, Types DEF Bound
      <4> QED
        BY <4>1
    <3>2. CASE t = s
      <4>1. binds'[s] = Tail(binds[s]) /\ binds[s] \in Seq(Bind) /\ binds[s] # <<>>
        BY <1>3, Types DEF Bound
      <4>2. /\ Len(binds'[s]) = Len(binds[s]) - 1 /\ Len(binds[s]) \in Nat \ {0}
            /\ \A j \in 1..(Len(binds[s]) - 1) : binds'[s][j] = binds[s][j + 1]
        BY <4>1, Popped
      <4>3. i + 1 \in 1..Len(binds[s]) /\ binds'[s][i] = binds[s][i + 1]
        BY <3>2, <4>2
      <4> QED
        BY <3>2, <4>3
    <3> QED
      BY <3>1, <3>2
  <2> QED
    BY <1>1, <2>1, BindsStay
<1>4. CASE binds' = binds
  BY <1>1, <1>4, BindsStay
<1>5. \/ \E h \in Hook, l \in Listener : BindThere(h, l)
      \/ \E s \in Replica : Bound(s)
      \/ binds' = binds
  BY DEF Next, StepOf, Call, Reply, Return, ReturnUnknown, Predict, Begin, Reject, Finish, List,
         BindHere, Event, Cleanup, Heartbeat, Unregister, Close, Open, Answer, SubscribeFails, UnsubscribeFails, vars
<1> QED
  BY <1>2, <1>3, <1>4, <1>5

\* Panels observe where a call of their chat is, or was on another replica.
LEMMA PanelsStay ==
  ASSUME TypeOK, Homes, PanelsAreToldHere, Kept,
         \A h \in Hook : ~Executed(h) => ~Executed(h)',
         \A s \in Replica, c \in Chat :
           \/ observers'[s][c] \subseteq observers[s][c]
           \/ \E h \in Hook : chat[h] = c /\ (~Executed(h)' \/ home'[h] \notin {s, None})
  PROVE  PanelsAreToldHere'
<1> SUFFICES ASSUME NEW s \in Replica, NEW c \in Chat, observers'[s][c] \subseteq observers[s][c],
                    \A h \in Hook : chat[h] = c => Executed(h)' /\ home'[h] \in {s, None}
             PROVE  observers'[s][c] = {}
  BY DEF PanelsAreToldHere, Kept
<1>1. ASSUME NEW h \in Hook, chat[h] = c PROVE Executed(h) /\ home[h] \in {s, None}
  <2>1. pc[h] = "new" => home[h] = None
    BY Names DEF Homes, Anybody
  <2> QED
    BY <1>1, <2>1, Names DEF Kept
<1> QED
  BY <1>1 DEF PanelsAreToldHere

\* Every step that ends the calls of a chat on a replica tells its panels there.
LEMMA PanelsNext ==
  ASSUME TypeOK, Homes, Registered, CommandsFit, BindsFit, PanelsAreToldHere, [Next]_vars
  PROVE  PanelsAreToldHere'
<1>1. Kept
  BY HomesNext
\* The end of a call tells the panels; nothing else ends a call.
<1>2. ASSUME NEW h \in Hook, Finish(h) PROVE PanelsAreToldHere'
  <2>1. chat[h] \in Chat /\ home[h] \in Replica /\ h \in Anybody
    BY <1>2, Names, Types DEF Finish, Homes
  <2>2. \A t \in Replica, d \in Chat :
          observers'[t][d] = IF t = home[h] /\ d = chat[h] THEN {} ELSE observers[t][d]
    BY <1>2, <2>1, ChatRemoved DEF Finish
  <2>3. /\ UNCHANGED <<chat, home>>
        /\ \A g \in Hook : g # h => pc'[g] = pc[g]
    BY <1>2, Names, Types DEF Finish, GoTo
  <2> SUFFICES ASSUME NEW t \in Replica, NEW d \in Chat,
                      \A g \in Hook : chat[g] = d => Executed(g)' /\ home[g] \in {t, None}
               PROVE  observers'[t][d] = {}
    BY <2>3 DEF PanelsAreToldHere
  <2>4. CASE chat[h] = d
    <3>1. home[h] = t
      BY <2>1, <2>4, Names
    <3> QED
      BY <2>2, <2>4, <3>1
  <2>5. CASE chat[h] # d
    <3>1. \A g \in Hook : chat[g] = d => Executed(g) /\ home[g] \in {t, None}
      BY <2>3, <2>5 DEF Executed
    <3>2. observers[t][d] = {}
      BY <3>1 DEF PanelsAreToldHere
    <3> QED
      BY <2>2, <2>5, <3>2
  <2> QED
    BY <2>4, <2>5
<1>3. ASSUME \A h \in Hook : ~Finish(h)
      PROVE  \A h \in Hook : ~Executed(h) => ~Executed(h)'
  <2>1. CASE \E s \in Replica : Reply(s)
    <3>1. PICK s \in Replica : Reply(s)
      BY <2>1
    <3> DEFINE m == Head(cmds[s])
    <3>2. \/ pc' = pc
          \/ \E place \in PlaceName \ {"new"} :
               GoTo(m.who, place) /\ (m.who \in Hook => place = "binding")
      BY <3>1, Replied
    <3> HIDE DEF m
    <3>3. \A h \in Hook : pc'[h] \in {pc[h], "binding"}
      BY <3>2, Names, Types DEF GoTo
    <3> QED
      BY <3>3 DEF Executed
  <2>2. CASE \E r \in Req : \/ Return(r) \/ ReturnUnknown(r)
                            \/ \E s \in Replica : Predict(r, s)
    <3>1. PICK r \in Req : pc' = pc \/ \E place \in PlaceName : GoTo(r, place)
      BY <2>2 DEF Return, ReturnUnknown, Predict, PlaceName
    <3> QED
      BY <3>1, Names, Types DEF GoTo, Executed
  <2>3. CASE \E l \in Listener : \/ Heartbeat(l) \/ Unregister(l) \/ Close(l)
                                 \/ \E s \in Replica : Open(l, s)
    <3>1. PICK l \in Listener : \E place \in PlaceName : GoTo(l, place)
      BY <2>3 DEF Heartbeat, Unregister, Close, Open, PlaceName
    <3> QED
      BY <3>1, Names, Types DEF GoTo, Executed
  <2>4. CASE \E h \in Hook : \/ Begin(h) \/ Reject(h) \/ \E s \in Replica : List(h, s)
                             \/ \E l \in Listener : BindHere(h, l) \/ BindThere(h, l)
    <3>1. PICK h \in Hook : pc' = pc \/ \E place \in PlaceName \ {"new", "done"} : GoTo(h, place)
      BY <2>4 DEF Begin, Reject, List, BindHere, BindThere, places, PlaceName
    <3> QED
      BY <3>1, Names, Types DEF GoTo, Executed
  <2>5. CASE \/ \E s \in Replica : Bound(s) \/ \E c \in Chat : Event(s, c) \/ Cleanup(s, c)
             \/ UNCHANGED vars
    BY <2>5 DEF Bound, Event, Cleanup, vars, places, Executed
  <2> QED
    BY <1>3, <2>1, <2>2, <2>3, <2>4, <2>5 DEF Next, StepOf, Call
\* A panel observes more only where a call binds it, or where a message of one does.
<1>4. ASSUME NEW h \in Hook, NEW l \in Listener, BindHere(h, l)
      PROVE  \A t \in Replica, d \in Chat :
               observers'[t][d] \subseteq observers[t][d] \/ (chat[h] = d /\ ~Executed(h)')
  <2>1. chat[h] \in Chat /\ home[h] \in Replica /\ h \in Anybody
    BY <1>4, Names, Types DEF BindHere, Homes
  <2>2. \A t \in Replica, d \in Chat :
          ~(t = home[h] /\ d = chat[h]) => observers'[t][d] = observers[t][d]
    BY <1>4, <2>1, ObserverAdded DEF BindHere
  <2>3. ~Executed(h)'
    BY <1>4, <2>1, Types DEF BindHere, Executed, GoTo
  <2> QED
    BY <2>2, <2>3
<1>5. ASSUME NEW s \in Replica, Bound(s)
      PROVE  \A t \in Replica, d \in Chat :
               \/ observers'[t][d] \subseteq observers[t][d]
               \/ \E g \in Hook : chat[g] = d /\ home'[g] \notin {t, None}
  <2> DEFINE b == Head(binds[s])
  <2>1. b.chat \in Chat /\ b.listener \in Listener /\ b = binds[s][1] /\ 1 \in 1..Len(binds[s])
    <3>1. binds[s] \in Seq(Bind) /\ binds[s] # <<>>
      BY <1>5, Types DEF Bound
    <3>2. b \in Bind /\ b = binds[s][1] /\ 1 \in 1..Len(binds[s])
      BY <3>1, Popped
    <3> QED
      BY <3>2 DEF Bind
  <2>2. home' = home /\ (observers' = observers \/ AddObserver(s, b.chat, b.listener))
    BY <1>5 DEF Bound, places
  <2>3. \E g \in Hook : chat[g] = b.chat /\ home[g] \notin {s, None}
    BY <2>1 DEF BindsFit
  <2> HIDE DEF b
  <2>4. \A t \in Replica, d \in Chat : ~(t = s /\ d = b.chat) => observers'[t][d] = observers[t][d]
    BY <2>1, <2>2, ObserverAdded
  <2> QED
    BY <2>2, <2>3, <2>4
<1>6. ASSUME NEW s \in Replica, NEW c \in Chat, observers' = observers \/ RemoveChat(s, c)
      PROVE  \A t \in Replica, d \in Chat : observers'[t][d] \subseteq observers[t][d]
  BY <1>6, ChatRemoved
<1>7. ASSUME NEW s \in Replica, Reply(s)
      PROVE  \A t \in Replica, d \in Chat : observers'[t][d] \subseteq observers[t][d]
  BY <1>6, <1>7, Replied
<1>8. ASSUME NEW r \in Req, ReturnUnknown(r)
      PROVE  \A t \in Replica, d \in Chat : observers'[t][d] \subseteq observers[t][d]
  <2>1. chat[r] \in Chat /\ home[r] \in Replica
    BY <1>8, Names, Types DEF ReturnUnknown, Homes
  <2> QED
    BY <1>6, <1>8, <2>1 DEF ReturnUnknown
<1>9. ASSUME NEW l \in Listener, Close(l)
      PROVE  \A t \in Replica, d \in Chat : observers'[t][d] \subseteq observers[t][d]
  <2>1. home[l] \in Replica
    BY <1>9, Names, Types DEF Close, Homes
  <2> QED
    BY <1>9, <2>1, ListenerLeft DEF Close
<1>10. ASSUME NEW s \in Replica, NEW c \in Chat, Event(s, c)
       PROVE  \A t \in Replica, d \in Chat : observers'[t][d] \subseteq observers[t][d]
  BY <1>10, Types DEF Event
<1>11. ASSUME \/ \E r \in Req : Return(r) \/ \E s \in Replica : Predict(r, s)
              \/ \E h \in Hook : \/ Begin(h) \/ Reject(h) \/ \E s \in Replica : List(h, s)
                                 \/ \E l \in Listener : BindThere(h, l)
              \/ \E s \in Replica, c \in Chat : Cleanup(s, c)
              \/ \E l \in Listener : Heartbeat(l) \/ Unregister(l) \/ \E s \in Replica : Open(l, s)
              \/ UNCHANGED vars
       PROVE  observers' = observers
  BY <1>11 DEF Return, Predict, Begin, Reject, List, BindThere, Cleanup, Heartbeat, Unregister, Open, vars,
               streamer
<1>12. CASE \A h \in Hook : ~Finish(h)
  <2>1. \A t \in Replica, d \in Chat :
          \/ observers'[t][d] \subseteq observers[t][d]
          \/ \E g \in Hook : chat[g] = d /\ (~Executed(g)' \/ home'[g] \notin {t, None})
    BY <1>4, <1>5, <1>7, <1>8, <1>9, <1>10, <1>11, <1>12 DEF Next, StepOf, Call
  <2> QED
    BY <1>1, <1>3, <1>12, <2>1, PanelsStay
<1> QED
  BY <1>2, <1>12

-----------------------------------------------------------------------------
(* Predictions that are alone in their chat.                               *)

\* The queue of commands of replica t stays fit for whoever is alone in chat c.
QueueKept(t, c) ==
  /\ NoneFor(cmds[t], c) => NoneFor(cmds'[t], c)
  /\ \A m \in Command : m.chat = c /\ OnlyOne(cmds[t], m) => OnlyOne(cmds'[t], m)

\* A step of others: q stays where it is, and so do its response, its channel, and the
\* commands and messages about its chat; nobody else of the chat becomes active.
StaysPut(q) ==
  /\ chat' = chat /\ pc'[q] = pc[q] /\ home'[q] = home[q]
  /\ q \in history'.ended <=> q \in history.ended

Untouched(q, s, c) ==
  /\ \A x \in Request : x # q /\ chat[x] = c /\ Active(x)' => Active(x)
  /\ clients'[s][c] = clients[s][c]
  /\ \A i \in 1..Len(binds'[s]) : binds'[s][i].chat # c
  /\ c \in known'[s] <=> c \in known[s]
  /\ handlers'[s][c] = handlers[s][c]
  /\ QueueKept(s, c)

\* Whoever is alone and not done has a replica of its own, a chat, and is active.
LEMMA AloneIs ==
  ASSUME TypeOK, Homes, AloneFits, NEW q \in history.alone
  PROVE  /\ q \in Req /\ q \in Request /\ q \in Anybody /\ Alone(q) /\ chat[q] \in Chat
         /\ chat[q] \in Key /\ pc[q] # "new"
         /\ pc[q] # "done" =>
              /\ home[q] \in Replica /\ Active(q) /\ clients[home[q]][chat[q]] = q
              /\ AloneWith(q, home[q], chat[q])
              /\ \A x \in Request : x # q /\ chat[x] = chat[q] => ~Active(x)
              /\ \A i \in 1..Len(binds[home[q]]) : binds[home[q]][i].chat # chat[q]
<1>1. q \in Req /\ q \in Request /\ q \in Anybody
  BY Types, Names DEF HistoryState
<1>2. Alone(q)
  BY DEF AloneFits
<1>3. pc[q] # "done" => AloneWith(q, home[q], chat[q])
  BY <1>2 DEF Alone
<1>4. pc[q] # "done" =>
        /\ pc[q] \in {"subscribing", "running", "unsubscribing"}
        /\ clients[home[q]][chat[q]] = q
        /\ \A x \in Request : x # q /\ chat[x] = chat[q] => ~Active(x)
        /\ \A i \in 1..Len(binds[home[q]]) : binds[home[q]][i].chat # chat[q]
  BY <1>3 DEF AloneWith
<1>5. pc[q] # "new" /\ (pc[q] # "done" => Active(q))
  BY <1>4 DEF Active
<1>6. home[q] \in Replica /\ chat[q] \in Chat /\ chat[q] \in Key
  BY <1>1, <1>5, Types, Names DEF Homes, Anybody
<1> QED
  BY <1>1, <1>2, <1>3, <1>4, <1>5, <1>6

\* A step of others leaves whoever is alone alone.
LEMMA Undisturbed ==
  ASSUME TypeOK, Homes, AloneFits, NEW q \in history.alone, StaysPut(q),
         pc[q] # "done" => Untouched(q, home[q], chat[q])
  PROVE  Alone(q)'
<1>1. /\ q \in Req /\ q \in Request /\ Alone(q) /\ chat[q] \in Chat
      /\ pc[q] # "done" => AloneWith(q, home[q], chat[q])
  BY AloneIs
<1>2. ASSUME NEW s, NEW c, pc[q] # "done", s = home[q], c = chat[q] PROVE AloneWith(q, s, c)'
  <2> DEFINE sub == [op |-> "sub", chat |-> c, who |-> q]
             unsub == [op |-> "unsub", chat |-> c, who |-> q]
  <2>1. sub \in Command /\ unsub \in Command /\ sub.chat = c /\ unsub.chat = c
    BY <1>1, <1>2 DEF Command
  <2>2. /\ OnlyOne(cmds[s], sub) => OnlyOne(cmds'[s], sub)
        /\ OnlyOne(cmds[s], unsub) => OnlyOne(cmds'[s], unsub)
        /\ NoneFor(cmds[s], c) => NoneFor(cmds'[s], c)
    <3> HIDE DEF sub, unsub
    <3> QED
      BY <1>2, <2>1 DEF Untouched, QueueKept
  <2>3. /\ AloneWith(q, s, c) /\ pc'[q] = pc[q] /\ chat' = chat
        /\ \A x \in Request : x # q /\ chat[x] = c /\ Active(x)' => Active(x)
        /\ clients'[s][c] = clients[s][c]
        /\ \A i \in 1..Len(binds'[s]) : binds'[s][i].chat # c
        /\ c \in known'[s] <=> c \in known[s]
        /\ handlers'[s][c] = handlers[s][c]
    BY <1>1, <1>2 DEF Untouched, StaysPut
  <2> QED
    BY <2>2, <2>3 DEF AloneWith
<1>3. pc[q] # "done" => AloneWith(q, home[q], chat[q])'
  BY <1>2 DEF StaysPut
<1> QED
  BY <1>1, <1>3 DEF Alone, StaysPut

\* If the step leaves channels, commands and messages, only the response matters.
LEMMA QueuesAlike ==
  ASSUME TypeOK, Homes, AloneFits, NEW q \in history.alone, pc[q] # "done",
         \A x \in Request : x # q /\ chat[x] = chat[q] /\ Active(x)' => Active(x),
         clients'[home[q]][chat[q]] = clients[home[q]][chat[q]],
         UNCHANGED <<known, handlers, cmds, binds>>
  PROVE  Untouched(q, home[q], chat[q])
BY AloneIs DEF Untouched, QueueKept

\* A command about another chat, or of another replica, is sent.
LEMMA SentElsewhere ==
  ASSUME TypeOK, NEW s \in Replica, NEW op \in {"sub", "unsub"}, NEW d \in Chat,
         NEW who \in Request \cup {None}, Send(s, op, d, who),
         NEW t \in Replica, NEW c, t # s \/ c # d
  PROVE  QueueKept(t, c)
<1> DEFINE n == [op |-> op, chat |-> d, who |-> who]
<1>1. /\ n \in Command /\ n.chat = d /\ cmds'[s] = Append(cmds[s], n)
      /\ t # s => cmds'[t] = cmds[t]
  BY CommandSent
<1>2. cmds[t] \in Seq(Command)
  BY Types
<1> HIDE DEF n
<1>3. CASE t = s
  BY <1>1, <1>2, <1>3, Longer DEF QueueKept
<1>4. CASE t # s
  <2>1. cmds'[t] = cmds[t]
    BY <1>1, <1>4
  <2> QED
    BY <2>1 DEF QueueKept
<1> QED
  BY <1>3, <1>4

\* Somebody of another chat goes on.
LEMMA OtherChat ==
  ASSUME TypeOK, NEW q, NEW x \in Request, NEW place \in PlaceName,
         pc' = pc \/ GoTo(x, place), chat[x] # chat[q]
  PROVE  \A y \in Request : y # q /\ chat[y] = chat[q] /\ Active(y)' => Active(y)
<1>1. \A y \in Request : y # x => pc'[y] = pc[y]
  BY Names, Went
<1> QED
  BY <1>1 DEF Active

\* A reply touches its sender, and the channel, response and commands of its chat.
LEMMA ReplyTouches ==
  ASSUME TypeOK, Registered, CommandsFit, NEW s \in Replica, Reply(s)
  PROVE  LET m == Head(cmds[s])
             again == [op |-> "unsub", chat |-> m.chat, who |-> m.who]
         IN  /\ cmds[s] # <<>> /\ UNCHANGED <<chat, home, binds>> /\ history'.alone = history.alone
             /\ again \in Command /\ again.chat = m.chat
             /\ \A x \in Anybody : x # m.who => pc'[x] = pc[x]
             /\ \A x \in Request : x \in history.ended => x \in history'.ended
             /\ \A x \in Request : x \in history'.ended => x \in history.ended \/ clients[s][m.chat] = x
             /\ \A t \in Replica, k \in Chat : t # s \/ k # m.chat =>
                  /\ clients'[t][k] = clients[t][k]
                  /\ k \in known'[t] <=> k \in known[t]
                  /\ handlers'[t][k] = handlers[t][k]
             /\ \A t \in Replica : t # s => cmds'[t] = cmds[t]
             /\ cmds'[s] \in {Tail(cmds[s]), Append(Tail(cmds[s]), again)}
<1> DEFINE m == Head(cmds[s])
           again == [op |-> "unsub", chat |-> m.chat, who |-> m.who]
<1>1. /\ cmds[s] # <<>> /\ m.chat \in Chat /\ UNCHANGED <<chat, home, binds>>
      /\ again \in Command /\ again.chat = m.chat /\ history'.alone = history.alone
      /\ \A x \in Request : x \in history.ended => x \in history'.ended
      /\ \A x \in Request : x \in history'.ended => x \in history.ended \/ clients[s][m.chat] = x
      /\ clients' = clients \/ RemoveChat(s, m.chat)
      /\ pc' = pc \/ (m.who \in Request /\ \E place \in PlaceName : GoTo(m.who, place))
      /\ \E q \in {Tail(cmds[s]), Append(Tail(cmds[s]), again)} : cmds' = [cmds EXCEPT ![s] = q]
  BY Replied
<1>2. \A t \in Replica, k \in Chat : t # s \/ k # m.chat =>
        (k \in known'[t] <=> k \in known[t]) /\ handlers'[t][k] = handlers[t][k]
  BY <1>1, Types DEF Reply, Answer, SubscribeFails, UnsubscribeFails, Known, m
<1> HIDE DEF m, again
<1>3. /\ \A t \in Replica : t # s => cmds'[t] = cmds[t]
      /\ cmds'[s] \in {Tail(cmds[s]), Append(Tail(cmds[s]), again)}
  BY <1>1, Types
<1>4. \A x \in Anybody : x # m.who => pc'[x] = pc[x]
  BY <1>1, Names, Went
<1>5. \A t \in Replica, k \in Chat : t # s \/ k # m.chat => clients'[t][k] = clients[t][k]
  BY <1>1, ChatRemoved, Names
<1> QED
  BY <1>1, <1>2, <1>3, <1>4, <1>5 DEF m, again

\* Somebody else's command is answered.
LEMMA OthersReplied ==
  ASSUME TypeOK, Homes, Registered, CommandsFit, AloneFits, NEW s \in Replica, Reply(s),
         NEW q \in history.alone,
         pc[q] = "done" \/ home[q] # s \/ chat[q] # Head(cmds[s]).chat
  PROVE  Alone(q)'
<1> DEFINE m == Head(cmds[s])
           n == [op |-> "unsub", chat |-> m.chat, who |-> m.who]
<1>1. /\ cmds[s] # <<>> /\ UNCHANGED <<chat, home, binds>>
      /\ n \in Command /\ n.chat = m.chat
      /\ \A x \in Anybody : x # m.who => pc'[x] = pc[x]
      /\ \A x \in Request : x \in history.ended => x \in history'.ended
      /\ \A x \in Request : x \in history'.ended => x \in history.ended \/ clients[s][m.chat] = x
      /\ \A t \in Replica, k \in Chat : t # s \/ k # m.chat =>
           /\ clients'[t][k] = clients[t][k]
           /\ k \in known'[t] <=> k \in known[t]
           /\ handlers'[t][k] = handlers[t][k]
      /\ \A t \in Replica : t # s => cmds'[t] = cmds[t]
      /\ cmds'[s] \in {Tail(cmds[s]), Append(Tail(cmds[s]), n)}
  BY ReplyTouches
<1>2. /\ m \in Command /\ m.chat \in Chat /\ m.who \in Request \cup {None} /\ cmds[s] \in Seq(Command)
      /\ m.who # None => /\ m.who \in Request /\ chat[m.who] = m.chat /\ home[m.who] = s
                         /\ pc[m.who] = Sent(m)
  BY <1>1, HeadFits
<1>3. /\ q \in Req /\ q \in Request /\ q \in Anybody /\ Alone(q) /\ chat[q] \in Chat
      /\ pc[q] # "done" =>
           /\ home[q] \in Replica /\ clients[home[q]][chat[q]] = q
           /\ \A x \in Request : x # q /\ chat[x] = chat[q] => ~Active(x)
           /\ \A i \in 1..Len(binds[home[q]]) : binds[home[q]][i].chat # chat[q]
  BY AloneIs
<1>4. Head(cmds[s]).chat = m.chat /\ Head(cmds[s]) = m
  OBVIOUS
<1> HIDE DEF m, n
<1>5. m.who # None => Active(m.who) /\ pc[m.who] # "done"
  BY <1>2 DEF Sent, Active
<1>6. m.who # q
  BY <1>2, <1>3, <1>4, <1>5, Names
<1>7. StaysPut(q)
  <2>1. q \in history'.ended <=> q \in history.ended
    <3>1. CASE pc[q] = "done"
      BY <1>1, <1>3, <3>1 DEF Alone
    <3>2. CASE pc[q] # "done"
      <4>1. m.chat \in Key
        BY <1>2, Names
      <4>2. clients[s][m.chat] = q => m.chat = chat[q] /\ home[q] = s
        BY <1>3, <4>1 DEF Registered
      <4> QED
        BY <1>1, <1>3, <1>4, <3>2, <4>2
    <3> QED
      BY <3>1, <3>2
  <2> QED
    BY <1>1, <1>3, <1>6, <2>1 DEF StaysPut
<1>8. ASSUME pc[q] # "done" PROVE Untouched(q, home[q], chat[q])
  <2>1. \A x \in Request : x # q /\ chat[x] = chat[q] /\ Active(x)' => Active(x)
    <3>1. \A x \in Request : x # m.who => pc'[x] = pc[x]
      BY <1>1, Names
    <3>2. \A x \in Request : x = m.who => Active(x)
      BY <1>5, Names
    <3> QED
      BY <3>1, <3>2 DEF Active
  <2>2. home[q] # s \/ chat[q] # m.chat
    BY <1>4, <1>8
  <2>3. QueueKept(home[q], chat[q])
    <3>1. CASE home[q] # s
      <4>1. cmds'[home[q]] = cmds[home[q]]
        BY <1>1, <1>3, <1>8, <3>1
      <4> QED
        BY <4>1 DEF QueueKept
    <3>2. CASE home[q] = s
      <4>1. chat[q] # m.chat
        BY <2>2, <3>2
      <4> DEFINE p == Tail(cmds[s])
      <4>2. /\ NoneFor(cmds[s], chat[q]) => NoneFor(p, chat[q])
            /\ \A o \in Command : o.chat = chat[q] /\ OnlyOne(cmds[s], o) => OnlyOne(p, o)
        BY <1>1, <1>2, <1>4, <4>1, Shorter
      <4>3. p \in Seq(Command) /\ cmds'[s] \in {p, Append(p, n)}
        BY <1>1, <1>2, Popped
      <4> HIDE DEF p
      <4>4. /\ NoneFor(p, chat[q]) => NoneFor(Append(p, n), chat[q])
            /\ \A o \in Command : o.chat = chat[q] /\ OnlyOne(p, o) => OnlyOne(Append(p, n), o)
        BY <1>1, <4>1, <4>3, Longer
      <4> QED
        BY <3>2, <4>2, <4>3, <4>4 DEF QueueKept
    <3> QED
      BY <3>1, <3>2
  <2> QED
    BY <1>1, <1>3, <1>8, <2>1, <2>2, <2>3 DEF Untouched
<1> QED
  BY <1>7, <1>8, Undisturbed

\* A command about the chat of whoever is alone is its own, and the only one.
LEMMA OwnCommand ==
  ASSUME TypeOK, Homes, AloneFits, NEW s \in Replica, cmds[s] # <<>>,
         NEW q \in history.alone, pc[q] # "done", home[q] = s, chat[q] = Head(cmds[s]).chat
  PROVE  LET m == Head(cmds[s])
         IN  /\ m.who = q /\ q # None /\ q \notin Hook /\ NoneFor(Tail(cmds[s]), chat[q])
             /\ \/ pc[q] = "subscribing" /\ m.op = "sub"
                \/ pc[q] = "unsubscribing" /\ m.op = "unsub"
<1> DEFINE sub == [op |-> "sub", chat |-> chat[q], who |-> q]
           unsub == [op |-> "unsub", chat |-> chat[q], who |-> q]
<1>1. /\ sub.chat = chat[q] /\ sub.op = "sub" /\ sub.who = q
      /\ unsub.chat = chat[q] /\ unsub.op = "unsub" /\ unsub.who = q
  OBVIOUS
<1>2. /\ pc[q] \in {"subscribing", "unsubscribing", "running"}
      /\ pc[q] = "running" => NoneFor(cmds[s], chat[q])
      /\ pc[q] = "subscribing" => OnlyOne(cmds[s], sub)
      /\ pc[q] = "unsubscribing" => OnlyOne(cmds[s], unsub)
  BY AloneIs DEF AloneWith
<1>3. q # None /\ q \notin Hook /\ cmds[s] \in Seq(Command)
  BY AloneIs, Names, Types
<1> HIDE DEF sub, unsub
<1>4. pc[q] # "running"
  <2>1. Head(cmds[s]) = cmds[s][1] /\ 1 \in 1..Len(cmds[s])
    BY <1>3, Popped
  <2> QED
    BY <1>2, <2>1 DEF NoneFor
<1>5. CASE pc[q] = "subscribing"
  <2>1. Head(cmds[s]) = sub /\ NoneFor(Tail(cmds[s]), sub.chat)
    BY <1>1, <1>2, <1>3, <1>5, OnlyHead
  <2> QED
    BY <1>1, <1>3, <1>5, <2>1
<1>6. CASE pc[q] = "unsubscribing"
  <2>1. Head(cmds[s]) = unsub /\ NoneFor(Tail(cmds[s]), unsub.chat)
    BY <1>1, <1>2, <1>3, <1>6, OnlyHead
  <2> QED
    BY <1>1, <1>3, <1>6, <2>1
<1> QED
  BY <1>2, <1>4, <1>5, <1>6

\* Its own command is answered: it runs, or ends its response.
LEMMA OwnReplied ==
  ASSUME TypeOK, Homes, Registered, CommandsFit, AloneFits, NEW s \in Replica, Reply(s),
         NEW q \in history.alone, pc[q] # "done", home[q] = s, chat[q] = Head(cmds[s]).chat
  PROVE  Alone(q)'
<1> DEFINE m == Head(cmds[s])
<1>1. /\ cmds[s] # <<>> /\ UNCHANGED <<chat, home, binds>>
      /\ \A x \in Anybody : x # m.who => pc'[x] = pc[x]
  BY ReplyTouches
<1>2. /\ m.who = q /\ q # None /\ q \notin Hook /\ NoneFor(Tail(cmds[s]), chat[q])
      /\ \/ pc[q] = "subscribing" /\ m.op = "sub"
         \/ pc[q] = "unsubscribing" /\ m.op = "unsub"
  BY <1>1, OwnCommand
<1>3. /\ q \in Req /\ q \in Request /\ q \in Anybody /\ Alone(q) /\ chat[q] \in Chat
      /\ AloneWith(q, s, chat[q]) /\ clients[s][chat[q]] = q
  BY AloneIs
<1>4. ASSUME GoTo(q, "done"),
             \A x \in Request : x \in history'.ended <=> x \in history.ended \/ clients[s][chat[q]] = x
      PROVE  Alone(q)'
  <2>1. pc'[q] = "done" /\ q \in history'.ended
    BY <1>3, <1>4, Types DEF GoTo
  <2> QED
    BY <2>1 DEF Alone
<1>5. Ends(s, m) => Alone(q)'
  BY <1>2, <1>3, <1>4, EndedOnly DEF Ends
<1>6. CASE Answer(s)
  <2>1. Ends(s, m) \/ (m.op = "sub" /\ Goes(m, "running"))
    BY <1>2, <1>6, Answered
  <2>2. CASE m.op = "sub" /\ Goes(m, "running")
    <3>1. pc[q] = "subscribing" /\ handlers[s][chat[q]] = 0 /\ q \notin history.ended
      BY <1>2, <1>3, <2>2 DEF AloneWith, Alone
    <3>2. pc'[q] = "running" /\ UNCHANGED <<clients, history>>
      BY <1>2, <1>3, <2>2, Types DEF Goes, GoTo
    <3>3. chat[q] \in known'[s] /\ handlers'[s][chat[q]] = 1 /\ cmds'[s] = Tail(cmds[s])
      <4>1. /\ known' = [known EXCEPT ![s] = known[s] \cup {chat[q]}]
            /\ handlers' = [handlers EXCEPT ![s][chat[q]] = handlers[s][chat[q]] + 1]
            /\ cmds' = [cmds EXCEPT ![s] = Tail(@)]
        BY <1>6, <2>2 DEF Answer, Known, Attached
      <4> QED
        BY <1>3, <3>1, <4>1, Types
    <3>4. \A x \in Request : x # q => pc'[x] = pc[x]
      BY <1>1, <1>2, Names
    <3>5. AloneWith(q, s, chat[q])'
      BY <1>1, <1>2, <1>3, <3>1, <3>2, <3>3, <3>4 DEF AloneWith, Active
    <3> QED
      BY <1>1, <3>1, <3>2, <3>5 DEF Alone
  <2> QED
    BY <1>5, <2>1, <2>2
<1>7. CASE SubscribeFails(s)
  <2>1. m.op = "sub"
    BY <1>7 DEF SubscribeFails
  <2>2. m.chat \notin known[s]
    BY <1>2, <1>3, <2>1 DEF AloneWith
  <2> QED
    BY <1>2, <1>5, <1>7, <2>2, Refused
<1>8. CASE UnsubscribeFails(s)
  <2> DEFINE b == {<<s, chat[q]>>}
  <2>1. /\ GoTo(q, "done")
        /\ history' = [history EXCEPT !.ended = @ \cup EndedBy(s, chat[q]), !.broken = @ \cup b]
    BY <1>2, <1>8 DEF UnsubscribeFails
  <2>2. b \in SUBSET (Replica \X Chat)
    BY <1>3
  <2> HIDE DEF b
  <2>3. \A x \in Request : x \in history'.ended <=> x \in history.ended \/ clients[s][chat[q]] = x
    BY <1>3, <2>1, <2>2, Ended
  <2> QED
    BY <1>4, <2>1, <2>3
<1> QED
  BY <1>6, <1>7, <1>8 DEF Reply

\* Every step leaves those who are alone in their chat alone, or counts them no more.
LEMMA AloneStays ==
  ASSUME TypeOK, Homes, Registered, CommandsFit, AloneFits, [Next]_vars,
         NEW q \in history.alone, q \in history'.alone
  PROVE  Alone(q)'
<1>1. /\ q \in Req /\ q \in Request /\ q \in Anybody /\ Alone(q) /\ chat[q] \in Chat
      /\ chat[q] \in Key /\ pc[q] # "new"
      /\ pc[q] # "done" =>
           /\ home[q] \in Replica /\ Active(q) /\ clients[home[q]][chat[q]] = q
           /\ AloneWith(q, home[q], chat[q])
           /\ \A x \in Request : x # q /\ chat[x] = chat[q] => ~Active(x)
           /\ \A i \in 1..Len(binds[home[q]]) : binds[home[q]][i].chat # chat[q]
  BY AloneIs
<1>2. ASSUME NEW s \in Replica, NEW r \in Req, Predict(r, s) PROVE Alone(q)'
  <2>1. /\ r \in Request /\ r \in Anybody /\ chat[r] \in Chat /\ chat[r] \in Key
        /\ pc[r] = "new" /\ r # q
    BY <1>1, <1>2, Names, Types DEF Predict
  <2>2. StaysPut(q)
    BY <1>1, <1>2, <2>1, Types DEF Predict, GoTo, places, StaysPut, HistoryState
  <2>3. ASSUME pc[q] # "done" PROVE Untouched(q, home[q], chat[q])
    <3>1. chat[r] # chat[q]
      <4>1. q \notin {x \in Request : x # r /\ chat[x] = chat[r] /\ Active(x)}
        BY <1>2, <2>1, Types DEF Predict, HistoryState
      <4> QED
        BY <1>1, <2>1, <2>3, <4>1
    <3>2. \A x \in Request : x # q /\ chat[x] = chat[q] /\ Active(x)' => Active(x)
      <4>1. GoTo(r, "running") \/ GoTo(r, "subscribing")
        BY <1>2 DEF Predict
      <4> QED
        BY <2>1, <3>1, <4>1, OtherChat DEF PlaceName
    <3>3. clients'[home[q]][chat[q]] = clients[home[q]][chat[q]]
      BY <1>1, <1>2, <2>1, <2>3, <3>1, ClientChanged DEF Predict, AddClient
    <3>4. cmds' = cmds \/ QueueKept(home[q], chat[q])
      BY <1>1, <1>2, <2>1, <2>3, <3>1, SentElsewhere DEF Predict
    <3> QED
      BY <1>1, <1>2, <2>3, <3>2, <3>3, <3>4 DEF Predict, Untouched, QueueKept
  <2> QED
    BY <2>2, <2>3, Undisturbed
<1>3. ASSUME NEW r \in Req, Return(r) PROVE Alone(q)'
  <2>1. /\ r \in Request /\ r \in Anybody /\ chat[r] \in Chat /\ home[r] \in Replica /\ Active(r)
    BY <1>3, Names, Types DEF Return, Homes, Active
  <2>2. CASE q # r
    <3>1. StaysPut(q)
      BY <1>1, <1>3, <2>1, <2>2, Types DEF Return, GoTo, StaysPut
    <3>2. ASSUME pc[q] # "done" PROVE Untouched(q, home[q], chat[q])
      <4>1. chat[r] # chat[q]
        BY <1>1, <2>1, <2>2, <3>2
      <4>2. \A x \in Request : x # q /\ chat[x] = chat[q] /\ Active(x)' => Active(x)
        BY <1>3, <2>1, <4>1, OtherChat DEF Return, PlaceName
      <4>3. QueueKept(home[q], chat[q])
        BY <1>1, <1>3, <2>1, <3>2, <4>1, SentElsewhere DEF Return
      <4> QED
        BY <1>1, <1>3, <3>2, <4>2, <4>3 DEF Return, streamer, Untouched
    <3> QED
      BY <3>1, <3>2, Undisturbed
  <2>3. CASE q = r
    <3> DEFINE n == [op |-> "unsub", chat |-> chat[r], who |-> r]
    <3>1. /\ pc[r] = "running" /\ AloneWith(r, home[r], chat[r]) /\ r \notin history.ended
      BY <1>1, <1>3, <2>3 DEF Return, Alone
    <3>2. /\ n \in Command /\ n.chat = chat[r] /\ cmds'[home[r]] = Append(cmds[home[r]], n)
      BY <1>3, <2>1, CommandSent DEF Return
    <3>3. OnlyOne(cmds'[home[r]], n)
      <4>1. NoneFor(cmds[home[r]], n.chat) /\ cmds[home[r]] \in Seq(Command)
        BY <2>1, <3>1, <3>2, Types DEF AloneWith
      <4> HIDE DEF n
      <4> QED
        BY <3>2, <4>1, FirstOne
    <3>4. /\ pc'[r] = "unsubscribing" /\ \A x \in Request : x # r => pc'[x] = pc[x]
      BY <1>3, <2>1, Names, Types DEF Return, GoTo
    <3>5. UNCHANGED <<chat, home, clients, binds, history>>
      BY <1>3 DEF Return, streamer
    <3>6. AloneWith(r, home[r], chat[r])'
      BY <3>1, <3>3, <3>4, <3>5 DEF AloneWith, Active
    <3>7. r \notin history'.ended
      BY <3>1, <3>5
    <3> QED
      BY <2>3, <3>4, <3>6, <3>7 DEF Alone
  <2> QED
    BY <2>2, <2>3
<1>4. ASSUME NEW x \in Request, home[x] \in Replica, Active(x), GoTo(x, "done"), x # q,
             RemoveChat(home[x], chat[x]), UNCHANGED <<chat, home, redis, binds>>,
             history' = [history EXCEPT !.ended = @ \cup EndedBy(home[x], chat[x])]
      PROVE  Alone(q)'
  <2>1. x \in Anybody /\ chat[x] \in Chat /\ chat[x] \in Key
    BY Names, Types
  <2>2. StaysPut(q)
    <3>1. q \in history'.ended <=> q \in history.ended \/ clients[home[x]][chat[x]] = q
      BY <1>1, <1>4, <2>1, EndedOnly
    <3>2. clients[home[x]][chat[x]] = q => pc[q] = "done"
      <4>1. clients[home[x]][chat[x]] = q => chat[q] = chat[x]
        BY <1>1, <1>4, <2>1 DEF Registered
      <4> QED
        BY <1>1, <1>4, <4>1
    <3>3. chat' = chat /\ home' = home /\ pc'[q] = pc[q]
      BY <1>1, <1>4, <2>1, Types DEF GoTo
    <3> QED
      BY <1>1, <3>1, <3>2, <3>3 DEF Alone, StaysPut
  <2>3. ASSUME pc[q] # "done" PROVE Untouched(q, home[q], chat[q])
    <3>1. chat[x] # chat[q]
      BY <1>1, <1>4, <2>3
    <3>2. \A y \in Request : y # q /\ chat[y] = chat[q] /\ Active(y)' => Active(y)
      BY <1>4, <3>1, OtherChat DEF PlaceName
    <3>3. clients'[home[q]][chat[q]] = clients[home[q]][chat[q]]
      BY <1>1, <1>4, <2>1, <2>3, <3>1, ChatRemoved
    <3> QED
      BY <1>4, <2>3, <3>2, <3>3, QueuesAlike DEF redis
  <2> QED
    BY <2>2, <2>3, Undisturbed
<1>5. ASSUME NEW r \in Req, ReturnUnknown(r) PROVE Alone(q)'
  <2>1. r \in Request /\ home[r] \in Replica /\ Active(r)
    BY <1>5, Names, Types DEF ReturnUnknown, Homes, Active, Anybody
  <2>2. q # r
    <3> SUFFICES ASSUME q = r PROVE FALSE
      OBVIOUS
    <3>1. pc[r] = "running" /\ chat[r] \notin known[home[r]]
      BY <1>5 DEF ReturnUnknown
    <3> QED
      BY <1>1, <3>1 DEF AloneWith
  <2> QED
    BY <1>4, <1>5, <2>1, <2>2 DEF ReturnUnknown
<1>6. ASSUME NEW h \in Hook, Finish(h) PROVE Alone(q)'
  <2>1. h \in Request /\ home[h] \in Replica /\ Active(h) /\ h # q
    BY <1>1, <1>6, Names, Types DEF Finish, Homes, Active, Anybody
  <2> QED
    BY <1>4, <1>6, <2>1 DEF Finish
<1>7. ASSUME NEW l \in Listener,
             \/ Heartbeat(l) \/ Close(l) \/ Unregister(l)
             \/ \E s \in Replica : Open(l, s)
      PROVE  Alone(q)'
  <2>1. l \in Anybody /\ l \in Key /\ l # q /\ l # chat[q] /\ l \notin Request
    BY <1>1, Names
  <2>2. StaysPut(q)
    BY <1>1, <1>7, <2>1, Types DEF Heartbeat, Close, Unregister, Open, GoTo, StaysPut
  <2>3. ASSUME pc[q] # "done" PROVE Untouched(q, home[q], chat[q])
    <3>1. \A x \in Request : x # q /\ chat[x] = chat[q] /\ Active(x)' => Active(x)
      BY <1>7, <2>1, Names, Types DEF Heartbeat, Close, Unregister, Open, GoTo, Active
    <3>2. clients'[home[q]][chat[q]] = clients[home[q]][chat[q]]
      <4>1. CASE Heartbeat(l) \/ Unregister(l)
        BY <4>1 DEF Heartbeat, Unregister, streamer
      <4>2. CASE Close(l)
        <5>1. home[l] \in Replica
          BY <2>1, <4>2, Types DEF Close, Homes, Anybody
        <5> QED
          BY <1>1, <2>1, <2>3, <4>2, <5>1, ListenerLeft DEF Close
      <4>3. ASSUME NEW s \in Replica, Open(l, s)
            PROVE  clients'[home[q]][chat[q]] = clients[home[q]][chat[q]]
        BY <1>1, <2>1, <2>3, <4>3, ClientChanged DEF Open, AddClient
      <4> QED
        BY <1>7, <4>1, <4>2, <4>3
    <3>3. UNCHANGED <<known, handlers, cmds, binds>>
      BY <1>7 DEF Heartbeat, Close, Unregister, Open, redis
    <3> QED
      BY <2>3, <3>1, <3>2, <3>3, QueuesAlike
  <2> QED
    BY <2>2, <2>3, Undisturbed
<1>8. ASSUME NEW s \in Replica, NEW h \in Hook, List(h, s) PROVE Alone(q)'
  <2>1. h \in Request /\ h \in Anybody /\ h # q
    BY <1>1, Names
  <2>2. StaysPut(q)
    BY <1>1, <1>8, <2>1, Types DEF List, GoTo, StaysPut, HistoryState
  <2>3. ASSUME pc[q] # "done" PROVE Untouched(q, home[q], chat[q])
    <3>1. chat[q] # chat[h]
      <4>1. chat[q] # chat[h] \/ ~Active(q)
        BY <1>8, Types DEF List, HistoryState
      <4> QED
        BY <1>1, <2>3, <4>1
    <3>2. \A x \in Request : x # q /\ chat[x] = chat[q] /\ Active(x)' => Active(x)
      BY <1>8, <2>1, <3>1, OtherChat DEF List, PlaceName
    <3> QED
      BY <1>8, <2>3, <3>2, QueuesAlike DEF List, streamer, redis
  <2> QED
    BY <2>2, <2>3, Undisturbed
<1>9. ASSUME NEW h \in Hook, NEW l \in Listener, BindHere(h, l) PROVE Alone(q)'
  <2>1. /\ h \in Request /\ h \in Anybody /\ h # q /\ Active(h)
        /\ chat[h] \in Chat /\ home[h] \in Replica
    BY <1>1, <1>9, Names, Types DEF BindHere, Homes, Active
  <2>2. StaysPut(q)
    BY <1>1, <1>9, <2>1, Types DEF BindHere, GoTo, StaysPut
  <2>3. ASSUME pc[q] # "done" PROVE Untouched(q, home[q], chat[q])
    <3>1. chat[h] # chat[q]
      BY <1>1, <2>1, <2>3
    <3>2. \A x \in Request : x # q /\ chat[x] = chat[q] /\ Active(x)' => Active(x)
      <4>1. pc' = pc \/ GoTo(h, "attaching")
        BY <1>9 DEF BindHere
      <4> QED
        BY <2>1, <3>1, <4>1, OtherChat DEF PlaceName
    <3>3. cmds' = cmds \/ QueueKept(home[q], chat[q])
      BY <1>1, <1>9, <2>1, <2>3, <3>1, SentElsewhere DEF BindHere
    <3> QED
      BY <1>1, <1>9, <2>3, <3>2, <3>3 DEF BindHere, Untouched, QueueKept
  <2> QED
    BY <2>2, <2>3, Undisturbed
<1>10. ASSUME NEW h \in Hook, NEW l \in Listener, BindThere(h, l) PROVE Alone(q)'
  <2>1. h \in Request /\ h # q /\ Active(h)
    BY <1>1, <1>10, Names DEF BindThere, Active
  <2>2. StaysPut(q)
    BY <1>10 DEF BindThere, places, StaysPut
  <2>3. ASSUME pc[q] # "done" PROVE Untouched(q, home[q], chat[q])
    <3> DEFINE b == [chat |-> chat[h], listener |-> l]
    <3>1. b \in Bind /\ b.chat # chat[q] /\ binds' = [binds EXCEPT ![home[l]] = Append(@, b)]
      BY <1>1, <1>10, <2>1, <2>3, Types DEF BindThere, Bind
    <3>2. binds[home[q]] \in Seq(Bind)
      BY <1>1, <2>3, Types
    <3> HIDE DEF b
    <3>3. binds'[home[q]] = binds[home[q]] \/ binds'[home[q]] = Append(binds[home[q]], b)
      BY <1>1, <2>3, <3>1, Types
    <3>4. \A i \in 1..Len(binds'[home[q]]) : binds'[home[q]][i].chat # chat[q]
      <4>1. CASE binds'[home[q]] = Append(binds[home[q]], b)
        <5>1. /\ Len(binds'[home[q]]) = Len(binds[home[q]]) + 1 /\ Len(binds[home[q]]) \in Nat
              /\ \A j \in 1..Len(binds[home[q]]) : binds'[home[q]][j] = binds[home[q]][j]
              /\ binds'[home[q]][Len(binds[home[q]]) + 1] = b
          BY <3>1, <3>2, <4>1, Appended
        <5>2. \A i \in 1..Len(binds'[home[q]]) :
                i \in 1..Len(binds[home[q]]) \/ i = Len(binds[home[q]]) + 1
          BY <5>1
        <5> QED
          BY <1>1, <2>3, <3>1, <5>1, <5>2
      <4> QED
        BY <1>1, <2>3, <3>3, <4>1
    <3> QED
      BY <1>10, <3>4 DEF BindThere, places, streamer, redis, Untouched, QueueKept, Active
  <2> QED
    BY <2>2, <2>3, Undisturbed
<1>11. ASSUME NEW s \in Replica, Bound(s) PROVE Alone(q)'
  <2>1. StaysPut(q)
    BY <1>11 DEF Bound, places, StaysPut
  <2>2. ASSUME pc[q] # "done" PROVE Untouched(q, home[q], chat[q])
    <3> DEFINE b == Head(binds[s])
    <3>1. binds[s] \in Seq(Bind) /\ binds[s] # <<>> /\ binds'[s] = Tail(binds[s])
          /\ \A t \in Replica : t # s => binds'[t] = binds[t]
      BY <1>11, Types DEF Bound
    <3>2. /\ Len(binds'[s]) = Len(binds[s]) - 1 /\ Len(binds[s]) \in Nat \ {0}
          /\ \A j \in 1..(Len(binds[s]) - 1) : binds'[s][j] = binds[s][j + 1]
          /\ b \in Bind /\ b = binds[s][1]
      BY <3>1, Popped
    <3>3. \A i \in 1..Len(binds'[home[q]]) : binds'[home[q]][i].chat # chat[q]
      <4>1. \A i \in 1..Len(binds'[s]) : i + 1 \in 1..Len(binds[s]) /\ binds'[s][i] = binds[s][i + 1]
        BY <3>2
      <4>2. CASE home[q] = s
        BY <1>1, <2>2, <4>1, <4>2
      <4>3. CASE home[q] # s
        BY <1>1, <2>2, <3>1, <4>3
      <4> QED
        BY <4>2, <4>3
    <3>4. b.chat \in Chat /\ (home[q] = s => chat[q] # b.chat)
      BY <1>1, <2>2, <3>2 DEF Bind
    <3>5. cmds' = cmds \/ Send(s, "sub", b.chat, None)
      BY <1>11 DEF Bound
    <3> HIDE DEF b
    <3>6. cmds' = cmds \/ QueueKept(home[q], chat[q])
      BY <1>1, <2>2, <3>4, <3>5, SentElsewhere
    <3> QED
      BY <1>11, <3>3, <3>6 DEF Bound, places, Untouched, QueueKept, Active
  <2> QED
    BY <2>1, <2>2, Undisturbed
<1>12. ASSUME NEW h \in Hook, Begin(h) PROVE Alone(q)'
  <2>1. /\ h \in Request /\ h \in Anybody /\ h # q /\ Active(h)
        /\ chat[h] \in Key /\ home[h] \in Replica
    BY <1>1, <1>12, Names, Types DEF Begin, Homes, Active
  <2>2. StaysPut(q)
    BY <1>1, <1>12, <2>1, Types DEF Begin, GoTo, StaysPut
  <2>3. ASSUME pc[q] # "done" PROVE Untouched(q, home[q], chat[q])
    <3>1. chat[h] # chat[q]
      BY <1>1, <2>1, <2>3
    <3>2. \A x \in Request : x # q /\ chat[x] = chat[q] /\ Active(x)' => Active(x)
      BY <1>12, <2>1, <3>1, OtherChat DEF Begin, PlaceName
    <3>3. clients'[home[q]][chat[q]] = clients[home[q]][chat[q]]
      <4>1. clients' = clients \/ AddClient(home[h], chat[h], h)
        BY <1>12 DEF Begin
      <4> QED
        BY <1>1, <2>1, <2>3, <3>1, <4>1, ClientChanged DEF AddClient
    <3> QED
      BY <1>12, <2>3, <3>2, <3>3, QueuesAlike DEF Begin, redis
  <2> QED
    BY <2>2, <2>3, Undisturbed
<1>13. ASSUME NEW s \in Replica, Reply(s) PROVE Alone(q)'
  BY <1>13, OthersReplied, OwnReplied
<1>14. ASSUME NEW s \in Replica, NEW c \in Chat, Cleanup(s, c) PROVE Alone(q)'
  <2>1. StaysPut(q)
    BY <1>14 DEF Cleanup, places, StaysPut
  <2>2. ASSUME pc[q] # "done" PROVE Untouched(q, home[q], chat[q])
    <3>1. home[q] # s \/ chat[q] # c
      BY <1>1, <1>14, <2>2, Names DEF Cleanup, HasClientOrObserver
    <3>2. QueueKept(home[q], chat[q])
      BY <1>1, <1>14, <2>2, <3>1, SentElsewhere DEF Cleanup
    <3> QED
      BY <1>1, <1>14, <2>2, <3>2 DEF Cleanup, places, streamer, Untouched, Active
  <2> QED
    BY <2>1, <2>2, Undisturbed
<1>15. CASE UNCHANGED vars \/ \E s \in Replica, c \in Chat : Event(s, c)
  <2>1. UNCHANGED <<chat, home, pc, clients, known, handlers, cmds, binds, history>>
    BY <1>15 DEF Event, vars, places, streamer, redis
  <2> QED
    BY <1>1, <2>1 DEF Alone, AloneWith, Active
<1>16. ASSUME NEW h \in Hook, Reject(h) PROVE Alone(q)'
  <2>1. h \in Request /\ h \in Anybody /\ h # q /\ Active(h)
    BY <1>1, <1>16, Names DEF Reject, Active
  <2>2. StaysPut(q)
    BY <1>1, <1>16, <2>1, Types DEF Reject, GoTo, StaysPut
  <2>3. ASSUME pc[q] # "done" PROVE Untouched(q, home[q], chat[q])
    <3>1. chat[h] # chat[q]
      BY <1>1, <2>1, <2>3
    <3>2. \A x \in Request : x # q /\ chat[x] = chat[q] /\ Active(x)' => Active(x)
      BY <1>16, <2>1, <3>1, OtherChat DEF Reject, PlaceName
    <3> QED
      BY <1>16, <2>3, <3>2, QueuesAlike DEF Reject, streamer, redis
  <2> QED
    BY <2>2, <2>3, Undisturbed
<1> QED
  BY <1>2, <1>3, <1>5, <1>6, <1>7, <1>8, <1>9, <1>10, <1>11, <1>12, <1>13, <1>14, <1>15, <1>16
     DEF Next, StepOf, Call

\* A prediction that met nobody and nothing of its chat begins alone.
LEMMA AloneBegins ==
  ASSUME TypeOK, Homes, Registered, ChannelsFit, AloneFits,
         NEW s \in Replica, NEW r \in Req, Predict(r, s), r \in history'.alone
  PROVE  Alone(r)'
<1> DEFINE others == {x \in Request : x # r /\ chat[x] = chat[r] /\ Active(x)}
           quiet == /\ others = {} /\ ~UnderWay(s, chat[r]) /\ handlers[s][chat[r]] <= 1
                    /\ \A b \in Elements(binds[s]) : b.chat # chat[r]
                    /\ <<s, chat[r]>> \notin history.broken
<1>1. r \in Request /\ r \in Anybody /\ chat[r] \in Chat /\ chat[r] \in Key /\ pc[r] = "new"
  BY Names, Types DEF Predict
<1>2. r \notin history.alone
  BY <1>1, AloneIs
<1>3. quiet
  BY <1>2, Types DEF Predict, HistoryState
<1>4. r \notin history.ended /\ history'.ended = history.ended
  BY <1>1, Types DEF Predict, Registered, HistoryState
<1>5. /\ pc'[r] \in {"running", "subscribing"}
      /\ \A x \in Request : x # r => pc'[x] = pc[x]
      /\ pc'[r] = "running" <=> chat[r] \in known[s]
  BY <1>1, Names, Types DEF Predict, GoTo
<1>6. home'[r] = s /\ UNCHANGED <<chat, binds, known, handlers>>
  BY <1>1, Types DEF Predict
<1>7. clients'[s][chat[r]] = r
  BY <1>1, ClientChanged DEF Predict, AddClient
<1>8. cmds[s] \in Seq(Command) /\ binds[s] \in Seq(Bind) /\ handlers[s][chat[r]] \in Nat
  BY <1>1, Types
<1>9. /\ NoneFor(cmds[s], chat[r])
      /\ \A i \in 1..Len(binds[s]) : binds[s][i].chat # chat[r]
      /\ \A x \in Request : x # r /\ chat[x] = chat[r] => ~Active(x)
  BY <1>3, <1>8 DEF NoneFor, UnderWay, Elements
<1>10. /\ chat[r] \in known[s] => handlers[s][chat[r]] = 1
       /\ chat[r] \notin known[s] => handlers[s][chat[r]] = 0
  BY <1>1, <1>3, <1>8 DEF ChannelsFit
<1> HIDE DEF others, quiet
<1>11. AloneWith(r, s, chat[r])'
  <2>1. CASE chat[r] \in known[s]
    <3>1. cmds' = cmds
      BY <2>1 DEF Predict
    <3> QED
      BY <1>5, <1>6, <1>7, <1>9, <1>10, <2>1, <3>1 DEF AloneWith, Active
  <2>2. CASE chat[r] \notin known[s]
    <3> DEFINE n == [op |-> "sub", chat |-> chat[r], who |-> r]
    <3>1. n \in Command /\ n.chat = chat[r] /\ cmds'[s] = Append(cmds[s], n)
      BY <1>1, <2>2, CommandSent DEF Predict
    <3>2. OnlyOne(cmds'[s], n)
      <4> HIDE DEF n
      <4> QED
        BY <1>8, <1>9, <3>1, FirstOne
    <3> QED
      BY <1>5, <1>6, <1>7, <1>9, <1>10, <2>2, <3>2 DEF AloneWith, Active
  <2> QED
    BY <2>1, <2>2
<1> QED
  BY <1>4, <1>5, <1>6, <1>11 DEF Alone

\* So those who are alone stay fit.
LEMMA AloneNext ==
  ASSUME TypeOK, Homes, Registered, CommandsFit, ChannelsFit, AloneFits, [Next]_vars
  PROVE  AloneFits'
<1> SUFFICES ASSUME NEW q \in history'.alone PROVE Alone(q)'
  BY DEF AloneFits
<1>1. CASE q \in history.alone
  BY <1>1, AloneStays
<1>2. CASE q \notin history.alone
  <2>1. PICK s \in Replica, r \in Req : Predict(r, s) /\ q = r
    <3>1. \E s \in Replica, r \in Req : Predict(r, s)
      <4> SUFFICES ASSUME ~\E s \in Replica, r \in Req : Predict(r, s) PROVE FALSE
        OBVIOUS
      <4>1. ASSUME NEW s \in Replica, Reply(s) PROVE history'.alone = history.alone
        BY <4>1, ReplyTouches
      <4>2. ASSUME NEW x \in Request, home[x] \in Replica, RemoveChat(home[x], chat[x]),
                   history' = [history EXCEPT !.ended = @ \cup EndedBy(home[x], chat[x])]
            PROVE  history'.alone = history.alone
        BY <4>2, Types, EndedOnly
      <4>3. ASSUME NEW h \in Hook, NEW s \in Replica, List(h, s)
            PROVE  history'.alone \subseteq history.alone
        BY <4>3, Types DEF List, HistoryState
      <4>4. ASSUME NEW r \in Req, ReturnUnknown(r) PROVE history'.alone = history.alone
        BY <4>2, <4>4, Names, Types DEF ReturnUnknown, Homes, Anybody
      <4>5. ASSUME NEW h \in Hook, Finish(h) PROVE history'.alone = history.alone
        BY <4>2, <4>5, Names, Types DEF Finish, Homes, Anybody
      <4>6. \/ history' = history
            \/ \E s \in Replica : Reply(s) \/ \E h \in Hook : List(h, s)
            \/ \E r \in Req : ReturnUnknown(r)
            \/ \E h \in Hook : Finish(h)
        BY DEF Next, StepOf, Call, vars, Return, Open, Heartbeat, Close, Unregister, BindHere,
               BindThere, Bound, Begin, Reject, Event, Cleanup
      <4> QED
        BY <1>2, <4>1, <4>3, <4>4, <4>5, <4>6
    <3>2. PICK s \in Replica, r \in Req : Predict(r, s)
      BY <3>1
    <3>3. history'.alone \subseteq history.alone \cup {r}
      BY <3>2, Types DEF Predict, HistoryState
    <3> QED
      BY <1>2, <3>2, <3>3
  <2> QED
    BY <2>1, AloneBegins
<1> QED
  BY <1>1, <1>2

-----------------------------------------------------------------------------
(* The theorems.                                                           *)

\* At the start there is nobody and nothing.
LEMMA InitHolds == Init => IInv
<1> SUFFICES ASSUME Init PROVE IInv
  OBVIOUS
<1>1. history \in HistoryState /\ history.alone = {} /\ history.ended = {}
  BY DEF Init, HistoryState
<1>2. TypeOK
  <2>1. <<>> \in Seq(Command) /\ <<>> \in Seq(Bind) /\ "new" \in PlaceName /\ 0 \in 0..MaxErrors
    BY StreamsAssumption DEF PlaceName
  <2> QED
    BY <1>1, <2>1, Types DEF Init, Anybody
<1>3. \A s \in Replica : Len(cmds[s]) = 0 /\ Len(binds[s]) = 0
  BY DEF Init
<1>4. Homes
  BY DEF Init, Homes
<1>5. Registered
  BY <1>1, Names DEF Init, Registered
<1>6. CommandsFit /\ BindsFit
  BY <1>3 DEF CommandsFit, BindsFit
<1>7. ChannelsFit /\ PanelsAreToldHere
  BY DEF Init, ChannelsFit, PanelsAreToldHere
<1>8. AloneFits
  BY <1>1 DEF AloneFits
<1> QED
  BY <1>2, <1>4, <1>5, <1>6, <1>7, <1>8 DEF IInv

\* The invariant is inductive.
LEMMA StepHolds == IInv /\ [Next]_vars => IInv'
<1> SUFFICES ASSUME IInv, [Next]_vars PROVE IInv'
  OBVIOUS
<1>1. /\ TypeOK /\ Homes /\ Registered /\ CommandsFit /\ ChannelsFit /\ BindsFit
      /\ PanelsAreToldHere /\ AloneFits
  BY DEF IInv
<1>2. TypeOK' /\ Homes' /\ Registered' /\ CommandsFit'
  BY <1>1, TypeNext, HomesNext, RegisteredNext, CommandsNext
<1>3. ChannelsFit' /\ BindsFit' /\ PanelsAreToldHere'
  BY <1>1, ChannelsNext, BindsNext, PanelsNext
<1>4. AloneFits'
  BY <1>1, AloneNext
<1> QED
  BY <1>2, <1>3, <1>4 DEF IInv

\* It holds in every state.
LEMMA Always == Spec => []IInv
BY InitHolds, StepHolds, PTL DEF Spec

\* Whatever is subscribed, bound, answered, refused, ended or cleaned up, connections,
\* channels, commands and messages keep their types.
THEOREM TypeCorrect == Spec => []TypeOK
<1>1. IInv => TypeOK
  BY DEF IInv
<1> QED
  BY <1>1, Always, PTL

\* With any number of replicas, chats and refused commands, a prediction whose chat nobody
\* else uses has one handler and its own response (addClient, subscribe).
THEOREM HeardOnce == Spec => []AloneIsHeardOnce
<1>1. IInv => AloneIsHeardOnce
  BY DEF IInv, AloneFits, Alone, AloneWith, AloneIsHeardOnce
<1> QED
  BY <1>1, Always, PTL

\* Such a prediction's response is ended when it is done and not before, also when Redis
\* refuses a command (the finally blocks of controllers/predictions).
THEOREM EndedWhenDone == Spec => []AloneIsEnded
<1>1. IInv => AloneIsEnded
  BY DEF IInv, AloneFits, Alone, AloneIsEnded
<1> QED
  BY <1>1, Always, PTL

\* A panel on the replica that took the calls of a chat does not observe the chat any more
\* when their flows are over; calls that were rejected before their flow are excepted
\* (bindExecution, removeClient).
THEOREM PanelsTold == Spec => []PanelsAreToldHere
<1>1. IInv => PanelsAreToldHere
  BY DEF IInv
<1> QED
  BY <1>1, Always, PTL
=============================================================================
