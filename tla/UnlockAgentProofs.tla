------------------------- MODULE UnlockAgentProofs -------------------------
(***************************************************************************)
(* Proofs about UnlockAgent, for any number of agents, clients, starts and *)
(* commands.                                                               *)
(***************************************************************************)
EXTENDS UnlockAgent, FiniteSetTheorems, TLAPS

\* Where a client can be, by its command.
Placed(s) ==
    \/ s.op = "none"    /\ s.at = "idle"
    \/ s.op = "open"    /\ s.at \in {"GET", "tryKey", "ask", "verify", "STATUS", "derive",
                                      "PUT", "done", "wrong"}
    \/ s.op = "unlock"  /\ s.at \in {"STATUS", "ask", "verify", "derive", "PUT", "done",
                                      "wrong", "failed"}
    \/ s.op = "lock"    /\ s.at \in {"DROP", "done", "failed"}
    \/ s.op = "stop"    /\ s.at \in {"STOP", "done", "failed"}
    \/ s.op = "restore" /\ s.at \in {"swap", "STATUS", "DROP", "done"}

\* What a client carries: a passphrase from the prompt on, a key at the PUT, and
\* no key in a reply that is not an OK.
Carries(s) ==
    /\ s.at \in {"verify", "derive"} => s.pass # {}
    /\ s.op = "open" /\ s.at = "STATUS" => s.pass # {}
    /\ s.at = "PUT" => s.key # NoKey
    /\ s.reply.tag # "OK" => s.reply.key = NoKey

ClientInv == \A c \in Client : Placed(client[c]) /\ Carries(client[c])

\* A connection belongs to a client that waits for its answer, and what was
\* written on it is the call the client is at.
QueueInv ==
    \A a \in Agent : \A i \in DOMAIN queue[a] :
        LET conn == queue[a][i] IN
        conn.from \in Client =>
            /\ Calling(conn.from) /\ ~Answered(conn.from)
            /\ conn.req # NoReq => conn.req.verb = client[conn.from].at

\* A client has one connection at most.
OneConn ==
    \A a, b \in Agent : \A i \in DOMAIN queue[a], j \in DOMAIN queue[b] :
        queue[a][i].from = queue[b][j].from /\ queue[a][i].from \in Client
            => a = b /\ i = j

IInv == TypeOK /\ IsFiniteSet(past) /\ ClientInv /\ QueueInv /\ OneConn

NotConnected(c) == \A a \in Agent : \A i \in DOMAIN queue[a] : queue[a][i].from # c

-----------------------------------------------------------------------------
(* The initial states. *)

LEMMA InitIInv == Init => IInv
<1> SUFFICES ASSUME Init PROVE IInv
  OBVIOUS
<1> USE AgentAssumption
<1>1. vault \in Key
  BY DEF Init, Key
<1>2. IdleClient \in ClientState
  BY DEF IdleClient, ClientState, Place, CallAt, Reply
<1>3. <<>> \in Seq(Conn) /\ Nothing \in Cached
  BY DEF Nothing, Cached
<1>4. TypeOK
  BY <1>1, <1>2, <1>3 DEF TypeOK, Init
<1>5. IsFiniteSet(past)
  BY FS_Singleton DEF Init
<1>6. ClientInv
  BY DEF Init, ClientInv, IdleClient, Placed, Carries
<1>7. QueueInv /\ OneConn
  BY DEF Init, QueueInv, OneConn
<1>8. QED
  BY <1>4, <1>5, <1>6, <1>7 DEF IInv

-----------------------------------------------------------------------------
(* Helpers. *)

LEMMA QueueType ==
  ASSUME TypeOK, NEW a \in Agent
  PROVE  /\ queue[a] \in Seq(Conn)
         /\ Len(queue[a]) \in Nat
         /\ DOMAIN queue[a] = 1 .. Len(queue[a])
         /\ \A i \in DOMAIN queue[a] : queue[a][i] \in Conn
BY DEF TypeOK

LEMMA ConnectedMeans ==
  ASSUME NEW c \in Client
  PROVE  Connected(c) <=> ~NotConnected(c)
<1> DEFINE On(a) == {queue[a][i] : i \in {j \in DOMAIN queue[a] : queue[a][j].from = c}}
<1>1. ConnsOf(c) = UNION {On(a) : a \in Agent}
  BY DEF ConnsOf
<1>2. \A conn : conn \in ConnsOf(c) <=> \E a \in Agent : conn \in On(a)
  <2> HIDE DEF On
  <2> QED
    BY <1>1
<1>3. \A a \in Agent : \A conn :
         conn \in On(a) <=> \E i \in DOMAIN queue[a] : queue[a][i].from = c /\ conn = queue[a][i]
  OBVIOUS
<1> HIDE DEF On
<1>4. QED
  BY <1>2, <1>3 DEF Connected, NotConnected

\* A client that does not wait for an answer has no connection.
LEMMA NotWaiting ==
  ASSUME QueueInv, NEW c \in Client, ~Calling(c) \/ Answered(c)
  PROVE  NotConnected(c)
BY DEF QueueInv, NotConnected

\* Only c changes, and it has no connection.
LEMMA QueueKept ==
  ASSUME TypeOK, QueueInv, OneConn, NEW c \in Client, NotConnected(c), UNCHANGED queue,
         \A d \in Client \ {c} : client'[d] = client[d]
  PROVE  QueueInv' /\ OneConn'
BY DEF QueueInv, OneConn, NotConnected, Calling, Answered

\* Nothing that a client waits for changes.
LEMMA QueueSame ==
  ASSUME QueueInv, OneConn, UNCHANGED <<queue, client>>
  PROVE  QueueInv' /\ OneConn'
BY DEF QueueInv, OneConn, Calling, Answered

LEMMA ClientSame ==
  ASSUME ClientInv, UNCHANGED client
  PROVE  ClientInv'
BY DEF ClientInv

\* A client that closed its end is at no end of a connection.
LEMMA HangUpQueue ==
  ASSUME TypeOK, QueueInv, OneConn, NEW c \in Client, HangUp(c),
         \A d \in Client \ {c} : client'[d] = client[d]
  PROVE  queue' \in [Agent -> Seq(Conn)] /\ QueueInv' /\ OneConn'
<1> USE AgentAssumption
<1>1. ASSUME NEW a \in Agent
      PROVE  /\ queue'[a] \in Seq(Conn)
             /\ DOMAIN queue'[a] = DOMAIN queue[a]
             /\ \A i \in DOMAIN queue[a] :
                   queue'[a][i] = queue[a][i] \/ queue'[a][i].from = Gone
             /\ \A i \in DOMAIN queue[a] : queue'[a][i].from # c
  <2> DEFINE g(i) == IF queue[a][i].from = c THEN [queue[a][i] EXCEPT !.from = Gone]
                                             ELSE queue[a][i]
  <2>1. queue'[a] = [i \in 1 .. Len(queue[a]) |-> g(i)]
    BY QueueType DEF HangUp
  <2>2. \A i \in 1 .. Len(queue[a]) :
           g(i) \in Conn /\ (g(i) = queue[a][i] \/ g(i).from = Gone) /\ g(i).from # c
    BY QueueType DEF Conn
  <2>3. Len(queue[a]) \in Nat /\ DOMAIN queue[a] = 1 .. Len(queue[a])
    BY QueueType
  <2> HIDE DEF g
  <2>4. QED
    BY <2>1, <2>2, <2>3
<1>2. queue' \in [Agent -> Seq(Conn)]
  <2>1. queue' = [a \in Agent |-> queue'[a]]
    BY DEF HangUp
  <2>2. QED
    BY <2>1, <1>1
<1>3. QueueInv'
  BY <1>1 DEF QueueInv, Calling, Answered
<1>4. OneConn'
  BY <1>1 DEF OneConn
<1>5. QED
  BY <1>2, <1>3, <1>4

-----------------------------------------------------------------------------
(* Steps of the agents. *)

\* Steps that leave the connections and the clients alone.
LEMMA QuietStep ==
  ASSUME IInv, TypeOK', UNCHANGED <<queue, client, past>>
  PROVE  IInv'
BY ClientSame, QueueSame DEF IInv

LEMMA StartStep ==
  ASSUME IInv, NEW a \in Agent, Start(a) \/ Unlink(a) \/ Bind(a) \/ Listen(a) \/ Expire(a)
  PROVE  IInv'
<1> USE AgentAssumption
<1>1. TypeOK'
  <2>1. CASE Start(a)
    BY <2>1 DEF IInv, TypeOK, Start, Goto, ToVault
  <2>2. CASE Unlink(a)
    BY <2>2 DEF IInv, TypeOK, Unlink, Goto, ToVault
  <2>3. CASE Bind(a)
    BY <2>3 DEF IInv, TypeOK, Bind, Goto, ToVault
  <2>4. CASE Listen(a)
    BY <2>4 DEF IInv, TypeOK, Listen, Goto, ToVault
  <2>5. CASE Expire(a)
    BY <2>5 DEF IInv, TypeOK, Expire, Cached, ToVault
  <2>6. QED
    BY <2>1, <2>2, <2>3, <2>4, <2>5
<1>2. UNCHANGED <<queue, client, past>>
  BY DEF Start, Unlink, Bind, Listen, Expire, ToVault
<1>3. QED
  BY <1>1, <1>2, QuietStep

\* A connection is added, and whose it is has no other.
LEMMA Appended ==
  ASSUME IInv, UNCHANGED client, NEW b \in Agent,
         NEW from \in Client \cup {Gone},
         from \in Client => Calling(from) /\ ~Answered(from) /\ NotConnected(from),
         queue' = [queue EXCEPT ![b] = Append(@, [from |-> from, req |-> NoReq])]
  PROVE  queue' \in [Agent -> Seq(Conn)] /\ ClientInv' /\ QueueInv' /\ OneConn'
<1> USE AgentAssumption DEF IInv
<1> DEFINE new == [from |-> from, req |-> NoReq]
<1>1. new \in Conn
  BY DEF Conn
<1>2. \A a \in Agent : queue[a] \in Seq(Conn) /\ Len(queue[a]) \in Nat
                       /\ DOMAIN queue[a] = 1 .. Len(queue[a])
  BY QueueType
<1>3. queue' \in [Agent -> Seq(Conn)]
  BY <1>1 DEF TypeOK
<1>4. \A a \in Agent \ {b} : queue'[a] = queue[a]
  BY DEF TypeOK
<1>5. queue'[b] = Append(queue[b], new)
  BY DEF TypeOK
<1>6. /\ new.from = from /\ new.req = NoReq
  OBVIOUS
<1> HIDE DEF new
<1>7. /\ DOMAIN queue'[b] = 1 .. Len(queue[b]) + 1
      /\ \A i \in 1 .. Len(queue[b]) : queue'[b][i] = queue[b][i]
      /\ queue'[b][Len(queue[b]) + 1] = new
  BY <1>1, <1>2, <1>5
<1>8. \A a \in Agent : \A i \in DOMAIN queue'[a] :
         \/ i \in DOMAIN queue[a] /\ queue'[a][i] = queue[a][i]
         \/ a = b /\ i = Len(queue[b]) + 1 /\ queue'[a][i] = new
  BY <1>2, <1>4, <1>7
<1>9. ClientInv'
  BY ClientSame
<1>10. QueueInv'
  BY <1>6, <1>8 DEF QueueInv, Calling, Answered
<1>11. OneConn'
  BY <1>6, <1>8 DEF OneConn, NotConnected
<1>12. QED
  BY <1>3, <1>9, <1>10, <1>11

LEMMA ProbeStep ==
  ASSUME IInv, NEW a \in Agent, Probe(a)
  PROVE  IInv'
<1> USE AgentAssumption
<1> DEFINE live == path # NoSocket /\ Accepts(path)
<1>1. queue' \in [Agent -> Seq(Conn)] /\ ClientInv' /\ QueueInv' /\ OneConn'
  <2>1. CASE live
    <3>1. path \in Agent
      BY <2>1 DEF IInv, TypeOK
    <3>2. queue' = [queue EXCEPT ![path] = Append(@, [from |-> Gone, req |-> NoReq])]
      BY <2>1 DEF Probe
    <3>3. UNCHANGED client
      BY DEF Probe
    <3>4. QED
      BY <3>1, <3>2, <3>3, Appended
  <2>2. CASE ~live
    <3>1. UNCHANGED <<queue, client>>
      BY <2>2 DEF Probe
    <3>2. QED
      BY <3>1, ClientSame, QueueSame DEF IInv, TypeOK
  <2>3. QED
    BY <2>1, <2>2
<1>2. TypeOK'
  <2>1. at' \in [Agent -> {"off", "refused", "probe", "unlink", "bind", "listen",
                          "serve", "stopping"}]
    BY DEF IInv, TypeOK, Probe, Goto
  <2>2. QED
    BY <1>1, <2>1 DEF IInv, TypeOK, Probe, ToVault
<1>3. QED
  BY <1>1, <1>2 DEF IInv, Probe, ToVault

\* The first connection of agent a is done with: what is left of its queue.
LEMMA TailQueue ==
  ASSUME TypeOK, NEW a \in Agent, queue[a] # <<>>, queue' = [queue EXCEPT ![a] = Tail(@)]
  PROVE  /\ queue' \in [Agent -> Seq(Conn)]
         /\ 1 \in DOMAIN queue[a] /\ Head(queue[a]) = queue[a][1]
         /\ \A b \in Agent : \A i \in DOMAIN queue'[b] :
               LET k == IF b = a THEN i + 1 ELSE i
               IN  k \in DOMAIN queue[b] /\ queue'[b][i] = queue[b][k]
<1>1. /\ queue[a] \in Seq(Conn) /\ Len(queue[a]) \in Nat
      /\ DOMAIN queue[a] = 1 .. Len(queue[a])
  BY QueueType
<1>2. queue'[a] = Tail(queue[a]) /\ \A b \in Agent \ {a} : queue'[b] = queue[b]
  BY DEF TypeOK
<1>3. /\ Tail(queue[a]) \in Seq(Conn)
      /\ DOMAIN Tail(queue[a]) = 1 .. Len(queue[a]) - 1
      /\ \A i \in 1 .. Len(queue[a]) - 1 : Tail(queue[a])[i] = queue[a][i + 1]
  BY <1>1
<1>4. queue' \in [Agent -> Seq(Conn)]
  BY <1>3 DEF TypeOK
<1>5. 1 \in DOMAIN queue[a] /\ Head(queue[a]) = queue[a][1]
  BY <1>1
<1>6. QED
  BY <1>1, <1>2, <1>3, <1>4, <1>5

LEMMA KeptType ==
  ASSUME TypeOK, NEW a \in Agent, NEW req \in Request
  PROVE  /\ Kept(a, req) \in Cached /\ Answer(a, req) \in Reply
         /\ Answer(a, req).tag # "OK" => Answer(a, req).key = NoKey
<1>1. Reaped(a) \in Cached
  BY DEF TypeOK, Reaped, Nothing, Cached
<1>2. CASE req.verb = "PUT"
  BY <1>2, AgentAssumption DEF Kept, Answer, Request, Cached, Reply
<1>3. CASE req.verb # "PUT"
  BY <1>1, <1>3 DEF Kept, Answer, Request, Verb, Cached, Reply, Nothing
<1>4. QED
  BY <1>2, <1>3

LEMMA HandleStep ==
  ASSUME IInv, NEW a \in Agent, Handle(a)
  PROVE  IInv'
<1> USE AgentAssumption DEF IInv
<1> DEFINE conn == Head(queue[a])
<1>1. /\ queue' \in [Agent -> Seq(Conn)]
      /\ 1 \in DOMAIN queue[a] /\ conn = queue[a][1]
      /\ \A b \in Agent : \A i \in DOMAIN queue'[b] :
            LET k == IF b = a THEN i + 1 ELSE i
            IN  k \in DOMAIN queue[b] /\ queue'[b][i] = queue[b][k]
  BY TailQueue DEF Handle
<1>2. conn \in Conn
  BY <1>1, QueueType
<1>3. \A b \in Agent : \A i \in DOMAIN queue[b] : b # a \/ i # 1 =>
         queue[b][i].from # conn.from \/ conn.from \notin Client
  BY <1>1 DEF OneConn
<1> HIDE DEF conn
<1>4. \A b \in Agent : \A i \in DOMAIN queue[b] : i \in Nat /\ i >= 1
  BY QueueType
<1>5. \A b \in Agent : \A i \in DOMAIN queue'[b] : \E k \in DOMAIN queue[b] :
         queue'[b][i] = queue[b][k] /\ (b # a \/ k # 1)
  BY <1>1, <1>4
<1>6. OneConn'
  <2>1. \A b \in Agent : \A i \in DOMAIN queue'[b] : i \in Int
    BY <1>1, QueueType
  <2>2. SUFFICES ASSUME NEW b \in Agent, NEW c \in Agent,
                        NEW i \in DOMAIN queue'[b], NEW j \in DOMAIN queue'[c],
                        queue'[b][i].from = queue'[c][j].from, queue'[b][i].from \in Client
                 PROVE  b = c /\ i = j
    BY DEF OneConn
  <2> DEFINE k == IF b = a THEN i + 1 ELSE i
             l == IF c = a THEN j + 1 ELSE j
  <2>3. /\ k \in DOMAIN queue[b] /\ queue'[b][i] = queue[b][k]
        /\ l \in DOMAIN queue[c] /\ queue'[c][j] = queue[c][l]
    BY <1>1
  <2> HIDE DEF k, l
  <2>4. b = c /\ k = l
    BY <2>2, <2>3 DEF OneConn
  <2>5. QED
    BY <2>1, <2>4 DEF k, l
<1>7. CASE UNCHANGED <<cache, client, at>>
  <2>1. QueueInv'
    BY <1>5, <1>7 DEF QueueInv, Calling, Answered
  <2>2. QED
    BY <1>1, <1>6, <1>7, <2>1, ClientSame DEF Handle, TypeOK, ToVault
<1>8. CASE /\ conn.req # NoReq
           /\ cache' = [cache EXCEPT ![a] = Kept(a, conn.req)]
           /\ IF conn.from = Gone THEN UNCHANGED <<client, at>>
              ELSE /\ client' = [client EXCEPT ![conn.from].reply = Answer(a, conn.req)]
                   /\ IF conn.req.verb = "STOP" THEN Goto(a, "stopping") ELSE UNCHANGED at
  <2>1. conn.req \in Request
    BY <1>2, <1>8 DEF Conn
  <2>2. /\ Kept(a, conn.req) \in Cached /\ Answer(a, conn.req) \in Reply
        /\ Answer(a, conn.req).tag # "OK" => Answer(a, conn.req).key = NoKey
    BY <2>1, KeptType
  <2>3. cache' \in [Agent -> Cached]
    BY <1>8, <2>2 DEF TypeOK
  <2>4. at' \in [Agent -> {"off", "refused", "probe", "unlink", "bind", "listen",
                          "serve", "stopping"}]
    BY <1>8 DEF TypeOK, Goto
  <2>5. \A d \in Client : d # conn.from => client'[d] = client[d]
    BY <1>8 DEF TypeOK
  <2>6. client' \in [Client -> ClientState] /\ ClientInv'
    <3>1. CASE conn.from = Gone
      BY <1>8, <3>1, ClientSame DEF TypeOK
    <3>2. CASE conn.from \in Client
      <4>1. client' = [client EXCEPT ![conn.from].reply = Answer(a, conn.req)]
        BY <1>8, <3>2
      <4>2. client' \in [Client -> ClientState]
        <5> DEFINE s == [client[conn.from] EXCEPT !.reply = Answer(a, conn.req)]
        <5>1. client[conn.from] \in ClientState
          BY <3>2 DEF TypeOK
        <5>2. s \in ClientState
          BY <2>2, <5>1 DEF ClientState
        <5>3. client' = [client EXCEPT ![conn.from] = s]
          BY <4>1
        <5> HIDE DEF s
        <5>4. QED
          BY <5>2, <5>3 DEF TypeOK
      <4>3. /\ client'[conn.from].at = client[conn.from].at
            /\ client'[conn.from].op = client[conn.from].op
            /\ client'[conn.from].pass = client[conn.from].pass
            /\ client'[conn.from].key = client[conn.from].key
            /\ client'[conn.from].reply = Answer(a, conn.req)
        BY <3>2, <4>1 DEF TypeOK, ClientState
      <4>4. ClientInv'
        BY <2>2, <2>5, <4>3 DEF ClientInv, Placed, Carries
      <4>5. QED
        BY <4>2, <4>4
    <3>3. QED
      BY <1>2, <3>1, <3>2 DEF Conn
  <2>7. QueueInv'
    BY <1>3, <1>5, <2>5 DEF QueueInv, Calling, Answered
  <2>8. QED
    BY <1>1, <1>6, <2>3, <2>4, <2>6, <2>7 DEF Handle, TypeOK, ToVault
<1>9. QED
  BY <1>7, <1>8 DEF Handle, conn

\* An agent is gone: who waits for it is told, and has no connection any more.
LEMMA BrokenStep ==
  ASSUME IInv, NEW a \in Agent, Broken(a)
  PROVE  /\ queue' \in [Agent -> Seq(Conn)] /\ client' \in [Client -> ClientState]
         /\ ClientInv' /\ QueueInv' /\ OneConn'
<1> USE DEF IInv
<1> DEFINE waits(c) == \E i \in DOMAIN queue[a] : queue[a][i].from = c
<1>1. queue' = [queue EXCEPT ![a] = <<>>]
  BY DEF Broken
<1>2. queue'[a] = <<>> /\ \A b \in Agent \ {a} : queue'[b] = queue[b]
  BY <1>1 DEF TypeOK
<1>3. queue' \in [Agent -> Seq(Conn)]
  BY <1>1 DEF TypeOK
<1>4. PICK r \in [Client -> {x \in Reply : x.key = NoKey}] :
         client' = [c \in Client |-> IF waits(c) THEN [client[c] EXCEPT !.reply = r[c]]
                                                ELSE client[c]]
  <2>1. PICK tag \in {"eof", "error"} :
           client' = [c \in Client |->
              IF waits(c)
              THEN [client[c] EXCEPT !.reply =
                       [tag |-> IF queue[a][1].from = c /\ queue[a][1].req # NoReq
                                THEN tag ELSE "error",
                        key |-> NoKey]]
              ELSE client[c]]
    BY DEF Broken
  <2> DEFINE r == [c \in Client |->
                      [tag |-> IF queue[a][1].from = c /\ queue[a][1].req # NoReq
                               THEN tag ELSE "error",
                       key |-> NoKey]]
  <2>2. r \in [Client -> {x \in Reply : x.key = NoKey}]
    BY DEF Reply
  <2> HIDE DEF waits
  <2>3. client' = [c \in Client |-> IF waits(c) THEN [client[c] EXCEPT !.reply = r[c]]
                                                ELSE client[c]]
    BY <2>1
  <2> HIDE DEF r
  <2>4. QED
    BY <2>2, <2>3
<1>5. \A c \in Client : ~waits(c) => client'[c] = client[c]
  BY <1>4
<1> HIDE DEF waits
<1>6. \A c \in Client : /\ client'[c] \in ClientState
                        /\ client'[c].at = client[c].at /\ client'[c].op = client[c].op
                        /\ client'[c].pass = client[c].pass /\ client'[c].key = client[c].key
                        /\ client'[c].reply = client[c].reply \/ client'[c].reply.key = NoKey
  BY <1>4 DEF TypeOK, ClientState
<1>7. client' \in [Client -> ClientState]
  <2>1. client' = [c \in Client |-> client'[c]]
    BY <1>4
  <2>2. QED
    BY <1>6, <2>1
<1>8. ClientInv'
  BY <1>6 DEF ClientInv, Placed, Carries
<1>9. \A b \in Agent : \A i \in DOMAIN queue'[b] :
         /\ i \in DOMAIN queue[b] /\ queue'[b][i] = queue[b][i] /\ b # a
  BY <1>2
<1>10. \A b \in Agent : \A i \in DOMAIN queue'[b] :
          queue'[b][i].from \in Client => ~waits(queue'[b][i].from)
  BY <1>9 DEF OneConn, waits
<1>11. QueueInv'
  BY <1>5, <1>9, <1>10 DEF QueueInv, Calling, Answered
<1>12. OneConn'
  BY <1>9 DEF OneConn
<1>13. QED
  BY <1>3, <1>7, <1>8, <1>11, <1>12

LEMMA DeathStep ==
  ASSUME IInv, NEW a \in Agent, End(a) \/ AgentCrash(a)
  PROVE  IInv'
<1>1. /\ queue' \in [Agent -> Seq(Conn)] /\ client' \in [Client -> ClientState]
      /\ ClientInv' /\ QueueInv' /\ OneConn'
  BY BrokenStep DEF End, AgentCrash
<1>2. TypeOK'
  <2>1. CASE End(a)
    BY <1>1, <2>1 DEF IInv, TypeOK, End, Goto, ToVault
  <2>2. CASE AgentCrash(a)
    <3>1. Nothing \in Cached
      BY DEF Nothing, Cached
    <3>2. QED
      BY <1>1, <2>2, <3>1 DEF IInv, TypeOK, AgentCrash, Goto, ToVault
  <2>3. QED
    BY <2>1, <2>2
<1>3. QED
  BY <1>1, <1>2 DEF IInv, End, AgentCrash, ToVault

-----------------------------------------------------------------------------
(* Steps of the clients. *)

\* Client c goes from one good state to another; whether it may have a
\* connection is for the step to say.
LEMMA ClientChanged ==
  ASSUME IInv, NEW c \in Client, NEW s \in ClientState, Placed(s), Carries(s),
         client' = [client EXCEPT ![c] = s]
  PROVE  client' \in [Client -> ClientState] /\ ClientInv'
BY DEF IInv, TypeOK, ClientInv

\* Client c, which has no connection, makes a step of its own.
LEMMA OwnStep ==
  ASSUME IInv, NEW c \in Client, NEW s \in ClientState, Placed(s), Carries(s),
         client' = [client EXCEPT ![c] = s], NotConnected(c),
         UNCHANGED <<queue, ToAgent>>, runs' \in 0 .. MaxRuns,
         vault' \in Key, past' \subseteq Key, IsFiniteSet(past')
  PROVE  IInv'
<1>1. client' \in [Client -> ClientState] /\ ClientInv'
  BY ClientChanged
<1>2. \A d \in Client \ {c} : client'[d] = client[d]
  BY DEF IInv, TypeOK
<1>3. QueueInv' /\ OneConn'
  BY <1>2, QueueKept DEF IInv
<1>4. TypeOK'
  BY <1>1 DEF IInv, TypeOK, ToAgent
<1>5. QED
  BY <1>1, <1>3, <1>4 DEF IInv

LEMMA RunStep ==
  ASSUME IInv, NEW c \in Client, NEW op \in Op, Run(c, op)
  PROVE  IInv'
<1> USE AgentAssumption
<1> DEFINE s == [client[c] EXCEPT !.op = op, !.at = Entry(op)]
<1>1. client[c] \in ClientState /\ Carries(client[c]) /\ client[c].at = "idle"
  BY DEF IInv, TypeOK, ClientInv, Run
<1>2. s \in ClientState /\ Placed(s) /\ Carries(s)
  BY <1>1 DEF ClientState, Place, CallAt, Entry, Placed, Carries
<1>3. client' = [client EXCEPT ![c] = s]
  BY DEF Run
<1>4. NotConnected(c)
  BY <1>1, NotWaiting DEF IInv, Calling, CallAt
<1> HIDE DEF s
<1>5. runs' \in 0 .. MaxRuns
  BY DEF IInv, TypeOK, Run
<1>6. QED
  BY <1>2, <1>3, <1>4, <1>5, OwnStep DEF IInv, TypeOK, Run, ToVault

LEMMA LocalStep ==
  ASSUME IInv, NEW c \in Client, TryKey(c) \/ Verify(c) \/ Swap(c)
  PROVE  IInv'
<1> USE AgentAssumption
<1>1. client[c] \in ClientState /\ Placed(client[c]) /\ Carries(client[c])
  BY DEF IInv, TypeOK, ClientInv
<1>2. ASSUME NEW from \in {"tryKey", "verify", "swap"}, NEW to \in Place, Local(c, from, to),
             Placed([client[c] EXCEPT !.at = to]), Carries([client[c] EXCEPT !.at = to]),
             vault' \in Key, UNCHANGED past
      PROVE  IInv'
  <2> DEFINE s == [client[c] EXCEPT !.at = to]
  <2>1. s \in ClientState /\ client' = [client EXCEPT ![c] = s]
    BY <1>1, <1>2 DEF Local, ClientState
  <2>2. NotConnected(c)
    BY <1>2, NotWaiting DEF IInv, Local, Calling, CallAt
  <2> HIDE DEF s
  <2>3. Placed(s) /\ Carries(s)
    BY <1>2 DEF s
  <2>4. QED
    BY <1>2, <2>1, <2>2, <2>3, OwnStep DEF IInv, TypeOK, Local, ToAgent
<1>3. CASE TryKey(c)
  <2> DEFINE to == IF client[c].key = vault THEN "done" ELSE "ask"
  <2>1. Local(c, "tryKey", to) /\ UNCHANGED <<vault, past>>
    BY <1>3 DEF TryKey, ToVault
  <2>2. to \in Place /\ Placed([client[c] EXCEPT !.at = to]) /\ Carries([client[c] EXCEPT !.at = to])
    BY <1>1, <2>1 DEF Local, Place, ClientState, Placed, Carries
  <2> HIDE DEF to
  <2>3. QED
    BY <1>2, <2>1, <2>2 DEF IInv, TypeOK
<1>4. CASE Verify(c)
  <2> DEFINE to == IF vault.pass \notin client[c].pass THEN "wrong"
                   ELSE IF client[c].op = "open" THEN "STATUS" ELSE "derive"
  <2>1. Local(c, "verify", to) /\ UNCHANGED <<vault, past>>
    BY <1>4 DEF Verify, ToVault
  <2>2. to \in Place /\ Placed([client[c] EXCEPT !.at = to]) /\ Carries([client[c] EXCEPT !.at = to])
    BY <1>1, <2>1 DEF Local, Place, CallAt, ClientState, Placed, Carries
  <2> HIDE DEF to
  <2>3. QED
    BY <1>2, <2>1, <2>2 DEF IInv, TypeOK
<1>5. CASE Swap(c)
  <2>1. Local(c, "swap", "STATUS") /\ vault' \in Key /\ UNCHANGED past
    BY <1>5 DEF Swap, IInv, TypeOK
  <2>2. Placed([client[c] EXCEPT !.at = "STATUS"]) /\ Carries([client[c] EXCEPT !.at = "STATUS"])
    BY <1>1, <2>1 DEF Local, ClientState, Placed, Carries
  <2>3. "STATUS" \in Place
    BY DEF Place, CallAt
  <2>4. QED
    BY <1>2, <2>1, <2>2, <2>3
<1>6. QED
  BY <1>3, <1>4, <1>5

LEMMA AskStep ==
  ASSUME IInv, NEW c \in Client, NEW pass \in Passphrase, Ask(c, pass)
  PROVE  IInv'
<1> DEFINE s == [client[c] EXCEPT !.at = "verify", !.pass = {pass}]
<1>1. /\ client[c] \in ClientState /\ Placed(client[c]) /\ Carries(client[c])
      /\ client[c].at = "ask"
  BY DEF IInv, TypeOK, ClientInv, Ask
<1>2. s \in ClientState /\ Placed(s) /\ Carries(s)
  BY <1>1 DEF ClientState, Place, Placed, Carries
<1>3. client' = [client EXCEPT ![c] = s]
  BY DEF Ask
<1>4. NotConnected(c)
  BY <1>1, NotWaiting DEF IInv, Calling, CallAt
<1> HIDE DEF s
<1>5. QED
  BY <1>2, <1>3, <1>4, OwnStep DEF IInv, TypeOK, Ask, ToVault

LEMMA DeriveStep ==
  ASSUME IInv, NEW c \in Client, Derive(c)
  PROVE  IInv'
<1> USE AgentAssumption
<1> DEFINE pass == CHOOSE p \in client[c].pass : TRUE
           key == [pass |-> pass, salt |-> vault.salt]
           s == [client[c] EXCEPT !.at = "PUT", !.key = key]
<1>1. /\ client[c] \in ClientState /\ Placed(client[c]) /\ Carries(client[c])
      /\ client[c].at = "derive"
  BY DEF IInv, TypeOK, ClientInv, Derive
<1>2. client[c].pass # {} /\ client[c].pass \subseteq Passphrase
  BY <1>1 DEF Carries, ClientState
<1>3. pass \in Passphrase
  BY <1>2
<1>4. vault.salt \in 0 .. MaxSalt
  BY DEF IInv, TypeOK, Key
<1> HIDE DEF pass
<1>5. key \in Key
  BY <1>3, <1>4 DEF Key
<1>6. key # NoKey
  BY <1>5
<1>7. client' = [client EXCEPT ![c] = s]
  BY DEF Derive, pass
<1> HIDE DEF key
<1>8. s \in ClientState /\ Placed(s) /\ Carries(s)
  BY <1>1, <1>5, <1>6 DEF ClientState, Place, CallAt, Placed, Carries
<1>9. NotConnected(c)
  BY <1>1, NotWaiting DEF IInv, Calling, CallAt
<1> HIDE DEF s
<1>10. QED
  BY <1>7, <1>8, <1>9, OwnStep DEF IInv, TypeOK, Derive, ToVault

LEMMA IdleState == IdleClient \in ClientState /\ Placed(IdleClient) /\ Carries(IdleClient)
BY DEF IdleClient, ClientState, Place, CallAt, Reply, Placed, Carries

LEMMA ExitStep ==
  ASSUME IInv, NEW c \in Client, Exit(c)
  PROVE  IInv'
<1>1. NotConnected(c)
  BY NotWaiting DEF IInv, Exit, Calling, CallAt
<1>2. QED
  BY <1>1, IdleState, OwnStep DEF IInv, TypeOK, Exit, ToVault

LEMMA KillStep ==
  ASSUME IInv, NEW c \in Client, Kill(c)
  PROVE  IInv'
<1>1. client' \in [Client -> ClientState] /\ ClientInv'
  BY IdleState, ClientChanged DEF Kill
<1>2. \A d \in Client \ {c} : client'[d] = client[d]
  BY DEF IInv, TypeOK, Kill
<1>3. queue' \in [Agent -> Seq(Conn)] /\ QueueInv' /\ OneConn'
  BY <1>2, HangUpQueue DEF IInv, Kill
<1>4. TypeOK'
  BY <1>1, <1>3 DEF IInv, TypeOK, Kill, ToAgent, ToVault
<1>5. QED
  BY <1>1, <1>3, <1>4 DEF IInv, Kill, ToVault

\* Where a call that returns leaves its client.
LEMMA ReturnedState ==
  ASSUME IInv, NEW c \in Client, Calling(c), NEW r \in Reply, Returned(c, r)
  PROVE  \E s \in ClientState :
            Placed(s) /\ Carries(s) /\ client' = [client EXCEPT ![c] = s]
<1> DEFINE key == IF client[c].at = "GET" THEN r.key ELSE client[c].key
           to == AfterCall(c, r)
           s == [client[c] EXCEPT !.at = to, !.reply = NoReply, !.key = key]
<1>1. client[c] \in ClientState /\ Placed(client[c]) /\ Carries(client[c])
  BY DEF IInv, TypeOK, ClientInv
<1>2. key \in Key \cup {NoKey}
  BY <1>1 DEF ClientState, Reply
<1>3. NoReply \in Reply
  BY DEF NoReply, Reply
<1>4. client' = [client EXCEPT ![c] = s] /\ NoReply.key = NoKey
  BY DEF Returned, NoReply
<1> HIDE DEF key
<1>5. /\ client[c].at \in CallAt
      /\ client[c].at = "GET" => client[c].op = "open" /\ to \in {"tryKey", "ask"}
      /\ client[c].at = "STATUS" =>
            \/ client[c].op = "open" /\ to \in {"derive", "done"}
            \/ client[c].op = "unlock" /\ to \in {"ask", "failed"}
            \/ client[c].op = "restore" /\ to \in {"DROP", "done"}
      /\ client[c].at = "PUT" =>
            \/ client[c].op = "open" /\ to = "done"
            \/ client[c].op = "unlock" /\ to \in {"done", "failed"}
      /\ client[c].at = "DROP" =>
            \/ client[c].op = "restore" /\ to = "done"
            \/ client[c].op = "lock" /\ to \in {"done", "failed"}
      /\ client[c].at = "STOP" => client[c].op = "stop" /\ to \in {"done", "failed"}
  <2> USE <1>1 DEF Calling, Placed, AfterCall
  <2>1. CASE client[c].at = "GET"
    BY <2>1 DEF CallAt
  <2>2. CASE client[c].at = "STATUS"
    BY <2>2 DEF CallAt, AfterStatus
  <2>3. CASE client[c].at = "PUT"
    BY <2>3 DEF CallAt
  <2>4. CASE client[c].at = "DROP"
    BY <2>4 DEF CallAt
  <2>5. CASE client[c].at = "STOP"
    BY <2>5 DEF CallAt
  <2>6. QED
    BY <2>1, <2>2, <2>3, <2>4, <2>5 DEF CallAt
<1> HIDE DEF to
<1>6. s \in ClientState
  BY <1>1, <1>2, <1>3, <1>5 DEF ClientState, Place, CallAt
<1>7. /\ s.op = client[c].op /\ s.at = to /\ s.pass = client[c].pass /\ s.key = key
      /\ s.reply = NoReply
  BY <1>1 DEF ClientState
<1> HIDE DEF s
<1>8. Placed(s) /\ Carries(s)
  BY <1>1, <1>4, <1>5, <1>7 DEF CallAt, Placed, Carries
<1>9. QED
  BY <1>4, <1>6, <1>8

LEMMA RefusalType == Refusal \in Reply
BY DEF Refusal, Reply

LEMMA ConnectStep ==
  ASSUME IInv, NEW c \in Client, Connect(c)
  PROVE  IInv'
<1>1. NotConnected(c)
  BY ConnectedMeans DEF Connect
<1>2. CASE path # NoSocket /\ Accepts(path)
  <2>1. path \in Agent
    BY <1>2 DEF IInv, TypeOK
  <2>2. /\ queue' = [queue EXCEPT ![path] = Append(@, [from |-> c, req |-> NoReq])]
        /\ UNCHANGED client /\ Calling(c) /\ ~Answered(c)
    BY <1>2 DEF Connect
  <2>3. queue' \in [Agent -> Seq(Conn)] /\ ClientInv' /\ QueueInv' /\ OneConn'
    BY <1>1, <2>1, <2>2, Appended
  <2>4. TypeOK'
    BY <2>2, <2>3 DEF IInv, TypeOK, Connect, ToAgent, ToVault
  <2>5. QED
    BY <2>3, <2>4 DEF IInv, Connect, ToVault
<1>3. CASE ~(path # NoSocket /\ Accepts(path))
  <2>1. Calling(c) /\ Returned(c, Refusal) /\ UNCHANGED queue
    BY <1>3 DEF Connect
  <2>2. PICK s \in ClientState :
           Placed(s) /\ Carries(s) /\ client' = [client EXCEPT ![c] = s]
    BY <2>1, ReturnedState, RefusalType
  <2>3. QED
    BY <1>1, <2>1, <2>2, OwnStep DEF IInv, TypeOK, Connect, ToVault
<1>4. QED
  BY <1>2, <1>3

LEMMA ReadStep ==
  ASSUME IInv, NEW c \in Client, Read(c)
  PROVE  IInv'
<1>1. client[c].reply \in Reply
  BY DEF IInv, TypeOK, ClientState
<1>2. PICK s \in ClientState :
         Placed(s) /\ Carries(s) /\ client' = [client EXCEPT ![c] = s]
  BY <1>1, ReturnedState DEF Read
<1>3. NotConnected(c)
  BY NotWaiting DEF IInv, Read
<1>4. QED
  BY <1>2, <1>3, OwnStep DEF IInv, TypeOK, Read, ToVault

LEMMA TimeoutStep ==
  ASSUME IInv, NEW c \in Client, Timeout(c)
  PROVE  IInv'
<1>1. PICK s \in ClientState :
         Placed(s) /\ Carries(s) /\ client' = [client EXCEPT ![c] = s]
  BY ReturnedState, RefusalType DEF Timeout, Calling, CallAt
<1>2. client' \in [Client -> ClientState] /\ ClientInv'
  BY <1>1, ClientChanged
<1>3. \A d \in Client \ {c} : client'[d] = client[d]
  BY <1>1 DEF IInv, TypeOK
<1>4. queue' \in [Agent -> Seq(Conn)] /\ QueueInv' /\ OneConn'
  BY <1>3, HangUpQueue DEF IInv, Timeout
<1>5. TypeOK'
  BY <1>2, <1>4 DEF IInv, TypeOK, Timeout, ToAgent, ToVault
<1>6. QED
  BY <1>2, <1>4, <1>5 DEF IInv, Timeout, ToVault

\* The line that is written is a request: a client that is at PUT has a key.
LEMMA WriteStep ==
  ASSUME IInv, NEW c \in Client, Write(c)
  PROVE  IInv'
<1> USE AgentAssumption DEF IInv
<1> DEFINE req == [verb |-> client[c].at, key |-> client[c].key]
<1>1. Calling(c) /\ ~Answered(c)
  BY ConnectedMeans, NotWaiting DEF Write
<1>2. req \in Request
  <2>1. client[c].at \in CallAt /\ client[c].key \in Key \cup {NoKey}
    BY <1>1 DEF Calling, TypeOK, ClientState
  <2>2. client[c].at = "PUT" => client[c].key \in Key
    BY <2>1 DEF ClientInv, Carries
  <2>3. QED
    BY <2>1, <2>2 DEF CallAt, Request, Verb
<1>3. req.verb = client[c].at
  OBVIOUS
<1> HIDE DEF req
<1>4. ASSUME NEW a \in Agent
      PROVE  /\ queue'[a] \in Seq(Conn)
             /\ DOMAIN queue'[a] = DOMAIN queue[a]
             /\ \A i \in DOMAIN queue[a] :
                   /\ queue'[a][i].from = queue[a][i].from
                   /\ queue[a][i].from # c => queue'[a][i] = queue[a][i]
                   /\ queue[a][i].from = c => queue'[a][i].req = req
  <2> DEFINE g(i) == IF queue[a][i].from = c THEN [queue[a][i] EXCEPT !.req = req]
                                             ELSE queue[a][i]
  <2>1. queue'[a] = [i \in 1 .. Len(queue[a]) |-> g(i)]
    BY QueueType DEF Write, req
  <2>2. \A i \in 1 .. Len(queue[a]) :
           /\ g(i) \in Conn /\ g(i).from = queue[a][i].from
           /\ queue[a][i].from # c => g(i) = queue[a][i]
           /\ queue[a][i].from = c => g(i).req = req
    BY <1>2, QueueType DEF Conn
  <2>3. Len(queue[a]) \in Nat /\ DOMAIN queue[a] = 1 .. Len(queue[a])
    BY QueueType
  <2> HIDE DEF g
  <2>4. QED
    BY <2>1, <2>2, <2>3
<1>5. queue' \in [Agent -> Seq(Conn)]
  <2>1. queue' = [a \in Agent |-> queue'[a]]
    BY DEF Write
  <2>2. QED
    BY <2>1, <1>4
<1>6. UNCHANGED client
  BY DEF Write
<1>7. QueueInv'
  BY <1>1, <1>3, <1>4, <1>6 DEF QueueInv, Calling, Answered
<1>8. OneConn'
  BY <1>4 DEF OneConn
<1>9. QED
  BY <1>5, <1>6, <1>7, <1>8, ClientSame DEF TypeOK, Write, ToAgent, ToVault

LEMMA ChangePassphraseStep ==
  ASSUME IInv, NEW pass \in Passphrase, ChangePassphrase(pass)
  PROVE  IInv'
<1>1. Cardinality(past) \in Nat
  BY FS_CardinalityType DEF IInv
<1>2. vault' \in Key
  BY <1>1, AgentAssumption DEF ChangePassphrase, Key
<1>3. past' = past \cup {vault'}
  BY DEF ChangePassphrase
<1>4. IsFiniteSet(past')
  BY <1>3, FS_AddElement DEF IInv
<1>5. UNCHANGED <<queue, client>>
  BY DEF ChangePassphrase
<1>6. TypeOK'
  BY <1>2, <1>3 DEF IInv, TypeOK, ChangePassphrase, ToAgent
<1>7. QED
  BY <1>4, <1>5, <1>6, ClientSame, QueueSame DEF IInv

-----------------------------------------------------------------------------
(* The invariant. *)

LEMMA StepIInv == IInv /\ [Next]_vars => IInv'
<1> SUFFICES ASSUME IInv, [Next]_vars PROVE IInv'
  OBVIOUS
<1>1. ASSUME NEW a \in Agent, AgentStep(a) \/ Start(a) \/ AgentCrash(a) \/ Expire(a)
      PROVE  IInv'
  BY <1>1, StartStep, ProbeStep, HandleStep, DeathStep DEF AgentStep
<1>2. ASSUME NEW c \in Client, ClientStep(c) \/ Timeout(c) \/ Kill(c)
      PROVE  IInv'
  BY <1>2, ConnectStep, WriteStep, ReadStep, LocalStep, DeriveStep, ExitStep, TimeoutStep,
     KillStep DEF ClientStep
<1>3. ASSUME NEW c \in Client,
             (\E op \in Op : Run(c, op)) \/ (\E pass \in Passphrase : Ask(c, pass))
      PROVE  IInv'
  BY <1>3, RunStep, AskStep
<1>4. CASE UNCHANGED vars
  BY <1>4, ClientSame, QueueSame DEF vars, IInv, TypeOK
<1>5. QED
  BY <1>1, <1>2, <1>3, <1>4, ChangePassphraseStep DEF Next

\* The invariant holds, for any number of agents, clients, starts and commands.
THEOREM Invariant == Spec => []IInv
BY InitIInv, StepIInv, PTL DEF Spec

\* A command that opens the vault is never failed by the agent: every place an
\* `open` can be at, after any history of the agents, is another one than
\* "failed" (open_vault, main.rs).
THEOREM NeverFatal == Spec => []AgentIsNeverFatal
<1>1. IInv => AgentIsNeverFatal
  BY DEF IInv, ClientInv, Placed, AgentIsNeverFatal
<1>2. QED
  BY <1>1, Invariant, PTL

\* The types of the variables.
THEOREM TypeCorrect == Spec => []TypeOK
<1>1. IInv => TypeOK
  BY DEF IInv
<1>2. QED
  BY <1>1, Invariant, PTL

-----------------------------------------------------------------------------
(* What a client is told. *)

LEMMA BrokenReply ==
  ASSUME IInv, NEW a \in Agent, Broken(a), NEW c \in Client
  PROVE  \/ client'[c].reply = client[c].reply
         \/ client'[c].reply.key = NoKey /\ client'[c].reply.tag # "OK"
<1> DEFINE waits(d) == \E i \in DOMAIN queue[a] : queue[a][i].from = d
           r(d, tag) == [tag |-> IF queue[a][1].from = d /\ queue[a][1].req # NoReq
                                 THEN tag ELSE "error",
                         key |-> NoKey]
<1>1. PICK tag \in {"eof", "error"} :
         client' = [d \in Client |-> IF waits(d) THEN [client[d] EXCEPT !.reply = r(d, tag)]
                                                ELSE client[d]]
  BY DEF Broken
<1>2. r(c, tag).key = NoKey /\ r(c, tag).tag # "OK"
  OBVIOUS
<1>3. client[c] \in ClientState
  BY DEF IInv, TypeOK
<1> HIDE DEF waits, r
<1>4. client'[c].reply = client[c].reply \/ client'[c].reply = r(c, tag)
  BY <1>1, <1>3 DEF ClientState
<1>5. QED
  BY <1>2, <1>4

\* Only Handle tells a client anything but that its call failed.
LEMMA ReplyOnlyFromHandle ==
  ASSUME IInv, [Next]_vars, NEW c \in Client,
         client'[c].reply # client[c].reply,
         client'[c].reply.key # NoKey \/ client'[c].reply.tag = "OK"
  PROVE  \E a \in Agent : Handle(a) /\ Head(queue[a]).from = c
<1> USE DEF IInv
<1>1. client[c] \in ClientState /\ NoReply.key = NoKey /\ NoReply.tag # "OK"
  BY DEF TypeOK, NoReply
<1>2. IdleClient.reply = NoReply
  BY DEF IdleClient, NoReply
<1>3. ASSUME NEW a \in Agent, AgentStep(a) \/ Start(a) \/ AgentCrash(a) \/ Expire(a)
      PROVE  Handle(a) /\ Head(queue[a]).from = c
  <2>1. ~UNCHANGED client
    OBVIOUS
  <2>2. ~Broken(a)
    BY BrokenReply
  <2>3. Handle(a)
    BY <1>3, <2>1, <2>2 DEF AgentStep, Start, AgentCrash, Expire, Probe, Unlink, Bind,
       Listen, End
  <2>4. Head(queue[a]).from = c
    <3> DEFINE conn == Head(queue[a])
    <3>1. client' = [client EXCEPT ![conn.from].reply = Answer(a, conn.req)]
      BY <2>1, <2>3 DEF Handle
    <3> HIDE DEF conn
    <3>2. conn.from = c
      BY <3>1 DEF TypeOK
    <3>3. QED
      BY <3>2 DEF conn
  <2>5. QED
    BY <2>3, <2>4
<1>4. ASSUME NEW d \in Client,
             \/ ClientStep(d) \/ Timeout(d) \/ Kill(d)
             \/ \E op \in Op : Run(d, op)
             \/ \E pass \in Passphrase : Ask(d, pass)
      PROVE  client'[c].reply = client[c].reply \/ client'[c].reply = NoReply
  <2>1. ASSUME NEW r, Returned(d, r) PROVE client'[c].reply \in {client[c].reply, NoReply}
    BY <1>1, <2>1 DEF Returned, TypeOK, ClientState
  <2>2. ASSUME NEW from, NEW to, Local(d, from, to)
        PROVE  client'[c].reply = client[c].reply
    BY <1>1, <2>2 DEF Local, TypeOK, ClientState
  <2>3. CASE Connect(d) \/ Read(d) \/ Timeout(d)
    BY <2>1, <2>3 DEF Connect, Read, Timeout
  <2>4. CASE Write(d)
    BY <2>4 DEF Write
  <2>5. CASE TryKey(d) \/ Verify(d) \/ Swap(d)
    BY <2>2, <2>5 DEF TryKey, Verify, Swap
  <2>6. CASE Derive(d)
    BY <1>1, <2>6 DEF Derive, TypeOK, ClientState
  <2>7. CASE Exit(d) \/ Kill(d)
    BY <1>1, <1>2, <2>7 DEF Exit, Kill, TypeOK
  <2>8. CASE \E op \in Op : Run(d, op)
    BY <1>1, <2>8 DEF Run, TypeOK, ClientState
  <2>9. CASE \E pass \in Passphrase : Ask(d, pass)
    BY <1>1, <2>9 DEF Ask, TypeOK, ClientState
  <2>10. QED
    BY <1>4, <2>3, <2>4, <2>5, <2>6, <2>7, <2>8, <2>9 DEF ClientStep
<1>5. CASE UNCHANGED vars \/ \E pass \in Passphrase : ChangePassphrase(pass)
  BY <1>5 DEF vars, ChangePassphrase
<1>6. QED
  BY <1>1, <1>3, <1>4, <1>5 DEF Next

\* The key that `try_get` is given was within its TTL when it was given: every
\* GET reaps first (Cache::get, agent.rs).
THEOREM ExpiredStaysIn == Spec => NoExpiredKeyIsServed
<1>1. IInv /\ [Next]_vars =>
        \A a \in Agent, c \in Client :
          /\ queue[a] # <<>> /\ Head(queue[a]).from = c
          /\ ~Answered(c) /\ client'[c].reply.key # NoKey
          => ~cache[a].old
  <2> SUFFICES ASSUME IInv, [Next]_vars, NEW a \in Agent, NEW c \in Client,
                      queue[a] # <<>>, Head(queue[a]).from = c,
                      ~Answered(c), client'[c].reply.key # NoKey
               PROVE  ~cache[a].old
    OBVIOUS
  <2> USE DEF IInv
  <2>1. client[c].reply.key = NoKey
    BY DEF Answered, ClientInv, Carries
  <2>2. PICK b \in Agent : Handle(b) /\ Head(queue[b]).from = c
    BY <2>1, ReplyOnlyFromHandle
  <2>3. a = b
    <3>1. queue[b] # <<>>
      BY <2>2 DEF Handle
    <3>2. /\ 1 \in DOMAIN queue[a] /\ queue[a][1].from = c
          /\ 1 \in DOMAIN queue[b] /\ queue[b][1].from = c
      BY <2>2, <3>1, QueueType
    <3>3. QED
      BY <3>2 DEF OneConn
  <2>4. Head(queue[a]) \in Conn
    BY QueueType
  <2> DEFINE conn == Head(queue[a])
  <2>5. conn.req # NoReq /\ client' = [client EXCEPT ![c].reply = Answer(a, conn.req)]
    BY <2>1, <2>2, <2>3, AgentAssumption DEF Handle
  <2> HIDE DEF conn
  <2>6. client'[c].reply = Answer(a, conn.req)
    BY <2>5 DEF TypeOK, ClientState
  <2>7. Reaped(a).key # NoKey
    BY <2>6 DEF Answer
  <2>8. QED
    BY <2>7 DEF Reaped, Nothing
<1>2. QED
  BY <1>1, Invariant, PTL DEF Spec, NoExpiredKeyIsServed

\* When `lock` is told OK, no agent has a key in its memory, if there is one
\* agent (Cache::drop, agent.rs).  Of two, the other may keep one.
THEOREM LockForgets ==
  ASSUME \A a, b \in Agent : a = b
  PROVE  Spec => LockForgetsEverything
<1>1. IInv /\ [Next]_vars =>
        \A c \in Client :
          /\ client[c].op = "lock" /\ ~Answered(c) /\ client'[c].reply.tag = "OK"
          => \A a \in Agent : cache'[a].key = NoKey
  <2> SUFFICES ASSUME IInv, [Next]_vars, NEW c \in Client,
                      client[c].op = "lock", ~Answered(c), client'[c].reply.tag = "OK"
               PROVE  \A a \in Agent : cache'[a].key = NoKey
    OBVIOUS
  <2> USE DEF IInv
  <2>1. PICK a \in Agent : Handle(a) /\ Head(queue[a]).from = c
    BY ReplyOnlyFromHandle DEF Answered
  <2> DEFINE conn == Head(queue[a])
  <2>2. 1 \in DOMAIN queue[a] /\ conn = queue[a][1]
    BY <2>1, QueueType DEF Handle
  <2>3. conn.req # NoReq /\ cache' = [cache EXCEPT ![a] = Kept(a, conn.req)]
    BY <2>1, AgentAssumption DEF Handle, Answered
  <2> HIDE DEF conn
  <2>4. conn.from = c
    BY <2>1 DEF conn
  <2>5. conn.req.verb = client[c].at /\ client[c].at \in CallAt
    BY <2>2, <2>3, <2>4 DEF QueueInv, Calling
  <2>6. conn.req.verb = "DROP"
    BY <2>5 DEF ClientInv, Placed, CallAt
  <2>7. Kept(a, conn.req) = Nothing
    BY <2>6 DEF Kept
  <2>8. cache'[a].key = NoKey
    BY <2>3, <2>7 DEF TypeOK, Nothing
  <2>9. QED
    BY <2>8
<1>2. QED
  BY <1>1, Invariant, PTL DEF Spec, LockForgetsEverything

-----------------------------------------------------------------------------
(* Taking over the path. *)

\* A lone agent finds the path as it left it.
SocketInv ==
    \A a \in Agent : /\ at[a] = "unlink" => path # NoSocket
                     /\ at[a] = "bind"   => path = NoSocket

LEMMA SocketStep ==
  ASSUME \A a, b \in Agent : a = b, TypeOK, SocketInv, [Next]_vars
  PROVE  SocketInv' /\ \A a \in Agent : at[a] # "refused" => at'[a] # "refused"
<1> USE AgentAssumption DEF TypeOK, SocketInv
<1>1. CASE UNCHANGED <<path, at>>
  BY <1>1
<1>2. ASSUME NEW a \in Agent, NEW label, Goto(a, label), label # "refused",
             label = "unlink" => path' # NoSocket, label = "bind" => path' = NoSocket
      PROVE  SocketInv' /\ \A b \in Agent : at[b] # "refused" => at'[b] # "refused"
  BY <1>2 DEF Goto
<1>3. ASSUME NEW a \in Agent, AgentStep(a) \/ Start(a) \/ AgentCrash(a) \/ Expire(a)
      PROVE  SocketInv' /\ \A b \in Agent : at[b] # "refused" => at'[b] # "refused"
  <2>1. CASE Probe(a)
    <3>1. path # NoSocket => ~Accepts(path)
      BY <2>1 DEF Probe, Accepts
    <3>2. Goto(a, IF path = NoSocket THEN "bind" ELSE "unlink") /\ UNCHANGED path
      BY <2>1, <3>1 DEF Probe
    <3>3. QED
      BY <3>2, <1>2
  <2>2. CASE Start(a)
    BY <2>2, <1>2 DEF Start
  <2>3. CASE Unlink(a)
    BY <2>3, <1>2 DEF Unlink
  <2>4. CASE Bind(a)
    BY <2>4, <1>2 DEF Bind
  <2>5. CASE Listen(a)
    BY <2>5, <1>2 DEF Listen
  <2>6. CASE Handle(a)
    <3>1. UNCHANGED path /\ (UNCHANGED at \/ Goto(a, "stopping"))
      BY <2>6 DEF Handle
    <3>2. QED
      BY <3>1, <1>1, <1>2
  <2>7. CASE End(a)
    BY <2>7, <1>2 DEF End
  <2>8. CASE AgentCrash(a)
    BY <2>8, <1>2 DEF AgentCrash
  <2>9. CASE Expire(a)
    BY <2>9, <1>1 DEF Expire
  <2>10. QED
    BY <1>3, <2>1, <2>2, <2>3, <2>4, <2>5, <2>6, <2>7, <2>8, <2>9 DEF AgentStep
<1>4. ASSUME NEW c \in Client, \/ ClientStep(c) \/ Timeout(c) \/ Kill(c)
                               \/ \E op \in Op : Run(c, op)
                               \/ \E pass \in Passphrase : Ask(c, pass)
      PROVE  UNCHANGED <<path, at>>
  BY <1>4 DEF ClientStep, Connect, Write, Read, TryKey, Verify, Derive, Swap, Exit, Timeout,
     Kill, Run, Ask, Local, ToAgent
<1>5. ASSUME NEW pass \in Passphrase, ChangePassphrase(pass)
      PROVE  UNCHANGED <<path, at>>
  BY <1>5 DEF ChangePassphrase, ToAgent
<1>6. QED
  BY <1>1, <1>3, <1>4, <1>5 DEF Next, vars

\* An agent that has no other next to it is never refused, whatever its earlier
\* lives left at the path (serve, agent.rs).
THEOREM LeftoverSocket ==
  ASSUME \A a, b \in Agent : a = b
  PROVE  Spec => RefusedOnlyByAnother
<1>1. Init => SocketInv
  BY DEF Init, SocketInv
<1>2. TypeOK /\ SocketInv /\ [Next]_vars =>
        /\ SocketInv'
        /\ \A a \in Agent : at[a] # "refused" /\ at'[a] = "refused" =>
              \E b \in Agent \ {a} : Up(b)
  BY SocketStep
<1>3. QED
  BY <1>1, <1>2, TypeCorrect, PTL DEF Spec, RefusedOnlyByAnother
=============================================================================
