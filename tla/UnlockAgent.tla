----------------------------- MODULE UnlockAgent -----------------------------
(***************************************************************************)
(* The unlock agent (agent.rs) and the commands that talk to it (main.rs). *)
(* An agent is a process of its own: it takes over the socket path, serves *)
(* one connection at a time, and keeps the wrap key of the vault until it  *)
(* expires.  A command makes its calls one after the other; each call is a *)
(* connection, a written line, and a read that only try_get gives up on.   *)
(*                                                                         *)
(* There is one vault, and it exists; the agent identifies it by its path. *)
(* A wrap key is the passphrase and the salt it was derived from, and it   *)
(* opens the vault that has the same two.  Time is abstract: a cached key  *)
(* passes its TTL at any moment.                                           *)
(***************************************************************************)
EXTENDS Naturals, Sequences, FiniteSets

CONSTANTS
    Agent,          \* agent processes, each started any number of times
    Client,         \* processes that run a command
    Suspended,      \* clients that may be stopped (SIGSTOP) for good
    Op,             \* the commands that run
    Passphrase,
    FirstPass,      \* the one the vault was created with
    NoSocket,       \* nothing at the socket path
    NoKey,
    NoReq,          \* a connection on which nothing was written yet
    Gone,           \* a peer that closed its end
    MaxStarts,      \* bound on the starts of agents
    MaxRuns,        \* bound on the commands run
    MaxSalt         \* bound on the changes of the passphrase

VARIABLES
    path,           \* the agent whose socket file is at the path, alive or not
    at,             \* at[a]: where agent a is in `serve`
    cache,          \* cache[a]: the key it keeps, and whether its TTL is over
    queue,          \* queue[a]: its connections; the first is the one it handles
    client,         \* client[c]: command, place in it, what it carries
    vault,          \* the passphrase and the salt of the vault
    past,           \* every value `vault` had: what snapshots hold
    starts, runs

vars == <<path, at, cache, queue, client, vault, past, starts, runs>>

Key     == [pass: Passphrase, salt: 0 .. MaxSalt]
Cached  == [key: Key \cup {NoKey}, old: BOOLEAN]
Verb    == {"GET", "PUT", "DROP", "STATUS", "STOP"}
Request == [verb: Verb \ {"PUT"}, key: Key \cup {NoKey}] \cup [verb: {"PUT"}, key: Key]
Conn    == [from: Client \cup {Gone}, req: Request \cup {NoReq}]

\* "eof": the agent closed without a reply; "error": connect, write or read
\* failed; "none": no reply yet.
Reply   == [tag: {"OK", "MISS", "eof", "error", "none"}, key: Key \cup {NoKey}]

ASSUME AgentAssumption ==
    /\ Suspended \subseteq Client
    /\ Op \subseteq {"open", "unlock", "lock", "stop", "restore"}
    /\ FirstPass \in Passphrase
    /\ NoSocket \notin Agent /\ NoKey \notin Key
    /\ NoReq \notin Request /\ Gone \notin Client
    /\ MaxStarts \in Nat /\ MaxRuns \in Nat /\ MaxSalt \in Nat

CallAt == {"GET", "PUT", "DROP", "STATUS", "STOP"}
IdleClient == [op |-> "none", at |-> "idle", pass |-> {}, key |-> NoKey,
               reply |-> [tag |-> "none", key |-> NoKey]]

Place  == CallAt \cup {"idle", "tryKey", "ask", "verify", "derive", "swap",
                      "done", "wrong", "failed"}
ClientState == [op : Op \cup {"none"}, at : Place, pass : SUBSET Passphrase,
                key : Key \cup {NoKey}, reply : Reply]

TypeOK ==
    /\ path \in Agent \cup {NoSocket}
    /\ at \in [Agent -> {"off", "refused", "probe", "unlink", "bind", "listen",
                         "serve", "stopping"}]
    /\ cache \in [Agent -> Cached]
    /\ queue \in [Agent -> Seq(Conn)]
    /\ client \in [Client -> ClientState]
    /\ vault \in Key /\ past \subseteq Key
    /\ starts \in 0 .. MaxStarts /\ runs \in 0 .. MaxRuns

Nothing == [key |-> NoKey, old |-> FALSE]
NoReply == [tag |-> "none", key |-> NoKey]

Init ==
    /\ path = NoSocket
    /\ at = [a \in Agent |-> "off"]
    /\ cache = [a \in Agent |-> Nothing]
    /\ queue = [a \in Agent |-> <<>>]
    /\ client = [c \in Client |-> IdleClient]
    /\ vault = [pass |-> FirstPass, salt |-> 0]
    /\ past = {vault}
    /\ starts = 0 /\ runs = 0

-----------------------------------------------------------------------------
(* Helpers. *)

Up(a)      == at[a] \notin {"off", "refused"}
Accepts(a) == at[a] \in {"serve", "stopping"}       \* its listener is open
Goto(a, label) == at' = [at EXCEPT ![a] = label]

ToAgent  == <<path, at, cache, starts>>
ToVault  == <<vault, past>>

\* The connections of c: one at most.
ConnsOf(c) == UNION {{queue[a][i] : i \in {j \in DOMAIN queue[a] : queue[a][j].from = c}} :
                        a \in Agent}
Connected(c) == ConnsOf(c) # {}
Written(c)   == \E conn \in ConnsOf(c) : conn.req # NoReq

\* c closes its end: the line it wrote, if any, is still there.
HangUp(c) ==
    queue' = [a \in Agent |->
                 [i \in DOMAIN queue[a] |->
                     IF queue[a][i].from = c THEN [queue[a][i] EXCEPT !.from = Gone]
                                             ELSE queue[a][i]]]

\* Agent a is gone: its listener, the connections that wait, and the one it
\* handled, whose client may read an end of file or an error.
Broken(a) ==
    /\ queue' = [queue EXCEPT ![a] = <<>>]
    /\ \E tag \in {"eof", "error"} :
          client' = [c \in Client |->
              IF \E i \in DOMAIN queue[a] : queue[a][i].from = c
              THEN [client[c] EXCEPT !.reply =
                       [tag |-> IF queue[a][1].from = c /\ queue[a][1].req # NoReq
                                THEN tag ELSE "error",
                        key |-> NoKey]]
              ELSE client[c]]

-----------------------------------------------------------------------------
(* serve: taking over the path. *)

Start(a) ==
    /\ ~Up(a) /\ starts < MaxStarts
    /\ starts' = starts + 1
    /\ Goto(a, "probe")
    /\ UNCHANGED <<path, cache, queue, client, ToVault, runs>>

\* Faulty variant: a socket file that is there is taken for a live agent.
ProbeTrusting(a) ==
    /\ at[a] = "probe"
    /\ Goto(a, IF path = NoSocket THEN "bind" ELSE "refused")
    /\ UNCHANGED <<path, cache, queue, client, ToVault, starts, runs>>

\* A live agent answers the connection of the probe, which is closed at once.
Probe(a) ==
    /\ at[a] = "probe"
    /\ LET live == path # NoSocket /\ Accepts(path)
       IN  /\ Goto(a, CASE path = NoSocket -> "bind" [] live -> "refused" [] OTHER -> "unlink")
           /\ queue' = IF live THEN [queue EXCEPT ![path] =
                                        Append(@, [from |-> Gone, req |-> NoReq])]
                       ELSE queue
    /\ UNCHANGED <<path, cache, client, ToVault, starts, runs>>

Unlink(a) ==
    /\ at[a] = "unlink"
    /\ path' = NoSocket
    /\ Goto(a, IF path = NoSocket THEN "refused" ELSE "bind")
    /\ UNCHANGED <<cache, queue, client, ToVault, starts, runs>>

Bind(a) ==
    /\ at[a] = "bind"
    /\ path' = IF path = NoSocket THEN a ELSE path
    /\ Goto(a, IF path = NoSocket THEN "listen" ELSE "refused")
    /\ UNCHANGED <<cache, queue, client, ToVault, starts, runs>>

Listen(a) ==
    /\ at[a] = "listen"
    /\ Goto(a, "serve")
    /\ UNCHANGED <<path, cache, queue, client, ToVault, starts, runs>>

-----------------------------------------------------------------------------
(* handle: one connection, to its end. *)

\* Faulty variant: nobody reaps.
ReapedNever(a) == cache[a]

Reaped(a) == IF cache[a].old THEN Nothing ELSE cache[a]

\* Faulty variant: DROP keeps the keys that are not expired.
KeptLazily(a, req) ==
    CASE req.verb = "PUT" -> [key |-> req.key, old |-> FALSE]
      [] req.verb \in {"GET", "STATUS", "DROP"} -> Reaped(a)
      [] req.verb = "STOP" -> Nothing

\* What the agent keeps after a request.
Kept(a, req) ==
    CASE req.verb = "PUT" -> [key |-> req.key, old |-> FALSE]
      [] req.verb \in {"GET", "STATUS"} -> Reaped(a)
      [] req.verb \in {"DROP", "STOP"} -> Nothing

Answer(a, req) ==
    IF req.verb = "GET"
    THEN [tag |-> IF Reaped(a).key = NoKey THEN "MISS" ELSE "OK", key |-> Reaped(a).key]
    ELSE [tag |-> "OK", key |-> NoKey]

\* Faulty variant: an end of file is waited out.
EndOfFileNever(conn) == FALSE

\* The client closed the connection and wrote nothing.
EndOfFile(conn) == conn.req = NoReq /\ conn.from = Gone

\* The reply to a peer that has gone fails, after the request took effect; the
\* failure ends `handle` before a STOP is reported to `serve`.
Handle(a) ==
    /\ at[a] = "serve" /\ queue[a] # <<>>
    /\ LET conn == Head(queue[a]) IN
       \/ EndOfFile(conn) /\ UNCHANGED <<cache, client, at>>
       \/ /\ conn.req # NoReq
          /\ cache' = [cache EXCEPT ![a] = Kept(a, conn.req)]
          /\ IF conn.from = Gone THEN UNCHANGED <<client, at>>
             ELSE /\ client' = [client EXCEPT ![conn.from].reply = Answer(a, conn.req)]
                  /\ IF conn.req.verb = "STOP" THEN Goto(a, "stopping") ELSE UNCHANGED at
    /\ queue' = [queue EXCEPT ![a] = Tail(@)]
    /\ UNCHANGED <<path, ToVault, starts, runs>>

\* The end of `serve` removes what is at the path.
End(a) ==
    /\ at[a] = "stopping"
    /\ path' = NoSocket
    /\ Goto(a, "off")
    /\ Broken(a)
    /\ UNCHANGED <<cache, ToVault, starts, runs>>

AgentCrash(a) ==
    /\ Up(a)
    /\ Goto(a, "off")
    /\ cache' = [cache EXCEPT ![a] = Nothing]
    /\ Broken(a)
    /\ UNCHANGED <<path, ToVault, starts, runs>>

\* The TTL of the cached key passes.
Expire(a) ==
    /\ cache[a].key # NoKey /\ ~cache[a].old
    /\ cache' = [cache EXCEPT ![a].old = TRUE]
    /\ UNCHANGED <<path, at, queue, client, ToVault, starts, runs>>

-----------------------------------------------------------------------------
(* Clients: one call to the agent. *)

Calling(c) == client[c].at \in CallAt
Answered(c) == client[c].reply.tag # "none"

\* `control` takes an end of file for an answer.
Fine(r) == r.tag # "error"

\* Faulty variant: the key is offered before it is derived.
AfterStatusPut(op, r) ==
    CASE op = "open"    -> IF Fine(r) THEN "PUT"  ELSE "done"
      [] op = "unlock"  -> IF Fine(r) THEN "ask"  ELSE "failed"
      [] op = "restore" -> IF Fine(r) THEN "DROP" ELSE "done"

\* Where a command goes on after is_running.
AfterStatus(op, r) ==
    CASE op = "open"    -> IF Fine(r) THEN "derive" ELSE "done"
      [] op = "unlock"  -> IF Fine(r) THEN "ask"    ELSE "failed"
      [] op = "restore" -> IF Fine(r) THEN "DROP"   ELSE "done"

\* Where c goes on after the call it is at returned the given reply.
AfterCall(c, r) ==
    LET op == client[c].op IN
    CASE client[c].at = "GET"    -> IF r.tag = "OK" THEN "tryKey" ELSE "ask"
      [] client[c].at = "STATUS" -> AfterStatus(op, r)
      [] client[c].at = "PUT"    -> IF op = "open" \/ r.tag = "OK" THEN "done" ELSE "failed"
      [] client[c].at = "DROP"   -> IF op = "restore" \/ Fine(r) THEN "done" ELSE "failed"
      [] client[c].at = "STOP"   -> IF Fine(r) THEN "done" ELSE "failed"

Returned(c, r) ==
    client' = [client EXCEPT ![c].at = AfterCall(c, r), ![c].reply = NoReply,
                             ![c].key = IF client[c].at = "GET" THEN r.key ELSE @]

Refusal == [tag |-> "error", key |-> NoKey]

Connect(c) ==
    /\ Calling(c) /\ ~Connected(c) /\ ~Answered(c)
    /\ IF path # NoSocket /\ Accepts(path)
       THEN /\ queue' = [queue EXCEPT ![path] = Append(@, [from |-> c, req |-> NoReq])]
            /\ UNCHANGED client
       ELSE Returned(c, Refusal) /\ UNCHANGED queue
    /\ UNCHANGED <<ToAgent, ToVault, runs>>

Write(c) ==
    /\ Connected(c) /\ ~Written(c)
    /\ queue' = [a \in Agent |->
                    [i \in DOMAIN queue[a] |->
                        IF queue[a][i].from = c
                        THEN [queue[a][i] EXCEPT !.req = [verb |-> client[c].at,
                                                          key  |-> client[c].key]]
                        ELSE queue[a][i]]]
    /\ UNCHANGED <<client, ToAgent, ToVault, runs>>

Read(c) ==
    /\ Calling(c) /\ Answered(c)
    /\ Returned(c, client[c].reply)
    /\ UNCHANGED <<queue, ToAgent, ToVault, runs>>

\* try_get waits two seconds; the other calls wait for as long as it takes.
Timeout(c) ==
    /\ client[c].at = "GET" /\ Written(c)
    /\ HangUp(c)
    /\ Returned(c, Refusal)
    /\ UNCHANGED <<ToAgent, ToVault, runs>>

-----------------------------------------------------------------------------
(* Clients: open_vault, cmd_unlock, cmd_lock, cmd_restore. *)

\* The first thing a command does about the agent.
Entry(op) == CASE op = "open" -> "GET"  [] op = "unlock" -> "STATUS"
               [] op = "lock" -> "DROP" [] op = "stop" -> "STOP" [] op = "restore" -> "swap"

Run(c, op) ==
    /\ client[c].at = "idle" /\ runs < MaxRuns
    /\ runs' = runs + 1
    /\ client' = [client EXCEPT ![c].op = op, ![c].at = Entry(op)]
    /\ UNCHANGED <<queue, ToAgent, ToVault>>

Local(c, from, to) ==
    /\ client[c].at = from
    /\ client' = [client EXCEPT ![c].at = to]
    /\ UNCHANGED <<queue, ToAgent, runs>>

\* Faulty variant: a stale key is fatal.
TryKeyOrFail(c) ==
    /\ Local(c, "tryKey", IF client[c].key = vault THEN "done" ELSE "failed")
    /\ UNCHANGED ToVault

\* open_at_with_wrap_key; a stale key falls through to the passphrase.
TryKey(c) ==
    /\ Local(c, "tryKey", IF client[c].key = vault THEN "done" ELSE "ask")
    /\ UNCHANGED ToVault

\* A human types.
Ask(c, pass) ==
    /\ client[c].at = "ask"
    /\ client' = [client EXCEPT ![c].at = "verify", ![c].pass = {pass}]
    /\ UNCHANGED <<queue, ToAgent, ToVault, runs>>

\* open_at_with_passphrase
Verify(c) ==
    /\ Local(c, "verify", IF vault.pass \notin client[c].pass THEN "wrong"
                          ELSE IF client[c].op = "open" THEN "STATUS" ELSE "derive")
    /\ UNCHANGED ToVault

\* derive_wrap_key reads the vault again, for its salt.
Derive(c) ==
    /\ client[c].at = "derive"
    /\ client' = [client EXCEPT ![c].at = "PUT",
                                ![c].key = [pass |-> CHOOSE p \in client[c].pass : TRUE,
                                            salt |-> vault.salt]]
    /\ UNCHANGED <<queue, ToAgent, ToVault, runs>>

\* The step of cmd_restore that replaces the vault.
Swap(c) ==
    /\ Local(c, "swap", "STATUS")
    /\ vault' \in past
    /\ UNCHANGED past

Exit(c) ==
    /\ client[c].at \in {"done", "wrong", "failed"}
    /\ client' = [client EXCEPT ![c] = IdleClient]
    /\ UNCHANGED <<queue, ToAgent, ToVault, runs>>

Kill(c) ==
    /\ client[c].at # "idle"
    /\ HangUp(c)
    /\ client' = [client EXCEPT ![c] = IdleClient]
    /\ UNCHANGED <<ToAgent, ToVault, runs>>

\* A change-passphrase of some process commits: a new salt with it.
ChangePassphrase(pass) ==
    /\ Cardinality(past) <= MaxSalt
    /\ vault' = [pass |-> pass, salt |-> Cardinality(past)]
    /\ past' = past \cup {vault'}
    /\ UNCHANGED <<queue, client, ToAgent, runs>>

-----------------------------------------------------------------------------

AgentStep(a)  == Probe(a) \/ Unlink(a) \/ Bind(a) \/ Listen(a) \/ Handle(a) \/ End(a)
ClientStep(c) == \/ Connect(c) \/ Write(c) \/ Read(c)
                 \/ TryKey(c) \/ Verify(c) \/ Derive(c) \/ Swap(c) \/ Exit(c)

Next ==
    \/ \E a \in Agent  : AgentStep(a) \/ Start(a) \/ AgentCrash(a) \/ Expire(a)
    \/ \E c \in Client : \/ ClientStep(c) \/ Timeout(c) \/ Kill(c)
                         \/ \E op \in Op : Run(c, op)
                         \/ \E pass \in Passphrase : Ask(c, pass)
    \/ \E pass \in Passphrase : ChangePassphrase(pass)

Spec == Init /\ [][Next]_vars

\* Processes run, unless they are suspended; starts, signals, humans and the
\* passing of a TTL need not come, and neither need the timeout of try_get.
FairSpec ==
    /\ Spec
    /\ \A a \in Agent : WF_vars(AgentStep(a))
    /\ \A c \in Client \ Suspended : WF_vars(ClientStep(c))

-----------------------------------------------------------------------------
(* Properties. *)

\* No agent, a dying agent, or a cached key that a change of the passphrase or
\* a restore made stale: none of them makes a command fail that opens the
\* vault.  (A wrong passphrase ends at "wrong".)
AgentIsNeverFatal == \A c \in Client : client[c].op = "open" => client[c].at # "failed"

\* The key that `try_get` is given was within its TTL when it was given.
NoExpiredKeyIsServed ==
    [][\A a \in Agent, c \in Client :
          /\ queue[a] # <<>> /\ Head(queue[a]).from = c
          /\ ~Answered(c) /\ client'[c].reply.key # NoKey
          => ~cache[a].old]_vars

\* When `lock` is told OK, no agent process has a key in its memory.
LockForgetsEverything ==
    [][\A c \in Client :
          /\ client[c].op = "lock" /\ ~Answered(c) /\ client'[c].reply.tag = "OK"
          => \A a \in Agent : cache'[a].key = NoKey]_vars

\* An agent refuses to start only because of another agent: not because of the
\* socket file that an agent that was killed left behind.
RefusedOnlyByAnother ==
    [][\A a \in Agent : at[a] # "refused" /\ at'[a] = "refused" =>
          \E b \in Agent \ {a} : Up(b)]_vars

\* A command that talks to the agent ends, whatever happens to the agent,
\* unless it waits for its human.
ClientsEnd ==
    \A c \in Client \ Suspended :
        client[c].at \notin {"idle", "ask"} ~> client[c].at \in {"idle", "ask"}

\* A second agent does not take the socket of a live one away.
LiveSocketIsNotStolen ==
    [][\A a \in Agent : path = a /\ Accepts(a) /\ path' # a => at[a] = "stopping"]_vars
=============================================================================
