-------------------------- MODULE VirtualAsioHost --------------------------
(***************************************************************************)
(* The part of the engine DAWs connect to: for each Virtual ASIO device a  *)
(* WindowsVirtualAsioTransportHost with its VirtualAsioClientRegistry and  *)
(* its transport sessions, the broker server that admits DAWs through a    *)
(* pipe, and the preset commit observer of tools/sar_engine_service.cpp,   *)
(* which gives every session of every host a new graph.                    *)
(*                                                                         *)
(* A host's operations hold its mutex and are one step each.  A broker     *)
(* request is several: it reads the graph generation, builds a graph with  *)
(* no lock held, and only then enters the host.  The observer runs under   *)
(* the control mutex and visits the hosts one after the other.             *)
(***************************************************************************)
EXTENDS Naturals, FiniteSets

CONSTANTS
  NumHosts,      \* enabled Virtual ASIO devices
  Processes,     \* DAW processes
  Clients,       \* client_id values
  ClientsOf,     \* those a process may draw; the code draws them at random
  Rates,         \* sample rates
  NoRate,        \* no active format, or no format discovered
  NoCommand,     \* the control mutex is free
  NoRequest,     \* no broker request is being handled for a process
  MaxClients,    \* maximum_clients
  MaxAttempts,   \* kMaximumGraphBuildAttempts
  MaxGraphs,     \* bound: graph generations of a host
  MaxConnection  \* bound: connection generations a registry hands out

ASSUME VirtualAsioHostAssumption ==
  /\ NumHosts \in Nat \ {0}
  /\ MaxClients \in Nat \ {0}
  /\ ClientsOf \in [Processes -> SUBSET Clients]
  /\ MaxAttempts \in Nat \ {0}
  /\ NoRate \notin Rates

Hosts == 1 .. NumHosts

Connections == [client : Clients, process : Processes, rate : Rates, generation : Nat]

\* graph is the generation of its host the session's graph was built for;
\* signaled: the DAW has set the client-disconnect event.
Sessions == [connection : Connections, graph : Nat \ {0}, running : BOOLEAN, signaled : BOOLEAN]

VARIABLES
  rate,             \* sample_rate of the committed preset
  command,          \* the preset update the observer is working on
  serving,          \* the engine is not shutting down
  registry,         \* clients_ of each host's registry
  active_rate,      \* active_format_
  next_generation,  \* next_generation_ of each registry
  sessions,         \* sessions_
  graph_generation, \* graph_generation_
  request,          \* the broker request being handled for each process
  alive,            \* DAW processes that have not exited
  known_rate,       \* the rate the driver learned in init()
  held              \* connections a DAW knows it has

presetVars == <<rate, command, serving>>
hostVars   == <<registry, active_rate, next_generation, sessions, graph_generation>>
dawVars    == <<request, alive, known_rate, held>>
vars       == <<presetVars, hostVars, dawVars>>

Init ==
  /\ rate \in Rates
  /\ serving = TRUE
  /\ command = NoCommand
  /\ registry = [h \in Hosts |-> {}]
  /\ active_rate = [h \in Hosts |-> NoRate]
  /\ next_generation = [h \in Hosts |-> 1]
  /\ sessions = [h \in Hosts |-> {}]
  /\ graph_generation = [h \in Hosts |-> 1]
  /\ request = [p \in Processes |-> NoRequest]
  /\ alive = [p \in Processes |-> TRUE]
  /\ known_rate = [p \in Processes |-> NoRate]
  /\ held = [p \in Processes |-> [h \in Hosts |-> {}]]

Stopped(h)  == {s \in sessions[h] : ~s.running}
Surviving(h) == sessions[h] \ Stopped(h)

\* registry_.disconnect() for each of the connections: the format is released
\* with the last client.
Without(h, connections) == registry[h] \ connections
RateOf(h, clients)      == IF clients = {} THEN NoRate ELSE active_rate[h]

ConnectionsOf(some) == {s.connection : s \in some}

\* Fault: reaping forgets the registry.
ReapSessionsOnly(h) ==
  /\ sessions' = [sessions EXCEPT ![h] = Surviving(h)]
  /\ UNCHANGED <<registry, active_rate>>

\* reap_stopped_sessions_locked(): join the thread, leave the registry.
ReapStopped(h) ==
  LET clients == Without(h, ConnectionsOf(Stopped(h))) IN
  /\ sessions' = [sessions EXCEPT ![h] = Surviving(h)]
  /\ registry' = [registry EXCEPT ![h] = clients]
  /\ active_rate' = [active_rate EXCEPT ![h] = RateOf(h, clients)]

-----------------------------------------------------------------------------
(* DAWs.                                                                   *)

CanAsk(p)   == serving /\ alive[p] /\ request[p] = NoRequest
Finished(p) == request' = [request EXCEPT ![p] = NoRequest]

\* handle_format(): the preset's format, from session_document(), which takes
\* the control mutex.
PreferredRate(r) == command = NoCommand /\ r = rate

\* init(): what is learned here is used by every later connect.
QueryFormat(p) ==
  /\ CanAsk(p)
  /\ \E r \in Rates :
       /\ PreferredRate(r)
       /\ known_rate' = [known_rate EXCEPT ![p] = r]
  /\ UNCHANGED <<presetVars, hostVars, request, alive, held>>

SendConnect(p, h, c) ==
  /\ CanAsk(p)
  /\ known_rate[p] # NoRate
  /\ request' = [request EXCEPT ![p] =
       [step |-> "generation", host |-> h, client |-> c, rate |-> known_rate[p],
        attempt |-> 1, seen |-> 0, graph |-> 0]]
  /\ UNCHANGED <<presetVars, hostVars, alive, known_rate, held>>

\* disconnect() of a connection the DAW has, or, mistaken, of another one.
SendDisconnect(p, h, connection) ==
  /\ CanAsk(p)
  /\ request' = [request EXCEPT ![p] =
       [step |-> "peer", host |-> h, connection |-> connection]]
  /\ UNCHANGED <<presetVars, hostVars, alive, known_rate, held>>

\* With its transaction over, answered or timed out, the driver sets the
\* disconnect event of its own connection and closes its handles.
CloseLocal(p, h, connection) ==
  /\ alive[p]
  /\ connection \in held[p][h]
  /\ held' = [held EXCEPT ![p][h] = @ \ {connection}]
  /\ sessions' = [sessions EXCEPT ![h] =
       {[s EXCEPT !.signaled = @ \/ s.connection = connection] : s \in sessions[h]}]
  /\ UNCHANGED <<presetVars, registry, active_rate, next_generation, graph_generation,
                 request, alive, known_rate>>

\* The client of an accepted request opens its objects.
Opening(p) == request[p] # NoRequest /\ request[p].step = "open"

\* The process exits, whatever is in progress for it.
ProcessExits(p) ==
  /\ alive[p]
  /\ alive' = [alive EXCEPT ![p] = FALSE]
  /\ held' = [held EXCEPT ![p] = [h \in Hosts |-> {}]]
  /\ IF Opening(p) THEN Finished(p) ELSE UNCHANGED request
  /\ UNCHANGED <<presetVars, hostVars, known_rate>>

\* The mapping can be opened by its name as long as the session has it.
MappingOpens(h, connection) == connection \in ConnectionsOf(sessions[h])

\* The header says which connection the mapping is for; no session is ever
\* given another one's nonces.
MatchesHeader(s, connection) == s.connection = connection

\* The four events are there until the session closes them.
EventsOpen(h, connection) == \E s \in sessions[h] : MatchesHeader(s, connection)

\* connect() with the answer in hand: the mapping, the identity in its header,
\* the events and the queues.
OpenObjects(p) ==
  /\ Opening(p)
  /\ LET h == request[p].host
         connection == request[p].connection
     IN  /\ MappingOpens(h, connection) /\ EventsOpen(h, connection)
         /\ held' = [held EXCEPT ![p][h] = @ \union {connection}]
  /\ Finished(p)
  /\ UNCHANGED <<presetVars, hostVars, alive, known_rate>>

\* One of them is gone, or fails: best_effort_disconnect(), which may not reach
\* the broker, and whose answer nobody waits for.
OpenFails(p) ==
  /\ Opening(p)
  /\ \/ /\ serving
        /\ request' = [request EXCEPT ![p] =
             [step |-> "peer", host |-> request[p].host, connection |-> request[p].connection]]
     \/ Finished(p)
  /\ UNCHANGED <<presetVars, hostVars, alive, known_rate, held>>

-----------------------------------------------------------------------------
(* Broker server: handle_connect().                                        *)

Connecting(p, step) == request[p] # NoRequest /\ request[p].step = step

ReadGeneration(p) ==
  /\ Connecting(p, "generation")
  /\ request' = [request EXCEPT ![p].seen = graph_generation[request[p].host],
                                ![p].step = "build"]
  /\ UNCHANGED <<presetVars, hostVars, alive, known_rate, held>>

\* The graph factory of sar_engine_service.cpp stamps the graph with the
\* host's generation, read again.
BuildGraph(p) ==
  /\ Connecting(p, "build")
  /\ \/ request' = [request EXCEPT ![p].graph = graph_generation[request[p].host],
                                   ![p].step = "admit"]
     \/ Finished(p)
  /\ UNCHANGED <<presetVars, hostVars, alive, known_rate, held>>

\* connect() finds that the graphs were refreshed since: another attempt.
RejectStale(p) ==
  /\ Connecting(p, "admit")
  /\ request[p].seen # graph_generation[request[p].host]
  /\ IF request[p].attempt < MaxAttempts
     THEN request' = [request EXCEPT ![p].step = "generation", ![p].attempt = @ + 1]
     ELSE Finished(p)
  /\ UNCHANGED <<presetVars, hostVars, alive, known_rate, held>>

\* VirtualAsioClientRegistry::connect() after the reaping.
Admits(h, r) ==
  LET clients == Without(h, ConnectionsOf(Stopped(h))) IN
  /\ \A c \in clients : c.client # r.client
  /\ Cardinality(clients) < MaxClients
  /\ RateOf(h, clients) \in {NoRate, r.rate}

RefuseAdmission(p) ==
  /\ Connecting(p, "admit")
  /\ LET r == request[p] IN
       /\ r.seen = graph_generation[r.host]
       /\ ~Admits(r.host, r)
       /\ ReapStopped(r.host)
  /\ Finished(p)
  /\ UNCHANGED <<presetVars, next_generation, graph_generation, alive, known_rate, held>>

\* Admitted, but a bus has no slot, the process cannot be opened, or an object
\* or the thread cannot be created: the admission guard takes it back, and the
\* connection generation is spent.
RollBackAdmission(p) ==
  /\ Connecting(p, "admit")
  /\ LET r == request[p] IN
       /\ r.seen = graph_generation[r.host]
       /\ Admits(r.host, r)
       /\ next_generation[r.host] <= MaxConnection
       /\ ReapStopped(r.host)
       /\ next_generation' = [next_generation EXCEPT ![r.host] = @ + 1]
  /\ Finished(p)
  /\ UNCHANGED <<presetVars, graph_generation, alive, known_rate, held>>

\* The connection request r makes, under the registry's next generation.
ConnectionFor(p) ==
  [client |-> request[p].client, process |-> p, rate |-> request[p].rate,
   generation |-> next_generation[request[p].host]]

\* Its mapping and its events are its own, and no event is set.
NewSession(connection, graph) ==
  [connection |-> connection, graph |-> graph, running |-> TRUE, signaled |-> FALSE]

\* The session is created and started, and the answer sent.
AdmitSession(p) ==
  LET r == request[p]
      h == r.host
      connection == ConnectionFor(p)
      clients == Without(h, ConnectionsOf(Stopped(h)))
  IN  /\ Admits(h, r)
      /\ next_generation[h] <= MaxConnection
      /\ next_generation' = [next_generation EXCEPT ![h] = @ + 1]
      /\ registry' = [registry EXCEPT ![h] = clients \union {connection}]
      /\ active_rate' = [active_rate EXCEPT ![h] = r.rate]
      /\ sessions' = [sessions EXCEPT ![h] = Surviving(h) \union
                        {NewSession(connection, r.graph)}]
      /\ \/ /\ alive[p]
            /\ request' = [request EXCEPT ![p] =
                 [step |-> "open", host |-> h, connection |-> connection]]
         \/ Finished(p)  \* the answer comes too late, or its reader is gone

\* Fault: connect() does not compare the generations.
ConnectUnchecked(p) ==
  /\ Connecting(p, "admit")
  /\ AdmitSession(p)
  /\ UNCHANGED <<presetVars, graph_generation, alive, known_rate, held>>

Connect(p) ==
  /\ Connecting(p, "admit")
  /\ request[p].seen = graph_generation[request[p].host]
  /\ AdmitSession(p)
  /\ UNCHANGED <<presetVars, graph_generation, alive, known_rate, held>>

-----------------------------------------------------------------------------
(* Broker server: handle_disconnect().                                     *)

\* The peer is compared with the sessions of a moment ago; a connection that is
\* not among them is left to the host.
CheckPeer(p) ==
  /\ Connecting(p, "peer")
  /\ LET r == request[p] IN
       IF r.connection \in ConnectionsOf(sessions[r.host]) /\ r.connection.process # p
       THEN Finished(p)
       ELSE request' = [request EXCEPT ![p].step = "remove"]
  /\ UNCHANGED <<presetVars, hostVars, alive, known_rate, held>>

\* Fault: the host looks the session up by its client id alone.
DisconnectByClient(p) ==
  /\ Connecting(p, "remove")
  /\ LET h == request[p].host
         gone == {s \in sessions[h] : s.connection.client = request[p].connection.client}
     IN  /\ sessions' = [sessions EXCEPT ![h] = @ \ gone]
         /\ registry' = [registry EXCEPT ![h] = @ \ ConnectionsOf(gone)]
         /\ active_rate' = [active_rate EXCEPT ![h] = RateOf(h, registry[h] \ ConnectionsOf(gone))]
  /\ Finished(p)
  /\ UNCHANGED <<presetVars, next_generation, graph_generation, alive, known_rate, held>>

\* disconnect(): by client id and connection generation; refused when either is
\* unknown.
Disconnect(p) ==
  /\ Connecting(p, "remove")
  /\ LET h == request[p].host
         Meant(connection) ==
           /\ connection.client = request[p].connection.client
           /\ connection.generation = request[p].connection.generation
         clients == {c \in registry[h] : ~Meant(c)}
     IN  /\ sessions' = [sessions EXCEPT ![h] = {s \in @ : ~Meant(s.connection)}]
         /\ registry' = [registry EXCEPT ![h] = clients]
         /\ active_rate' = [active_rate EXCEPT ![h] = RateOf(h, clients)]
  /\ Finished(p)
  /\ UNCHANGED <<presetVars, next_generation, graph_generation, alive, known_rate, held>>

-----------------------------------------------------------------------------
(* Sessions and the main loop.                                             *)

\* The session's thread sees that its client is gone, or a wait fails.
SessionEnds(h, s) ==
  /\ s.running
  /\ sessions' = [sessions EXCEPT ![h] = (@ \ {s}) \union {[s EXCEPT !.running = FALSE]}]
  /\ UNCHANGED <<presetVars, registry, active_rate, next_generation, graph_generation, dawVars>>

\* Fault: the process is not watched.
ClientSignaled(s) == s.signaled

ClientGone(s) == s.signaled \/ ~alive[s.connection.process]

NoticeClientGone(h) == \E s \in sessions[h] : ClientGone(s) /\ SessionEnds(h, s)
WaitFails(h)        == \E s \in sessions[h] : ~ClientGone(s) /\ SessionEnds(h, s)

\* Every 20 ms.
Reap(h) ==
  /\ Stopped(h) # {}
  /\ ReapStopped(h)
  /\ UNCHANGED <<presetVars, next_generation, graph_generation, dawVars>>

-----------------------------------------------------------------------------
(* The preset commit observer.                                             *)

\* A command reaches refresh_graphs(): it changes neither the channels nor the
\* block size.
BeginUpdate(r) ==
  /\ serving
  /\ command = NoCommand
  /\ \A h \in Hosts : graph_generation[h] < MaxGraphs
  /\ command' = [rate |-> r, next_host |-> 1]
  /\ UNCHANGED <<rate, serving, hostVars, dawVars>>

Refreshing(h) == command # NoCommand /\ command.next_host = h

\* refresh_graphs(): all replacements are built and accepted before one is
\* published.  The factory builds none for a client at another rate.
RefreshHost(h) ==
  /\ Refreshing(h)
  /\ \A s \in Surviving(h) : s.connection.rate = command.rate
  /\ LET clients == Without(h, ConnectionsOf(Stopped(h)))
         next    == graph_generation[h] + 1
     IN  /\ graph_generation' = [graph_generation EXCEPT ![h] = next]
         /\ registry' = [registry EXCEPT ![h] = clients]
         /\ active_rate' = [active_rate EXCEPT ![h] = RateOf(h, clients)]
         /\ sessions' = [sessions EXCEPT ![h] = {[s EXCEPT !.graph = next] : s \in Surviving(h)}]
  /\ command' = [command EXCEPT !.next_host = h + 1]
  /\ UNCHANGED <<rate, serving, next_generation, dawVars>>

\* The host cannot build a graph for every session, or has no memory for one:
\* the update is rejected, and the hosts before it are left as they are.
RefuseRefresh(h) ==
  /\ Refreshing(h)
  /\ ReapStopped(h)
  /\ command' = NoCommand
  /\ UNCHANGED <<rate, serving, next_generation, graph_generation, dawVars>>

CommitUpdate ==
  /\ Refreshing(NumHosts + 1)
  /\ rate' = command.rate
  /\ command' = NoCommand
  /\ UNCHANGED <<serving, hostVars, dawVars>>

-----------------------------------------------------------------------------
(* Shutdown: the control pipe and the brokers have finished their requests. *)

StopAll ==
  /\ serving
  /\ command = NoCommand
  /\ \A p \in Processes : request[p] = NoRequest \/ Opening(p)
  /\ serving' = FALSE
  /\ registry' = [h \in Hosts |-> {}]
  /\ active_rate' = [h \in Hosts |-> NoRate]
  /\ sessions' = [h \in Hosts |-> {}]
  /\ UNCHANGED <<rate, command, next_generation, graph_generation, dawVars>>

-----------------------------------------------------------------------------
Daw(p) ==
  \/ QueryFormat(p) \/ ProcessExits(p) \/ OpenObjects(p) \/ OpenFails(p)
  \/ \E h \in Hosts :
       \/ \E c \in ClientsOf[p] : SendConnect(p, h, c)
       \/ \E connection \in held[p][h] \union registry[h] : SendDisconnect(p, h, connection)
       \/ \E connection \in held[p][h] : CloseLocal(p, h, connection)

Broker(p) ==
  \/ ReadGeneration(p) \/ BuildGraph(p) \/ RejectStale(p) \/ RefuseAdmission(p)
  \/ RollBackAdmission(p) \/ Connect(p) \/ CheckPeer(p) \/ Disconnect(p)

Host(h) == NoticeClientGone(h) \/ WaitFails(h) \/ Reap(h)

Observer ==
  \/ \E r \in Rates : BeginUpdate(r)
  \/ \E h \in Hosts : RefreshHost(h) \/ RefuseRefresh(h)
  \/ CommitUpdate

Next ==
  \/ \E p \in Processes : Daw(p) \/ Broker(p)
  \/ \E h \in Hosts : Host(h)
  \/ Observer
  \/ StopAll

Spec == Init /\ [][Next]_vars

(***************************************************************************)
(* Session threads poll their client's process and wait on its event with  *)
(* a timeout, the main loop reaps every 20 ms, and a pipe worker finishes  *)
(* its request.  DAWs and the user who edits presets owe nothing.          *)
(***************************************************************************)
FairSpec ==
  /\ Spec
  /\ \A h \in Hosts : WF_vars(NoticeClientGone(h)) /\ WF_vars(Reap(h))
  /\ \A p \in Processes : WF_vars(Broker(p))

-----------------------------------------------------------------------------
TypeOK ==
  /\ rate \in Rates
  /\ \A h \in Hosts :
       /\ registry[h] \subseteq Connections
       /\ active_rate[h] \in Rates \union {NoRate}
       /\ next_generation[h] \in Nat
       /\ sessions[h] \subseteq Sessions
       /\ graph_generation[h] \in Nat
       /\ Cardinality(registry[h]) <= MaxClients
  /\ \A p \in Processes :
       /\ alive[p] \in BOOLEAN
       /\ known_rate[p] \in Rates \union {NoRate}

\* Whatever fails on the way, a host's registry and its sessions are the same
\* clients, each with an id of its own, in the clock domain the registry holds.
RegistryMatchesSessions ==
  \A h \in Hosts :
    /\ registry[h] = ConnectionsOf(sessions[h])
    /\ \A s, t \in sessions[h] : s.connection.client = t.connection.client => s = t
    /\ (registry[h] = {}) = (active_rate[h] = NoRate)
    /\ \A s \in sessions[h] : s.connection.rate = active_rate[h]

\* A session never keeps a graph from before the last refresh of its host,
\* although the broker builds graphs with no lock held.
FreshGraphs ==
  \A h \in Hosts : \A s \in sessions[h] : s.graph = graph_generation[h]

\* While the engine serves, a running session is removed only by a disconnection its own process asked
\* for: no late disconnection of an earlier connection takes a new one down,
\* and the check of the peer, made before the host's lock, is not too early.
OnlyOwnDisconnection ==
  [][\A h \in Hosts : \A s \in sessions[h] :
       serving' /\ s.running /\ s.connection \notin ConnectionsOf(sessions'[h]) =>
         /\ Connecting(s.connection.process, "remove")
         /\ request[s.connection.process].connection = s.connection]_vars

\* A DAW that dies gives back its place in the registry and on the buses, also
\* when it dies while it is being admitted.
DeadClientsLeave ==
  <>[](\A p \in Processes : ~alive[p] =>
         \A h \in Hosts : \A c \in registry[h] : c.process # p)

-----------------------------------------------------------------------------
(* What the documents promise and the code does not keep.                  *)

\* docs/roadmap.md: a failed refresh does not leave DAWs on different route
\* generations.
OneRouteGeneration ==
  command = NoCommand =>
    \A h, i \in Hosts : \A s \in sessions[h], t \in sessions[i] :
      s.graph = t.graph
=============================================================================
