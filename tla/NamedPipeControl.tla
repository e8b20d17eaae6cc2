-------------------------- MODULE NamedPipeControl --------------------------
(***************************************************************************)
(* core/service/windows_named_pipe_control.cpp: the control pipe.  The     *)
(* server's thread keeps one pipe instance listening and gives every       *)
(* connection to a worker, which reads one request, calls the handler and  *)
(* writes its response; transact_named_pipe_control() is the other end.    *)
(*                                                                         *)
(* Each end has a deadline of its own, and the worker's covers the handler *)
(* too, so that a request can be executed and its response never be sent.  *)
(* The handler belongs to the module that extends this one.                *)
(***************************************************************************)
EXTENDS Naturals

CONSTANTS
  Clients,     \* processes that send requests, one at a time each
  MaxWorkers,  \* kMaximumClientWorkers
  MaxFaults,   \* bound: deadlines that pass, crashes, requests of other clients
  NoInstance,  \* no pipe instance is listening or connected
  Listening,   \* ConnectNamedPipe() is waiting
  NoRequest,   \* nothing was written to the connection
  Free,        \* no worker has this entry of client_workers_
  Ended        \* the worker has returned and is not joined yet

ASSUME NamedPipeControlAssumption == MaxWorkers \in Nat \ {0} /\ MaxFaults \in Nat

VARIABLES
  server,      \* "down", "serving", "stopping" (the stop event is set)
  instance,    \* the pipe instance run() is holding
  workers,     \* client_workers_: a connection and where its worker is
  transaction, \* each client's call of transact_named_pipe_control()
  faults       \* faults so far

pipeVars == <<server, instance, workers, transaction, faults>>

Entries == 1 .. MaxWorkers

NewConnection(c) ==
  [client |-> c, open |-> TRUE, request |-> NoRequest, expired |-> FALSE,
   phase |-> "reading", response |-> NoRequest]

\* Connections and transactions, given what is asked and answered.
ConnectionsOf(requests, responses) ==
  [client : Clients, open : BOOLEAN, request : requests \union {NoRequest}, expired : BOOLEAN,
   phase : {"reading", "handling", "writing"}, response : responses \union {NoRequest}]

TransactionsOf(requests, responses) ==
  [phase : {"idle", "connecting", "writing", "waiting", "done"}, request : requests \union {NoRequest},
   result : {"none", "ok", "connect_failed", "write_timeout", "read_timeout", "pipe_failed"},
   response : responses \union {NoRequest}]

PipeTypeOK(requests, responses) ==
  /\ server \in {"down", "serving", "stopping"}
  /\ instance \in ConnectionsOf(requests, responses) \union {NoInstance, Listening}
  /\ workers \in [Entries -> ConnectionsOf(requests, responses) \union {Free, Ended}]
  /\ transaction \in [Clients -> TransactionsOf(requests, responses)]
  /\ faults \in 0 .. MaxFaults

NoTransaction ==
  [phase |-> "idle", request |-> NoRequest, result |-> "none", response |-> NoRequest]

Active(w)  == workers[w] # Free
Serving(w) == workers[w] \notin {Free, Ended}

Fault == faults < MaxFaults /\ faults' = faults + 1

-----------------------------------------------------------------------------
(* The client: connect until the deadline, write, read, close.             *)

Begin(c, request) ==
  transaction[c].phase = "idle" /\
  transaction' = [transaction EXCEPT ![c] =
                    [NoTransaction EXCEPT !.phase = "connecting", !.request = request]]

Finish(c, result) ==
  transaction' = [transaction EXCEPT ![c].phase = "done", ![c].result = result,
                                     ![c].request = NoRequest]

Connect(c) ==
  /\ transaction[c].phase = "connecting"
  /\ instance = Listening
  /\ instance' = NewConnection(c)
  /\ transaction' = [transaction EXCEPT ![c].phase = "writing"]
  /\ UNCHANGED <<server, workers, faults>>

\* pipe_connect_failed: nothing listens until the deadline.
ConnectFails(c) ==
  /\ transaction[c].phase = "connecting"
  /\ server = "down"
  /\ Finish(c, "connect_failed")
  /\ UNCHANGED <<server, instance, workers, faults>>

\* The connection of which c holds the other end changes to Change(it).
InstanceOf(c) == instance \notin {NoInstance, Listening} /\ instance.client = c /\ instance.open

OnConnection(c, Change(_)) ==
  IF InstanceOf(c)
  THEN instance' = Change(instance) /\ UNCHANGED workers
  ELSE /\ UNCHANGED instance
       /\ workers' = [w \in Entries |->
                        IF Serving(w) /\ workers[w].client = c /\ workers[w].open
                        THEN Change(workers[w]) ELSE workers[w]]

Send(c) ==
  /\ transaction[c].phase = "writing"
  /\ OnConnection(c, LAMBDA k : [k EXCEPT !.request = transaction[c].request])
  /\ transaction' = [transaction EXCEPT ![c].phase = "waiting"]
  /\ UNCHANGED <<server, faults>>

\* pipe_write_timeout, pipe_read_timeout: the handle is closed.
GiveUp(c) ==
  /\ transaction[c].phase \in {"writing", "waiting"}
  /\ Fault
  /\ OnConnection(c, LAMBDA k : [k EXCEPT !.open = FALSE])
  /\ Finish(c, IF transaction[c].phase = "writing" THEN "write_timeout" ELSE "read_timeout")
  /\ UNCHANGED server

\* The server's end closes: the client's read or write fails.
ClosedFor(connections) ==
  [c \in Clients |->
     IF \E k \in connections : k.open /\ k.client = c
     THEN [NoTransaction EXCEPT !.phase = "done", !.result = "pipe_failed"] ELSE transaction[c]]

-----------------------------------------------------------------------------
(* The server's thread.                                                    *)

FreeEntry == CHOOSE v \in Entries : ~Active(v) /\ \A u \in 1 .. v - 1 : Active(u)

\* One turn of run()'s loop.  The connection gets a worker, unless
\* client_workers_ is full, where workers that have ended count; only then are
\* those reaped, and the next instance listens.
Accept ==
  /\ server = "serving" /\ instance \notin {NoInstance, Listening}
  /\ LET full == \A w \in Entries : Active(w)
         reap == [w \in Entries |-> IF workers[w] = Ended THEN Free ELSE workers[w]]
     IN  /\ workers' = IF full THEN reap ELSE [reap EXCEPT ![FreeEntry] = instance]
         /\ transaction' = IF full THEN ClosedFor({instance}) ELSE transaction
  /\ instance' = Listening
  /\ UNCHANGED <<server, faults>>

-----------------------------------------------------------------------------
(* serve_client().                                                         *)

AtPhase(w, phase) == Serving(w) /\ workers[w].phase = phase

\* request_timeout_ms after the worker started, whatever it is doing.
Expire(w) ==
  /\ Serving(w) /\ workers[w].phase \in {"reading", "handling"} /\ ~workers[w].expired
  /\ Fault
  /\ workers' = [workers EXCEPT ![w].expired = TRUE]
  /\ UNCHANGED <<server, instance, transaction>>

ReadRequest(w) ==
  /\ AtPhase(w, "reading") /\ workers[w].request # NoRequest /\ ~workers[w].expired
  /\ workers' = [workers EXCEPT ![w].phase = "handling"]
  /\ UNCHANGED <<server, instance, transaction, faults>>

EndWorker(w) ==
  /\ workers' = [workers EXCEPT ![w] = Ended]
  /\ transaction' = ClosedFor({workers[w]})
  /\ UNCHANGED <<server, instance, faults>>

\* The deadline, the stop event or the client ends the wait for the request.
\* A client that sends nothing is timed out.
AbandonRead(w) ==
  /\ AtPhase(w, "reading")
  /\ \/ workers[w].expired
     \/ server = "stopping"
     \/ workers[w].request = NoRequest /\ ~workers[w].open
  /\ EndWorker(w)

\* The response and the end of the connection; the client may read it.
WriteResponse(w) ==
  /\ AtPhase(w, "writing") /\ workers[w].open /\ ~workers[w].expired
  /\ workers' = [workers EXCEPT ![w] = Ended]
  /\ transaction' = [transaction EXCEPT ![workers[w].client] =
                     [NoTransaction EXCEPT !.phase = "done", !.result = "ok",
                                           !.response = workers[w].response]]
  /\ UNCHANGED <<server, instance, faults>>

\* Too late, cancelled by the stop event, or nobody there to read.
FailWrite(w) ==
  /\ AtPhase(w, "writing")
  /\ workers[w].expired \/ server = "stopping" \/ ~workers[w].open
  /\ EndWorker(w)

-----------------------------------------------------------------------------
(* Start and stop.                                                         *)

\* The server's own connections, when the thread or the process ends.
Connections ==
  {workers[w] : w \in {v \in Entries : Serving(v)}}
    \union (IF instance \in {NoInstance, Listening} THEN {} ELSE {instance})

Empty == [w \in Entries |-> Free]

StartServer ==
  /\ server = "down"
  /\ server' = "serving" /\ instance' = Listening
  /\ UNCHANGED <<workers, transaction, faults>>

\* Fault: the workers are not joined.
StopsWithoutJoin ==
  /\ server = "stopping"
  /\ server' = "down"
  /\ instance' = NoInstance
  /\ transaction' = ClosedFor(Connections)
  /\ UNCHANGED <<workers, faults>>

\* run() closes what it holds, reap_client_workers(true) joins every worker.
StopReturns ==
  /\ server = "stopping"
  /\ \A w \in Entries : ~Serving(w)
  /\ server' = "down"
  /\ instance' = NoInstance
  /\ workers' = Empty
  /\ transaction' = ClosedFor(Connections)
  /\ UNCHANGED faults

\* The process is killed.
ProcessDies ==
  /\ server # "down"
  /\ Fault
  /\ server' = "down"
  /\ instance' = NoInstance
  /\ workers' = Empty
  /\ transaction' = ClosedFor(Connections)

PipeInit ==
  /\ server = "down" /\ instance = NoInstance /\ workers = Empty
  /\ transaction = [c \in Clients |-> NoTransaction]
  /\ faults = 0

ServerSteps == Accept \/ StopReturns
WorkerSteps(w) == ReadRequest(w) \/ AbandonRead(w) \/ WriteResponse(w) \/ FailWrite(w)
ClientSteps(c) == Connect(c) \/ ConnectFails(c) \/ Send(c)
=============================================================================
