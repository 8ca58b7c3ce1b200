---------------------------- MODULE AuctionServer ----------------------------
(***************************************************************************)
(* The server object and its life in main (src/Server.cpp, src/main.cpp):  *)
(* the thread that owns it starts and stops it; its workers run the        *)
(* io_context, on which a chain of async_accepts hands over clients.       *)
(*                                                                         *)
(* The io_context is modelled by what this code sees of it: run() executes *)
(* completion handlers until stop() was called or no work is left, lets an *)
(* exception of a handler pass, and returns at once when the context is    *)
(* stopped; nothing here restarts it.                                      *)
(***************************************************************************)
EXTENDS Naturals, Sequences, FiniteSets

CONSTANTS MaxThreads, MaxClients, MaxErrors, MaxStarts   \* bounds of the instance

Workers == 1 .. MaxThreads

ASSUME ServerConstantsOK ==
  MaxThreads \in Nat /\ MaxClients \in Nat /\ MaxErrors \in Nat /\ MaxStarts \in Nat

VARIABLES
  owner,         \* where main, or whoever owns the server, stands
  thread_count,  \* worker_threads_.size()
  running_,
  stopped,       \* io_context_.stopped()
  accepting,     \* outstanding async_accepts
  ready,         \* their results, waiting for a worker
  worker,        \* what each worker thread is doing
  clients,       \* connections that wait in the listening socket
  starts, thrown, connects, errors   \* history: how often each happened

io      == <<stopped, accepting, ready>>
history == <<starts, thrown, connects, errors>>
vars    == <<owner, thread_count, running_, io, worker, clients, history>>

Init ==
  /\ owner = "main"
  /\ thread_count = 0
  /\ running_ = FALSE
  /\ stopped = FALSE
  /\ accepting = 0
  /\ ready = <<>>
  /\ worker = [w \in Workers |-> "none"]
  /\ clients = 0
  /\ starts = 0 /\ thrown = 0 /\ connects = 0 /\ errors = 0

-----------------------------------------------------------------------------
(* The owner.  main reads the number of threads from the command line or   *)
(* from hardware_concurrency, which may be 0; a bad argument, a port in    *)
(* use or a number that resize refuses ends it before there is a server.   *)

Construct ==
  /\ owner = "main"
  /\ \/ owner' = "constructed" /\ thread_count' \in 0 .. MaxThreads
     \/ owner' = "failed" /\ UNCHANGED thread_count
  /\ UNCHANGED <<running_, io, worker, clients, history>>

(* async_accept takes a client that waits already, or waits for one.       *)
ArmAccept ==
  \/ accepting' = accepting + 1 /\ UNCHANGED <<ready, clients>>
  \/ /\ clients > 0
     /\ clients' = clients - 1
     /\ ready' = Append(ready, "client")
     /\ UNCHANGED accepting

(* A second start() of a server that was stopped is legal, though main     *)
(* does not call it.                                                       *)
start ==
  /\ owner \in {"constructed", "stopped"}
  /\ ~running_
  /\ starts < MaxStarts
  /\ starts' = starts + 1
  /\ running_' = TRUE
  /\ ArmAccept
  /\ owner' = "spawning"
  /\ UNCHANGED <<thread_count, stopped, worker, thrown, connects, errors>>

(* std::thread may throw; main then destroys the server, whose destructor  *)
(* calls stop().                                                           *)
Spawn ==
  /\ owner = "spawning"
  /\ \/ \E w \in 1 .. thread_count :
          /\ worker[w] = "none"
          /\ \A v \in 1 .. w - 1 : worker[v] # "none"
          /\ worker' = [worker EXCEPT ![w] = "run"]
          /\ owner' = IF w = thread_count THEN "serving" ELSE owner
     \/ thread_count = 0 /\ owner' = "serving" /\ UNCHANGED worker
     \/ thread_count > 0 /\ owner' = "unwinding" /\ UNCHANGED worker
  /\ UNCHANGED <<thread_count, running_, io, clients, history>>

stopWithoutContext ==                             \* mutant: io_context_.stop() is missing
  /\ owner \in {"serving", "unwinding"}
  /\ running_' = FALSE
  /\ owner' = "joining"
  /\ UNCHANGED <<thread_count, io, worker, clients, history>>
stopStillRunning ==                               \* mutant: running_ is not reset
  /\ owner \in {"serving", "unwinding"}
  /\ stopped' = TRUE
  /\ owner' = "joining"
  /\ UNCHANGED <<thread_count, running_, accepting, ready, worker, clients, history>>
stop ==
  /\ owner \in {"serving", "unwinding"}
  /\ running_' = FALSE
  /\ stopped' = TRUE
  /\ owner' = "joining"
  /\ UNCHANGED <<thread_count, accepting, ready, worker, clients, history>>

Over(w) == worker[w] \in {"none", "ended"}
JoinFirst ==                                      \* mutant: the join loop ends early
  /\ owner = "joining"
  /\ \A w \in Workers : w = 1 => Over(w)
  /\ worker' = [w \in Workers |-> IF Over(w) THEN "none" ELSE worker[w]]
  /\ owner' = "stopped"
  /\ UNCHANGED <<thread_count, running_, io, clients, history>>
Join ==
  /\ owner = "joining"
  /\ \A w \in Workers : Over(w)
  /\ worker' = [w \in Workers |-> "none"]
  /\ owner' = "stopped"
  /\ UNCHANGED <<thread_count, running_, io, clients, history>>

(* The acceptor and the io_context go, with everything outstanding.        *)
Destroy ==
  /\ owner \in {"constructed", "stopped"}
  /\ owner' = "destroyed"
  /\ accepting' = 0
  /\ ready' = <<>>
  /\ clients' = 0
  /\ UNCHANGED <<thread_count, running_, stopped, worker, history>>

-----------------------------------------------------------------------------
(* Clients connect; an async_accept completes with a client or an error,   *)
(* which takes a worker that polls the context.                            *)

Connect ==
  /\ owner \notin {"main", "failed", "destroyed"}
  /\ connects < MaxClients
  /\ connects' = connects + 1
  /\ clients' = clients + 1
  /\ UNCHANGED <<owner, thread_count, running_, io, worker, starts, thrown, errors>>

Polled == ~stopped /\ \E w \in Workers : worker[w] = "run"

Complete(result) ==
  /\ Polled
  /\ accepting > 0
  /\ accepting' = accepting - 1
  /\ ready' = Append(ready, result)
  /\ UNCHANGED <<owner, thread_count, running_, stopped, worker, starts, thrown, connects>>

AcceptClient == clients > 0 /\ clients' = clients - 1 /\ UNCHANGED errors /\ Complete("client")
AcceptFails  == errors < MaxErrors /\ errors' = errors + 1 /\ UNCHANGED clients /\ Complete("error")

-----------------------------------------------------------------------------
(* The workers.                                                            *)

Goto(w, at) == worker' = [worker EXCEPT ![w] = at]
Handling(w) == worker[w] \in {"client", "error", "rearm"}

RunHandler(w) ==
  /\ worker[w] = "run"
  /\ ~stopped
  /\ ready # <<>>
  /\ Goto(w, Head(ready))
  /\ ready' = Tail(ready)
  /\ UNCHANGED <<owner, thread_count, running_, stopped, accepting, clients, history>>

(* remote_endpoint() throws when the client is gone already.  The          *)
(* exception leaves run() and ends the worker; when that was the last work *)
(* of the context, the context stops.  Otherwise handle_new_connection,    *)
(* a stub, drops the socket.                                               *)
Outstanding == accepting + Len(ready) + Cardinality({w \in Workers : Handling(w)})

remote_endpoint(w) ==
  /\ worker[w] = "client"
  /\ \/ Goto(w, "rearm") /\ UNCHANGED <<stopped, thrown>>
     \/ /\ Goto(w, "ended")
        /\ thrown' = thrown + 1
        /\ stopped' = (stopped \/ Outstanding = 1)
  /\ UNCHANGED <<owner, thread_count, running_, accepting, ready, clients, starts, connects, errors>>

rearmAfterClients(w) ==                           \* mutant: an error returns from the handler
  /\ worker[w] \in {"rearm", "error"}
  /\ IF worker[w] = "rearm" THEN ArmAccept ELSE UNCHANGED <<accepting, ready, clients>>
  /\ Goto(w, "run")
  /\ UNCHANGED <<owner, thread_count, running_, stopped, history>>
accept_connection(w) ==
  /\ worker[w] \in {"rearm", "error"}
  /\ ArmAccept
  /\ Goto(w, "run")
  /\ UNCHANGED <<owner, thread_count, running_, stopped, history>>

RunReturns(w) ==
  /\ worker[w] = "run"
  /\ stopped
  /\ Goto(w, "ended")
  /\ UNCHANGED <<owner, thread_count, running_, io, clients, history>>

run_worker(w) == RunHandler(w) \/ remote_endpoint(w) \/ accept_connection(w) \/ RunReturns(w)

Next ==
  \/ Construct \/ start \/ Spawn \/ stop \/ Join \/ Destroy
  \/ Connect \/ AcceptClient \/ AcceptFails
  \/ \E w \in Workers : run_worker(w)

Spec == Init /\ [][Next]_vars

(* start() and join() proceed, workers are scheduled, the kernel hands     *)
(* over the clients that wait; nobody has to connect, or to press Enter.   *)
FairSpec ==
  /\ Spec
  /\ WF_vars(Spawn) /\ WF_vars(Join) /\ WF_vars(AcceptClient)
  /\ \A w \in Workers : WF_vars(run_worker(w))

-----------------------------------------------------------------------------
TypeOK ==
  /\ owner \in {"main", "failed", "constructed", "spawning", "serving", "unwinding",
                "joining", "stopped", "destroyed"}
  /\ thread_count \in 0 .. MaxThreads
  /\ running_ \in BOOLEAN /\ (running_ <=> owner \in {"spawning", "serving", "unwinding"})
  /\ stopped \in BOOLEAN
  /\ accepting \in 0 .. starts
  /\ ready \in Seq({"client", "error"})
  /\ worker \in [Workers -> {"none", "run", "client", "error", "rearm", "ended"}]
  /\ clients \in 0 .. connects
  /\ starts \in 0 .. MaxStarts /\ thrown \in 0 .. starts
  /\ connects \in 0 .. MaxClients /\ errors \in 0 .. MaxErrors

(* Each start() begins one chain of accepts, and each handler passes its   *)
(* chain on, after a client as after an error, so that no two accepts of   *)
(* one start() are ever outstanding; only an exception of remote_endpoint  *)
(* ends a chain, and stop() ends none.                                     *)
AcceptChains == owner # "destroyed" => Outstanding + thrown = starts

(* When stop() returns, no worker uses the server any more, so that main   *)
(* may destroy it, also when start() failed half way.                      *)
NoWorkerOutlivesStop ==
  owner \in {"stopped", "destroyed"} => \A w \in Workers : worker[w] = "none"

(* After stop(), no handler begins, not even after another start(): its    *)
(* workers find the context stopped.                                       *)
StopIsFinal ==
  [][starts > 1 \/ (starts = 1 /\ ~running_) =>
       \A w \in Workers : worker[w] = "run" => worker'[w] \in {"run", "ended", "none"}]_vars

(* stop() returns: no worker keeps it waiting in join.                     *)
StopReturns == (owner = "joining") ~> (owner = "stopped")

(* A client that connects to a serving server is taken, whatever accepts   *)
(* failed before, as long as the server has threads, is not stopped, and   *)
(* no earlier client was gone before its handler ran.                      *)
ClientsAreTaken ==
  (clients > 0 /\ owner = "serving") ~>
    ((clients = 0 /\ ready = <<>>) \/ thread_count = 0 \/ thrown > 0 \/ starts > 1 \/ ~running_)

(* What the comment in accept_connection says: after each client the next  *)
(* connection is accepted, so that a running server has an accept pending  *)
(* or is about to.                                                         *)
KeepsAccepting == running_ /\ owner = "serving" => Outstanding > 0
=============================================================================
