------------------------- MODULE AuctionServerProofs -------------------------
(***************************************************************************)
(* Proofs about AuctionServer, for any number of worker threads, clients,  *)
(* failing accepts and starts.                                             *)
(***************************************************************************)
EXTENDS AuctionServer, FiniteSetTheorems, TLAPS

Handlers == {w \in Workers : Handling(w)}
Busy     == Cardinality(Handlers)

(* Outside a start() and the stop() that follows it, there is no worker.   *)
WorkersOnlyInService ==
  owner \in {"main", "failed", "constructed", "stopped", "destroyed"} =>
    \A w \in Workers : worker[w] = "none"

(* stop() was called since the first start(): the context is stopped.      *)
StoppedForGood == starts > 1 \/ (starts = 1 /\ ~running_) => stopped

(* The inductive invariant: AcceptChains bounds the accepts outstanding,   *)
(* and no worker is left to break it once the server is destroyed.         *)
ServerInv ==
  /\ TypeOK
  /\ AcceptChains
  /\ WorkersOnlyInService
  /\ StoppedForGood

-----------------------------------------------------------------------------
(* The workers that are in a handler: how their number changes.            *)
LEMMA BusyType == IsFiniteSet(Handlers) /\ Busy \in Nat /\ Outstanding = accepting + Len(ready) + Busy
<1>1. IsFiniteSet(Workers)
  BY ServerConstantsOK, FS_Interval DEF Workers
<1>2. IsFiniteSet(Handlers)
  BY <1>1, FS_Subset DEF Handlers
<1>3. Busy \in Nat
  BY <1>2, FS_CardinalityType DEF Busy
<1> QED
  BY <1>2, <1>3 DEF Outstanding, Busy, Handlers

LEMMA SameHandlers ==
  ASSUME \A w \in Workers : Handling(w)' <=> Handling(w)
  PROVE  Busy' = Busy
<1>1. Handlers' = Handlers
  BY DEF Handlers
<1> QED
  BY <1>1 DEF Busy

LEMMA HandlerBegins ==
  ASSUME NEW w \in Workers, ~Handling(w), Handling(w)',
         \A v \in Workers \ {w} : Handling(v)' <=> Handling(v)
  PROVE  Busy' = Busy + 1
<1>1. Handlers' = Handlers \cup {w} /\ w \notin Handlers
  BY DEF Handlers
<1> QED
  BY <1>1, BusyType, FS_AddElement DEF Busy

LEMMA HandlerEnds ==
  ASSUME NEW w \in Workers, Handling(w), ~Handling(w)',
         \A v \in Workers \ {w} : Handling(v)' <=> Handling(v)
  PROVE  Busy' = Busy - 1 /\ Busy >= 1
<1>1. Handlers' = Handlers \ {w} /\ w \in Handlers
  BY DEF Handlers
<1>2. Busy' = Busy - 1
  BY <1>1, BusyType, FS_RemoveElement DEF Busy
<1>3. Busy # 0
  BY <1>1, BusyType, FS_EmptySet DEF Busy
<1> QED
  BY <1>2, <1>3, BusyType

LEMMA OneMoreAccept ==
  ASSUME TypeOK, ArmAccept
  PROVE  /\ accepting' \in {accepting, accepting + 1}
         /\ ready' \in Seq({"client", "error"})
         /\ accepting' + Len(ready') = accepting + Len(ready) + 1
         /\ clients' \in 0 .. connects
<1>1. CASE accepting' = accepting + 1 /\ UNCHANGED <<ready, clients>>
  BY <1>1 DEF TypeOK
<1>2. CASE clients > 0 /\ clients' = clients - 1 /\ ready' = Append(ready, "client") /\ UNCHANGED accepting
  BY <1>2 DEF TypeOK
<1> QED
  BY <1>1, <1>2 DEF ArmAccept

-----------------------------------------------------------------------------
LEMMA ServerInit == Init => ServerInv
<1> SUFFICES ASSUME Init PROVE ServerInv
  OBVIOUS
<1>1. TypeOK
  <2>1. ready \in Seq({"client", "error"})
    BY DEF Init
  <2>2. running_ \in BOOLEAN /\ (running_ <=> owner \in {"spawning", "serving", "unwinding"})
    BY DEF Init
  <2>3. /\ thread_count \in 0 .. MaxThreads /\ accepting \in 0 .. starts /\ clients \in 0 .. connects
        /\ starts \in 0 .. MaxStarts /\ thrown \in 0 .. starts
        /\ connects \in 0 .. MaxClients /\ errors \in 0 .. MaxErrors
    BY ServerConstantsOK DEF Init
  <2> QED
    BY <2>1, <2>2, <2>3 DEF Init, TypeOK
<1>2. Handlers = {}
  BY DEF Init, Handlers, Handling
<1>3. Outstanding = 0
  BY <1>2, FS_EmptySet, BusyType DEF Init, Busy
<1> QED
  BY <1>1, <1>3 DEF Init, ServerInv, AcceptChains, WorkersOnlyInService, StoppedForGood

(* The steps of the owner and of the clients begin or end no handler.      *)
LEMMA OwnerSteps ==
  ASSUME ServerInv, Construct \/ start \/ Spawn \/ stop \/ Join \/ Destroy
  PROVE  ServerInv'
<1> USE ServerConstantsOK
<1>1. TypeOK /\ AcceptChains /\ WorkersOnlyInService /\ StoppedForGood
  BY DEF ServerInv
<1>2. Busy \in Nat /\ Outstanding = accepting + Len(ready) + Busy
  BY BusyType
<1>3. \A w \in Workers : Handling(w)' <=> Handling(w)
  <2>1. CASE Construct \/ start \/ stop \/ Destroy
    BY <2>1 DEF Construct, start, stop, Destroy, Handling
  <2>2. CASE Spawn
    BY <1>1, <2>2 DEF Spawn, Handling, TypeOK
  <2>3. CASE Join
    BY <1>1, <2>3 DEF Join, Over, Handling
  <2> QED
    BY <2>1, <2>2, <2>3
<1>4. Busy' = Busy /\ Outstanding' = accepting' + Len(ready') + Busy'
  BY <1>3, SameHandlers DEF Outstanding, Busy, Handlers
<1>5. CASE Construct
  <2>1. TypeOK'
    BY <1>1, <1>5 DEF TypeOK, Construct, io, history
  <2> QED
    BY <1>1, <1>2, <1>4, <1>5, <2>1
    DEF ServerInv, Construct, io, history, AcceptChains, WorkersOnlyInService, StoppedForGood
<1>6. CASE start
  <2>1. /\ accepting' \in {accepting, accepting + 1}
        /\ ready' \in Seq({"client", "error"})
        /\ accepting' + Len(ready') = accepting + Len(ready) + 1
        /\ clients' \in 0 .. connects
    BY <1>1, <1>6, OneMoreAccept DEF start
  <2>2. TypeOK'
    BY <1>1, <1>6, <2>1 DEF TypeOK, start
  <2>3. AcceptChains'
    BY <1>1, <1>2, <1>4, <1>6, <2>1 DEF AcceptChains, start, TypeOK
  <2> QED
    BY <1>1, <1>6, <2>2, <2>3
    DEF ServerInv, start, TypeOK, WorkersOnlyInService, StoppedForGood
<1>7. CASE Spawn
  <2>1. TypeOK'
    BY <1>1, <1>7 DEF TypeOK, Spawn, io, history
  <2> QED
    BY <1>1, <1>2, <1>4, <1>7, <2>1
    DEF ServerInv, Spawn, io, history, AcceptChains, WorkersOnlyInService, StoppedForGood
<1>8. CASE stop
  <2>1. TypeOK'
    BY <1>1, <1>8 DEF TypeOK, stop, history
  <2> QED
    BY <1>1, <1>2, <1>4, <1>8, <2>1
    DEF ServerInv, stop, history, AcceptChains, WorkersOnlyInService, StoppedForGood
<1>9. CASE Join
  <2>1. TypeOK'
    BY <1>1, <1>9 DEF TypeOK, Join, io, history
  <2> QED
    BY <1>1, <1>2, <1>4, <1>9, <2>1
    DEF ServerInv, Join, io, history, AcceptChains, WorkersOnlyInService, StoppedForGood
<1>10. CASE Destroy
  <2>1. TypeOK'
    BY <1>1, <1>10 DEF TypeOK, Destroy, history
  <2> QED
    BY <1>1, <1>10, <2>1
    DEF ServerInv, Destroy, history, AcceptChains, WorkersOnlyInService, StoppedForGood
<1> QED
  BY <1>5, <1>6, <1>7, <1>8, <1>9, <1>10

LEMMA ClientSteps ==
  ASSUME ServerInv, Connect \/ AcceptClient \/ AcceptFails
  PROVE  ServerInv'
<1> USE ServerConstantsOK
<1>1. TypeOK /\ AcceptChains /\ WorkersOnlyInService /\ StoppedForGood
  BY DEF ServerInv
<1>2. Busy \in Nat /\ Outstanding = accepting + Len(ready) + Busy
  BY BusyType
<1>3. UNCHANGED <<owner, thread_count, running_, stopped, worker, starts, thrown>>
  BY DEF Connect, AcceptClient, AcceptFails, Complete, io
<1>4. Busy' = Busy /\ Outstanding' = accepting' + Len(ready') + Busy'
  BY <1>3, SameHandlers DEF Outstanding, Busy, Handlers, Handling
<1>5. /\ accepting' \in 0 .. starts
      /\ ready' \in Seq({"client", "error"})
      /\ accepting' + Len(ready') = accepting + Len(ready)
  <2>1. CASE Connect
    BY <1>1, <2>1 DEF Connect, io, TypeOK
  <2>2. CASE \E r \in {"client", "error"} : Complete(r)
    BY <1>1, <2>2 DEF Complete, TypeOK
  <2> QED
    BY <2>1, <2>2 DEF AcceptClient, AcceptFails
<1>6. clients' \in 0 .. connects' /\ connects' \in 0 .. MaxClients /\ errors' \in 0 .. MaxErrors
  BY <1>1 DEF Connect, AcceptClient, AcceptFails, Complete, TypeOK
<1>7. TypeOK'
  BY <1>1, <1>3, <1>5, <1>6 DEF TypeOK
<1> QED
  BY <1>1, <1>2, <1>3, <1>4, <1>5, <1>7
  DEF ServerInv, AcceptChains, WorkersOnlyInService, StoppedForGood

(* A worker takes a result, and its handler passes the chain on, unless    *)
(* remote_endpoint throws.                                                 *)
LEMMA WorkerSteps ==
  ASSUME ServerInv, NEW w \in Workers, run_worker(w)
  PROVE  ServerInv'
<1>1. TypeOK /\ AcceptChains /\ WorkersOnlyInService /\ StoppedForGood
  BY DEF ServerInv
<1>2. Busy \in Nat /\ Outstanding = accepting + Len(ready) + Busy
  BY BusyType
<1>3. worker[w] # "none" /\ owner \notin {"main", "failed", "constructed", "stopped", "destroyed"}
  BY <1>1 DEF run_worker, RunHandler, remote_endpoint, accept_connection, RunReturns,
     WorkersOnlyInService
<1>4. accepting + Len(ready) + Busy + thrown = starts
  BY <1>1, <1>2, <1>3 DEF AcceptChains
<1>5. Outstanding' = accepting' + Len(ready') + Busy'
  BY DEF Outstanding, Busy, Handlers
<1>6. UNCHANGED <<owner, thread_count, running_, starts, connects, errors>>
  BY DEF run_worker, RunHandler, remote_endpoint, accept_connection, RunReturns, io, history
<1>7. CASE RunHandler(w)
  <2>1. Head(ready) \in {"client", "error"} /\ ready' \in Seq({"client", "error"})
        /\ Len(ready') = Len(ready) - 1
    BY <1>1, <1>7 DEF RunHandler, TypeOK
  <2>2. \A v \in Workers : worker'[v] = IF v = w THEN Head(ready) ELSE worker[v]
    BY <1>1, <1>7 DEF RunHandler, Goto, TypeOK
  <2>3. Busy' = Busy + 1
    <3>1. ~Handling(w) /\ Handling(w)'
      BY <1>7, <2>1, <2>2 DEF RunHandler, Handling
    <3>2. \A v \in Workers \ {w} : Handling(v)' <=> Handling(v)
      BY <2>2 DEF Handling
    <3> QED
      BY <3>1, <3>2, HandlerBegins
  <2>4. worker' \in [Workers -> {"none", "run", "client", "error", "rearm", "ended"}]
    BY <1>1, <1>7, <2>1 DEF RunHandler, Goto, TypeOK
  <2>5. UNCHANGED <<stopped, accepting, clients, thrown>>
    BY <1>7 DEF RunHandler, history
  <2>6. TypeOK'
    BY <1>1, <1>6, <2>1, <2>4, <2>5 DEF TypeOK
  <2> QED
    BY <1>1, <1>2, <1>3, <1>4, <1>5, <1>6, <2>1, <2>3, <2>5, <2>6
    DEF ServerInv, AcceptChains, WorkersOnlyInService, StoppedForGood, TypeOK
<1>8. CASE remote_endpoint(w)
  <2>1. UNCHANGED <<accepting, ready, clients>>
    BY <1>8 DEF remote_endpoint
  <2>2. CASE Goto(w, "rearm") /\ UNCHANGED <<stopped, thrown>>
    <3>1. Busy' = Busy
      BY <1>1, <1>8, <2>2, SameHandlers DEF remote_endpoint, Goto, Handling, TypeOK
    <3>2. worker' \in [Workers -> {"none", "run", "client", "error", "rearm", "ended"}]
      BY <1>1, <2>2 DEF Goto, TypeOK
    <3>3. TypeOK'
      BY <1>1, <1>6, <2>1, <2>2, <3>2 DEF TypeOK
    <3> QED
      BY <1>1, <1>2, <1>3, <1>4, <1>5, <1>6, <2>1, <2>2, <3>1, <3>3
      DEF ServerInv, AcceptChains, WorkersOnlyInService, StoppedForGood
  <2>3. CASE Goto(w, "ended") /\ thrown' = thrown + 1 /\ stopped' = (stopped \/ Outstanding = 1)
    <3>1. \A v \in Workers : worker'[v] = IF v = w THEN "ended" ELSE worker[v]
      BY <1>1, <2>3 DEF Goto, TypeOK
    <3>2. Busy' = Busy - 1 /\ Busy >= 1
      <4>1. Handling(w) /\ ~Handling(w)'
        BY <1>8, <3>1 DEF remote_endpoint, Handling
      <4>2. \A v \in Workers \ {w} : Handling(v)' <=> Handling(v)
        BY <3>1 DEF Handling
      <4> QED
        BY <4>1, <4>2, HandlerEnds
    <3>3. worker' \in [Workers -> {"none", "run", "client", "error", "rearm", "ended"}]
      BY <1>1, <2>3 DEF Goto, TypeOK
    <3>4. thrown' \in 0 .. starts /\ stopped' \in BOOLEAN
      BY <1>1, <1>2, <1>4, <2>3, <3>2 DEF TypeOK
    <3>5. TypeOK'
      BY <1>1, <1>6, <2>1, <3>3, <3>4 DEF TypeOK
    <3>6. AcceptChains'
      BY <1>1, <1>2, <1>4, <1>5, <1>6, <2>1, <2>3, <3>2 DEF AcceptChains, TypeOK
    <3> QED
      BY <1>1, <1>3, <1>6, <2>3, <3>5, <3>6 DEF ServerInv, WorkersOnlyInService, StoppedForGood
  <2> QED
    BY <1>8, <2>2, <2>3 DEF remote_endpoint
<1>9. CASE accept_connection(w)
  <2>1. /\ accepting' \in {accepting, accepting + 1}
        /\ ready' \in Seq({"client", "error"})
        /\ accepting' + Len(ready') = accepting + Len(ready) + 1
        /\ clients' \in 0 .. connects
    BY <1>1, <1>9, OneMoreAccept DEF accept_connection
  <2>2. \A v \in Workers : worker'[v] = IF v = w THEN "run" ELSE worker[v]
    BY <1>1, <1>9 DEF accept_connection, Goto, TypeOK
  <2>3. Busy' = Busy - 1 /\ Busy >= 1
    <3>1. Handling(w) /\ ~Handling(w)'
      BY <1>9, <2>2 DEF accept_connection, Handling
    <3>2. \A v \in Workers \ {w} : Handling(v)' <=> Handling(v)
      BY <2>2 DEF Handling
    <3> QED
      BY <3>1, <3>2, HandlerEnds
  <2>4. worker' \in [Workers -> {"none", "run", "client", "error", "rearm", "ended"}]
    BY <1>1, <1>9 DEF accept_connection, Goto, TypeOK
  <2>5. UNCHANGED <<stopped, thrown>>
    BY <1>9 DEF accept_connection, history
  <2>6. accepting' \in 0 .. starts
    BY <1>1, <1>2, <1>4, <2>1, <2>3 DEF TypeOK
  <2>7. TypeOK'
    BY <1>1, <1>6, <2>1, <2>4, <2>5, <2>6 DEF TypeOK
  <2>8. AcceptChains'
    BY <1>1, <1>2, <1>4, <1>5, <1>6, <2>1, <2>3, <2>5 DEF AcceptChains, TypeOK
  <2> QED
    BY <1>1, <1>3, <1>6, <2>5, <2>7, <2>8 DEF ServerInv, WorkersOnlyInService, StoppedForGood
<1>10. CASE RunReturns(w)
  <2>1. Busy' = Busy
    BY <1>1, <1>10, SameHandlers DEF RunReturns, Goto, Handling, TypeOK
  <2>2. TypeOK'
    BY <1>1, <1>10 DEF TypeOK, RunReturns, Goto, io, history
  <2> QED
    BY <1>1, <1>3, <1>4, <1>5, <1>6, <1>10, <2>1, <2>2
    DEF ServerInv, AcceptChains, WorkersOnlyInService, StoppedForGood, RunReturns, io, history
<1> QED
  BY <1>7, <1>8, <1>9, <1>10 DEF run_worker

LEMMA ServerStep == ServerInv /\ [Next]_vars => ServerInv'
<1>1. ASSUME ServerInv, UNCHANGED vars PROVE ServerInv'
  BY <1>1, SameHandlers DEF vars, io, history, ServerInv, TypeOK, AcceptChains, Outstanding,
     Handling, WorkersOnlyInService, StoppedForGood
<1> QED
  BY <1>1, OwnerSteps, ClientSteps, WorkerSteps DEF Next

-----------------------------------------------------------------------------
LEMMA ServerInvariant == Spec => []ServerInv
  BY ServerInit, ServerStep, PTL DEF Spec

(* Every variable of the server keeps its type; running_ is true exactly   *)
(* from start() to stop(), and no chain of accepts ever doubles.           *)
THEOREM TypeCorrect == Spec => []TypeOK
<1>1. ServerInv => TypeOK
  BY DEF ServerInv
<1> QED
  BY <1>1, ServerInvariant, PTL

(* One chain of accepts per start(): a chain is waiting, ready or in a     *)
(* handler, or an exception of remote_endpoint ended it.                   *)
THEOREM ChainsAccounted == Spec => []AcceptChains
<1>1. ServerInv => AcceptChains
  BY DEF ServerInv
<1> QED
  BY <1>1, ServerInvariant, PTL

(* Whoever destroys the server after stop() finds no worker in it.         *)
THEOREM WorkersJoined == Spec => []NoWorkerOutlivesStop
<1>1. ServerInv => NoWorkerOutlivesStop
  BY DEF ServerInv, WorkersOnlyInService, NoWorkerOutlivesStop
<1> QED
  BY <1>1, ServerInvariant, PTL

(* No handler begins after stop(), also not after a second start().        *)
THEOREM StoppedIsFinal == Spec => StopIsFinal
<1>1. ServerInv /\ [Next]_vars =>
        [starts > 1 \/ (starts = 1 /\ ~running_) =>
           \A w \in Workers : worker[w] = "run" => worker'[w] \in {"run", "ended", "none"}]_vars
  <2> SUFFICES ASSUME ServerInv, Next, starts > 1 \/ (starts = 1 /\ ~running_),
                      NEW w \in Workers, worker[w] = "run"
               PROVE  worker'[w] \in {"run", "ended", "none"}
    OBVIOUS
  <2>1. stopped /\ TypeOK
    BY DEF ServerInv, StoppedForGood
  <2>2. CASE UNCHANGED worker
    BY <2>2
  <2>3. CASE Spawn \/ Join
    BY <2>1, <2>3 DEF Spawn, Join, Over, TypeOK
  <2>4. CASE \E v \in Workers : run_worker(v)
    <3>1. PICK v \in Workers : run_worker(v)
      BY <2>4
    <3>2. \E a \in {"run", "ended", "rearm"} :
            Goto(v, a) /\ (a = "rearm" => worker[v] = "client")
      BY <2>1, <3>1 DEF run_worker, RunHandler, remote_endpoint, accept_connection, RunReturns
    <3> QED
      BY <2>1, <3>2 DEF Goto, TypeOK
  <2> QED
    BY <2>2, <2>3, <2>4
    DEF Next, Construct, start, stop, Destroy, Connect, AcceptClient, AcceptFails, Complete, io
<1> QED
  BY <1>1, ServerInvariant, PTL DEF Spec, StopIsFinal
=============================================================================
