------------------------- MODULE ServerProcessProofs -------------------------
(***************************************************************************)
(* The server process (ServerProcess), for any number of threads, peers    *)
(* and signals: the main thread holds mutex_ exactly inside its calls of   *)
(* RaftNode, no handler runs on a destroyed node unless an exception ended *)
(* the main loop, and a leader's heartbeat is late only while all workers  *)
(* wait for peers that do not answer.                                      *)
(***************************************************************************)
EXTENDS ServerProcess, FiniteSetTheorems, FunctionTheorems, SequenceTheorems, TLAPS

USE DeadArePeers, ThreadsFinite, SignalBound

Task == [rpc : {"vote", "append"}, peer : Peer]

MainOK ==
    /\ main \in InLoop \cup {"start", "construct", "serve", "stop", "destroy", "destroying", "end", "join",
                              "exit", "exited", "terminated"}
    /\ role \in {"follower", "candidate", "leader"}
    /\ server \in {"none", "running", "shutdown", "stopped"}
    /\ node \in {"none", "alive", "closing", "destroyed"}
    /\ mutex \in {"main", "async", Nobody}
    /\ main # "terminated" => (mutex = "main" <=> main \in InMutex)

\* A worker waits, has ended, or has a task; its fields do not come and go.
PoolOK ==
    /\ tasks \in Seq(Task)
    /\ worker \in [Worker -> [state : {"wait", "exited"}, left : {0}]
                             \cup [state : {"args", "call"}, left : 0..DEADLINE,
                                   rpc : {"vote", "append"}, peer : Peer]]

ClockOK ==
    /\ signal \in BOOLEAN /\ signals \in 0..MaxSignals
    /\ age \in [Peer -> 0..ELECTION_MIN]

\* main is on its way out, past stop.
Leaving == {"destroy", "destroying", "end", "join", "exit", "exited"}

\* Handlers run only on a server that was started and has not stopped; main
\* starts it once, and leaves it behind only after an exception.
HandlerOK ==
    /\ handler \in [Handler -> BOOLEAN]
    /\ server \in {"none", "stopped"} => \A h \in Handler : ~handler[h]
    /\ main \in {"start", "construct", "serve"} => server = "none"
    /\ main \in Leaving => threw \/ server \in {"none", "stopped"}
    /\ node = "destroyed" => main \in {"end", "join", "exit", "exited", "terminated"}
    /\ HandlersUseLiveNode

ProcessIInv == MainOK /\ PoolOK /\ ClockOK /\ HandlerOK
-----------------------------------------------------------------------------
(* The tasks of the pool *)

\* PeerOrder is an order of the peers, in which each has one place.
LEMMA PeerOrderIsOrder ==
    /\ PeerOrder \in [1..Cardinality(Peer) -> Peer]
    /\ \A i, j \in 1..Cardinality(Peer) : PeerOrder[i] = PeerOrder[j] => i = j
    /\ \A p \in Peer : \E i \in 1..Cardinality(Peer) : PeerOrder[i] = p
<1> DEFINE n == Cardinality(Peer)
<1>1. PICK s \in Bijection(1..n, Peer) : TRUE
  BY FS_CardinalityType DEF ExistsBijection
<1>2. s \in [1..n -> Peer] /\ \A i, j \in DOMAIN s : s[i] = s[j] => i = j
  BY <1>1 DEF Bijection, Injection, IsInjective
<1>3. PeerOrder \in [1..n -> Peer] /\ \A i, j \in DOMAIN PeerOrder : PeerOrder[i] = PeerOrder[j] => i = j
  BY <1>2 DEF PeerOrder
<1>4. n \in Nat /\ IsFiniteSet(1..n) /\ Cardinality(1..n) = n
  BY FS_CardinalityType, FS_Interval
<1>5. PeerOrder \in Injection(1..n, Peer)
  BY <1>3 DEF Injection, IsInjective
<1>6. PeerOrder \in Surjection(1..n, Peer)
  BY <1>4, <1>5, FS_Injection
<1> QED
  BY <1>3, <1>6 DEF Surjection

\* sendRequestVotesToPeers and sendAppendEntriesToPeers queue one task for each peer.
LEMMA TasksForAreTasks ==
    ASSUME NEW rpc \in {"vote", "append"}
    PROVE  TasksFor(rpc) \in Seq(Task)
<1>1. Cardinality(Peer) \in Nat
  BY FS_CardinalityType
<1>2. TasksFor(rpc) \in [1..Cardinality(Peer) -> Task]
  BY PeerOrderIsOrder DEF TasksFor, Task
<1>3. ASSUME NEW S, NEW n \in Nat, NEW f \in [1..n -> S] PROVE f \in Seq(S)
  OBVIOUS
<1> QED
  BY <1>1, <1>2, <1>3
-----------------------------------------------------------------------------
(* The invariant *)

\* The invariant holds at the start.
LEMMA ProcessInit == Init => ProcessIInv
<1> SUFFICES ASSUME Init PROVE ProcessIInv
  OBVIOUS
<1>1. MainOK
  BY DEF Init, MainOK, InLoop, InMutex
<1>2. PoolOK
  BY DEF Init, PoolOK, Exited
<1>3. ClockOK
  <2>1. 0 \in 0..MaxSignals /\ 0 \in 0..ELECTION_MIN
    OBVIOUS
  <2>2. signal \in BOOLEAN /\ signals \in 0..MaxSignals
    BY <2>1 DEF Init
  <2>3. age \in [Peer -> 0..ELECTION_MIN]
    BY <2>1 DEF Init
  <2> QED
    BY <2>2, <2>3 DEF ClockOK
<1>4. HandlerOK
  BY DEF Init, HandlerOK, Leaving, HandlersUseLiveNode
<1> QED
  BY <1>1, <1>2, <1>3, <1>4 DEF ProcessIInv

\* Steps of main keep it,
LEMMA MainStepKeeps ==
    ASSUME ProcessIInv, MainStep
    PROVE  ProcessIInv'
<1> USE DEF ProcessIInv, nodeVars, poolVars, signalVars, Goto, InLoop, InMutex
<1>1. CASE StartUp
  <2>1. MainOK' /\ ClockOK'
    BY <1>1 DEF StartUp, MainOK, ClockOK
  <2>2. PoolOK'
    BY <1>1 DEF StartUp, PoolOK, Idle
  <2>3. HandlerOK'
    BY <1>1 DEF StartUp, HandlerOK, Leaving, HandlersUseLiveNode
  <2> QED
    BY <2>1, <2>2, <2>3
<1>2. CASE StartServer
  <2>1. MainOK' /\ ClockOK' /\ PoolOK'
    BY <1>2 DEF StartServer, MainOK, ClockOK, PoolOK
  <2>2. HandlerOK'
    BY <1>2 DEF StartServer, HandlerOK, Leaving, HandlersUseLiveNode
  <2> QED
    BY <2>1, <2>2
<1>3. CASE LoopCheck
  <2>1. MainOK' /\ ClockOK' /\ PoolOK'
    BY <1>3 DEF LoopCheck, MainOK, ClockOK, PoolOK
  <2>2. HandlerOK'
    BY <1>3 DEF LoopCheck, HandlerOK, Leaving, HandlersUseLiveNode
  <2> QED
    BY <2>1, <2>2
<1>4. CASE LoopElect
  <2>1. MainOK' /\ PoolOK'
    BY <1>4 DEF LoopElect, Become, MainOK, PoolOK
  <2>2. ClockOK'
    BY <1>4 DEF LoopElect, Become, ClockOK
  <2>3. HandlerOK'
    BY <1>4 DEF LoopElect, HandlerOK, Leaving, HandlersUseLiveNode
  <2> QED
    BY <2>1, <2>2, <2>3
<1>5. ASSUME NEW rpc \in {"vote", "append"} PROVE tasks \o TasksFor(rpc) \in Seq(Task)
  BY TasksForAreTasks, ConcatProperties DEF PoolOK
<1>6. CASE LoopVotes
  <2>1. MainOK'
    BY <1>6 DEF LoopVotes, Become, MainOK
  <2>2. PoolOK'
    BY <1>5, <1>6 DEF LoopVotes, PoolOK
  <2>3. ClockOK'
    BY <1>6 DEF LoopVotes, Become, ClockOK
  <2>4. HandlerOK'
    BY <1>6 DEF LoopVotes, HandlerOK, Leaving, HandlersUseLiveNode
  <2> QED
    BY <2>1, <2>2, <2>3, <2>4
<1>7. CASE LoopHeartbeat
  <2>1. MainOK' /\ ClockOK'
    BY <1>7 DEF LoopHeartbeat, MainOK, ClockOK
  <2>2. PoolOK'
    BY <1>5, <1>7 DEF LoopHeartbeat, PoolOK
  <2>3. HandlerOK'
    BY <1>7 DEF LoopHeartbeat, HandlerOK, Leaving, HandlersUseLiveNode
  <2> QED
    BY <2>1, <2>2, <2>3
<1>8. CASE LoopApply
  <2>1. MainOK' /\ ClockOK' /\ PoolOK'
    BY <1>8 DEF LoopApply, MainOK, ClockOK, PoolOK
  <2>2. HandlerOK'
    BY <1>8 DEF LoopApply, HandlerOK, Leaving, HandlersUseLiveNode
  <2> QED
    BY <2>1, <2>2
<1>9. CASE MainStop
  <2>1. MainOK' /\ ClockOK' /\ PoolOK'
    BY <1>9 DEF MainStop, StopServer, MainOK, ClockOK, PoolOK
  <2>2. HandlerOK'
    BY <1>9 DEF MainStop, StopServer, MainOK, HandlerOK, Leaving, HandlersUseLiveNode
  <2> QED
    BY <2>1, <2>2
<1>10. CASE DestroyNode
  <2>1. MainOK' /\ ClockOK' /\ PoolOK'
    BY <1>10 DEF DestroyNode, MainOK, ClockOK, PoolOK
  <2>2. HandlerOK'
    BY <1>10 DEF DestroyNode, HandlerOK, Leaving, HandlersUseLiveNode
  <2> QED
    BY <2>1, <2>2
<1>11. CASE DestroyPool
  <2>1. MainOK' /\ ClockOK' /\ PoolOK'
    BY <1>11 DEF DestroyPool, MainOK, ClockOK, PoolOK
  <2>2. HandlerOK'
    BY <1>11 DEF DestroyPool, HandlerOK, Leaving, HandlersUseLiveNode
  <2> QED
    BY <2>1, <2>2
<1> QED
  BY <1>1, <1>2, <1>3, <1>4, <1>6, <1>7, <1>8, <1>9, <1>10, <1>11 DEF MainStep

\* and of the signal handler,
LEMMA SignalStepKeeps ==
    ASSUME ProcessIInv, SignalArrives \/ SignalStop \/ NestedSignal
    PROVE  ProcessIInv'
<1> USE DEF ProcessIInv, nodeVars, poolVars, signalVars, InLoop, InMutex
<1>1. MainOK' /\ PoolOK'
  BY DEF SignalArrives, SignalStop, NestedSignal, StopServer, MainOK, PoolOK
<1>2. ClockOK'
  <2>1. signal' \in BOOLEAN
    BY DEF SignalArrives, SignalStop, NestedSignal, StopServer, ClockOK
  <2>2. signals' \in 0..MaxSignals /\ UNCHANGED age
    BY DEF SignalArrives, SignalStop, NestedSignal, ClockOK
  <2> QED
    BY <2>1, <2>2 DEF ClockOK
<1>3. HandlerOK'
  BY DEF SignalArrives, SignalStop, NestedSignal, StopServer, HandlerOK, Leaving, HandlersUseLiveNode
<1> QED
  BY <1>1, <1>2, <1>3

\* of a handler of the server,
LEMMA HandlerStepKeeps ==
    ASSUME ProcessIInv, Alive, NEW h \in Handler, HandlerEnters(h) \/ HandlerLeaves(h)
    PROVE  ProcessIInv'
<1> USE DEF ProcessIInv, nodeVars, poolVars, signalVars
<1>1. MainOK' /\ PoolOK' /\ ClockOK'
  BY DEF HandlerEnters, HandlerLeaves, MainOK, PoolOK, ClockOK
<1>2. CASE HandlerEnters(h)
  <2>1. /\ server = "running" /\ handler' = [handler EXCEPT ![h] = TRUE]
        /\ UNCHANGED <<main, node, server, threw>>
    BY <1>2 DEF HandlerEnters
  <2>2. handler' \in [Handler -> BOOLEAN]
    BY <2>1 DEF HandlerOK
  <2>3. node = "destroyed" => threw
    BY <2>1 DEF HandlerOK, Leaving, Alive
  <2>4. HandlersUseLiveNode'
    BY <2>1, <2>3 DEF HandlersUseLiveNode
  <2> QED
    BY <1>1, <2>1, <2>2, <2>4 DEF HandlerOK
<1>3. CASE HandlerLeaves(h)
  <2>1. /\ handler' = [handler EXCEPT ![h] = FALSE]
        /\ UNCHANGED <<main, node, server, threw>>
    BY <1>3 DEF HandlerLeaves
  <2>2. handler' \in [Handler -> BOOLEAN] /\ \A k \in Handler : handler'[k] => handler[k]
    BY <2>1 DEF HandlerOK
  <2>3. HandlersUseLiveNode'
    BY <2>1, <2>2, Zenon DEF HandlerOK, HandlersUseLiveNode
  <2>4. server \in {"none", "stopped"} => \A k \in Handler : ~handler'[k]
    BY <2>2, Zenon DEF HandlerOK
  <2> QED
    BY <1>1, <2>1, <2>2, <2>3, <2>4 DEF HandlerOK
<1> QED
  BY <1>2, <1>3

\* of a worker of the pool,
LEMMA WorkerStepKeeps ==
    ASSUME ProcessIInv, NEW w \in Worker, WorkerStep(w)
    PROVE  ProcessIInv'
<1> USE DEF ProcessIInv, nodeVars, poolVars, signalVars
<1>1. CASE TakeTask(w)
  <2>1. Head(tasks) \in Task /\ Tail(tasks) \in Seq(Task)
    BY <1>1, HeadTailProperties DEF TakeTask, CanTake, PoolOK
  <2>2. PoolOK'
    BY <1>1, <2>1 DEF TakeTask, PoolOK, Task
  <2>3. MainOK' /\ ClockOK' /\ HandlerOK'
    BY <1>1 DEF TakeTask, MainOK, ClockOK, HandlerOK, HandlersUseLiveNode
  <2> QED
    BY <2>2, <2>3
<1>2. CASE CallPeer(w)
  <2>1. PoolOK'
    <3>1. PICK n : n = IF worker[w].peer \in Dead THEN DEADLINE ELSE 0
      OBVIOUS
    <3>2. worker' = [worker EXCEPT ![w].state = "call", ![w].left = n] /\ n \in 0..DEADLINE
      BY <1>2, <3>1 DEF CallPeer
    <3>3. worker[w] \in [state : {"args", "call"}, left : 0..DEADLINE, rpc : {"vote", "append"}, peer : Peer]
      BY <1>2 DEF CallPeer, PoolOK
    <3>4. worker'[w] = [worker[w] EXCEPT !.state = "call", !.left = n]
      BY <3>2 DEF PoolOK
    <3>5. worker'[w] \in [state : {"args", "call"}, left : 0..DEADLINE, rpc : {"vote", "append"}, peer : Peer]
      <4>1. worker[w].rpc \in {"vote", "append"} /\ worker[w].peer \in Peer
        BY <3>3
      <4>2. worker[w] = [state |-> worker[w].state, left |-> worker[w].left, rpc |-> worker[w].rpc, peer |-> worker[w].peer]
        BY <3>3
      <4>3. worker'[w] = [state |-> "call", left |-> n, rpc |-> worker[w].rpc, peer |-> worker[w].peer]
        BY <3>4, <4>2
      <4>4. n \in 0..DEADLINE
        BY <3>2
      <4> HIDE DEF ProcessIInv
      <4> QED
        BY <4>1, <4>3, <4>4
    <3> QED
      BY <1>2, <3>2, <3>5 DEF CallPeer, PoolOK
  <2>2. MainOK' /\ HandlerOK'
    BY <1>2 DEF CallPeer, MainOK, HandlerOK, HandlersUseLiveNode
  <2>3. ClockOK'
    <3>1. worker[w].rpc = "append" => worker[w].peer \in Peer
      BY <1>2 DEF CallPeer, PoolOK
    <3>2. age' \in [Peer -> 0..ELECTION_MIN]
      BY <1>2, <3>1 DEF CallPeer, ClockOK
    <3> QED
      BY <1>2, <3>2 DEF CallPeer, ClockOK
  <2> QED
    BY <2>1, <2>2, <2>3
<1>3. CASE EndTask(w)
  <2>1. PoolOK'
    BY <1>3 DEF EndTask, PoolOK, Idle
  <2>2. MainOK'
    BY <1>3 DEF EndTask, MainOK
  <2>3. ClockOK'
    BY <1>3 DEF EndTask, ClockOK
  <2>4. HandlerOK'
    BY <1>3 DEF EndTask, HandlerOK, HandlersUseLiveNode, Leaving
  <2> QED
    BY <2>1, <2>2, <2>3, <2>4
<1>4. CASE WorkerExits(w)
  <2>1. PoolOK'
    BY <1>4 DEF WorkerExits, PoolOK, Exited
  <2>2. MainOK' /\ ClockOK' /\ HandlerOK'
    BY <1>4 DEF WorkerExits, MainOK, ClockOK, HandlerOK, HandlersUseLiveNode
  <2> QED
    BY <2>1, <2>2
<1> QED
  BY <1>1, <1>2, <1>3, <1>4 DEF WorkerStep

\* The steps of replicateLog's thread, and the lock that is taken twice,
LEMMA LibraryStepKeeps ==
    ASSUME ProcessIInv, replicateLog \/ sendAppendEntriesAsync \/ LockTwice
    PROVE  ProcessIInv'
<1> USE DEF ProcessIInv, nodeVars, poolVars, signalVars
<1>1. MainOK'
  BY DEF replicateLog, sendAppendEntriesAsync, LockTwice, Use, MainOK
<1>2. PoolOK' /\ ClockOK'
  BY DEF replicateLog, sendAppendEntriesAsync, LockTwice, PoolOK, ClockOK
<1>3. HandlerOK'
  BY DEF replicateLog, sendAppendEntriesAsync, LockTwice, HandlerOK, HandlersUseLiveNode
<1> QED
  BY <1>1, <1>2, <1>3

\* and the passing of time.
LEMMA TickKeeps ==
    ASSUME ProcessIInv, Tick
    PROVE  ProcessIInv'
<1> USE DEF ProcessIInv, nodeVars, poolVars, signalVars
<1>1. MainOK'
  BY DEF Tick, MainOK, InLoop, InMutex
<1>2. PoolOK'
  <2> DEFINE Free == [state : {"wait", "exited"}, left : {0}]
             Busy == [state : {"args", "call"}, left : 0..DEADLINE, rpc : {"vote", "append"}, peer : Peer]
  <2>1. ASSUME NEW v \in Busy, v.left > 0 PROVE [v EXCEPT !.left = @ - 1] \in Busy
    <3>1. v.left - 1 \in 0..DEADLINE
      BY <2>1, DeadArePeers
    <3>2. [v EXCEPT !.left = @ - 1] = [v EXCEPT !.left = v.left - 1]
      OBVIOUS
    <3>3. v = [state |-> v.state, left |-> v.left, rpc |-> v.rpc, peer |-> v.peer]
      OBVIOUS
    <3>4. [v EXCEPT !.left = v.left - 1] = [state |-> v.state, left |-> v.left - 1, rpc |-> v.rpc, peer |-> v.peer]
      BY <3>3
    <3> QED
      BY <3>1, <3>2, <3>4
  <2>2. \A v \in Free : ~(v.left > 0)
    OBVIOUS
  <2>3. worker \in [Worker -> Free \cup Busy] /\ tasks \in Seq(Task)
    BY DEF PoolOK
  <2>4. /\ worker' = [w \in Worker |-> IF worker[w].left > 0 THEN [worker[w] EXCEPT !.left = @ - 1] ELSE worker[w]]
        /\ tasks' = tasks
    BY DEF Tick
  <2> HIDE DEF Free, Busy, ProcessIInv
  <2>5. ASSUME NEW w \in Worker PROVE worker'[w] \in Free \cup Busy
    BY <2>1, <2>2, <2>3, <2>4
  <2>6. worker' \in [Worker -> Free \cup Busy]
    BY <2>4, <2>5
  <2> QED
    BY <2>3, <2>4, <2>6 DEF PoolOK, Free, Busy
<1>3. ClockOK'
  BY DEF Tick, ClockOK
<1>4. HandlerOK'
  BY DEF Tick, HandlerOK, HandlersUseLiveNode, Leaving
<1> QED
  BY <1>1, <1>2, <1>3, <1>4

\* So every step does.
LEMMA ProcessStep == ProcessIInv /\ [Next]_vars => ProcessIInv'
<1> SUFFICES ASSUME ProcessIInv, [Next]_vars PROVE ProcessIInv'
  OBVIOUS
<1>1. CASE Next
  BY <1>1, MainStepKeeps, SignalStepKeeps, HandlerStepKeeps, WorkerStepKeeps, LibraryStepKeeps, TickKeeps DEF Next
<1>2. CASE UNCHANGED vars
  BY <1>2 DEF vars, ProcessIInv, MainOK, PoolOK, ClockOK, HandlerOK, HandlersUseLiveNode
<1> QED
  BY <1>1, <1>2
-----------------------------------------------------------------------------
(* mutex_ and the handlers *)

\* For any number of workers, handlers, peers and signals: the main thread holds
\* mutex_ exactly inside its calls of RaftNode, and no handler runs on a node
\* that is destroyed unless an exception ended the main loop (main,
\* signalHandler, GrpcRPCServer::stop).
THEOREM ProcessCorrect == Spec => []ProcessInv
<1>1. ProcessIInv => ProcessInv
  BY DEF ProcessIInv, MainOK, PoolOK, ClockOK, HandlerOK, ProcessInv, TypeOK, Task
<1> QED
  BY <1>1, ProcessInit, ProcessStep, PTL DEF Spec
-----------------------------------------------------------------------------
(* Heartbeats in time *)

\* A worker's task is to make the arguments of a heartbeat to the peer.
Making(e, p) == e.state = "args" /\ e.rpc = "append" /\ e.peer = p

\* A heartbeat to the peer is queued, or its arguments are made.
Pending(wk, ts, p) ==
    \/ \E i \in DOMAIN ts : ts[i].rpc = "append" /\ ts[i].peer = p
    \/ \E w \in Worker : Making(wk[w], p)

\* A worker is held only by a call to a peer that does not answer, and does not
\* end as long as the loop runs.
HeldInv ==
    /\ \A w \in Worker : worker[w].left > 0 => worker[w].state = "call" /\ worker[w].peer \in Dead
    /\ main \in {"start", "construct", "serve"} \cup InLoop => ~stop
    /\ main \in {"serve"} \cup InLoop => \A w \in Worker : worker[w].state # "exited"
    /\ signal => ~running

\* After its turn, a leader that is not blocked has sent every peer a heartbeat in
\* this interval, or is about to.
SentInv ==
    running /\ mutex # "async" /\ main \in {"apply", "sleep"} /\ role = "leader" =>
      \A p \in Peer : age[p] = 0 \/ Pending(worker, tasks, p)

LateIInv == ProcessIInv /\ HeldInv /\ SentInv
-----------------------------------------------------------------------------
(* Every step keeps what is said of the workers *)

\* The entry of a worker changes, the others do not.
LEMMA OneWorker ==
    ASSUME PoolOK, NEW w \in Worker, NEW e, worker' = [worker EXCEPT ![w] = e]
    PROVE  worker'[w] = e /\ \A v \in Worker : v # w => worker'[v] = worker[v]
BY DEF PoolOK

\* What CallPeer makes of the entry of a worker.
LEMMA CallOfWorker ==
    ASSUME PoolOK, NEW w \in Worker, CallPeer(w)
    PROVE  /\ worker'[w] = [state |-> "call", left |-> IF worker[w].peer \in Dead THEN DEADLINE ELSE 0,
                            rpc |-> worker[w].rpc, peer |-> worker[w].peer]
           /\ \A v \in Worker : v # w => worker'[v] = worker[v]
<1>1. worker[w] \in [state : {"args", "call"}, left : 0..DEADLINE, rpc : {"vote", "append"}, peer : Peer]
  BY DEF CallPeer, PoolOK
<1>2. PICK n : n = IF worker[w].peer \in Dead THEN DEADLINE ELSE 0
  OBVIOUS
<1>3. worker[w] = [state |-> worker[w].state, left |-> worker[w].left, rpc |-> worker[w].rpc, peer |-> worker[w].peer]
  BY <1>1
<1>4. worker' = [worker EXCEPT ![w].state = "call", ![w].left = n]
  BY <1>2 DEF CallPeer
<1>5. worker'[w] = [worker[w] EXCEPT !.state = "call", !.left = n] /\ \A v \in Worker : v # w => worker'[v] = worker[v]
  BY <1>4 DEF PoolOK
<1>6. worker'[w] = [state |-> "call", left |-> n, rpc |-> worker[w].rpc, peer |-> worker[w].peer]
  BY <1>3, <1>5
<1> QED
  BY <1>2, <1>5, <1>6

\* The main thread starts the workers and does not touch them in its loop.
LEMMA MainKeepsHeld ==
    ASSUME LateIInv, MainStep
    PROVE  HeldInv'
<1> USE DEF nodeVars, poolVars, signalVars, Goto, InLoop
<1>1. HeldInv
  BY DEF LateIInv
<1>2. CASE StartUp
  <2>1. /\ UNCHANGED <<stop, signal, running>> /\ main \in {"start", "construct"}
        /\ \/ main' \in {"end", "construct", "destroy"} /\ worker' = worker
           \/ main' = "serve" /\ worker' = [w \in Worker |-> Idle]
    BY <1>2 DEF StartUp
  <2>2. CASE main' \in {"end", "construct", "destroy"} /\ worker' = worker
    BY <1>1, <2>1, <2>2 DEF HeldInv
  <2>3. CASE main' = "serve" /\ worker' = [w \in Worker |-> Idle]
    <3>1. \A w \in Worker : worker'[w].left = 0 /\ worker'[w].state = "wait"
      BY <2>3 DEF Idle
    <3> QED
      BY <1>1, <2>1, <2>3, <3>1 DEF HeldInv
  <2> QED
    BY <2>1, <2>2, <2>3
<1>3. CASE StartServer
  BY <1>1, <1>3 DEF StartServer, HeldInv
<1>4. CASE LoopCheck \/ LoopElect \/ LoopVotes \/ LoopHeartbeat \/ LoopApply
  BY <1>1, <1>4 DEF LoopCheck, LoopElect, LoopVotes, LoopHeartbeat, LoopApply, HeldInv
<1>5. CASE MainStop \/ DestroyNode \/ DestroyPool
  <2>1. UNCHANGED <<worker, running, signal>> /\ main' \notin {"start", "construct", "serve"} \cup InLoop
    BY <1>5 DEF MainStop, StopServer, DestroyNode, DestroyPool
  <2> QED
    BY <1>1, <2>1 DEF HeldInv
<1> QED
  BY <1>2, <1>3, <1>4, <1>5 DEF MainStep

\* A worker takes a task, calls and is done; it ends only after stop_.
LEMMA WorkerKeepsHeld ==
    ASSUME LateIInv, NEW w \in Worker, WorkerStep(w)
    PROVE  HeldInv'
<1> USE DEF nodeVars, poolVars, signalVars
<1>1. HeldInv /\ PoolOK
  BY DEF LateIInv, ProcessIInv
<1>2. UNCHANGED <<stop, signal, running>> /\ main' \in {main, "terminated"}
  BY DEF WorkerStep, TakeTask, CallPeer, EndTask, WorkerExits
<1>3. CASE TakeTask(w)
  <2> DEFINE e == [state |-> "args", left |-> 0, rpc |-> Head(tasks).rpc, peer |-> Head(tasks).peer]
  <2>1. worker' = [worker EXCEPT ![w] = e] /\ e.left = 0 /\ e.state = "args"
    BY <1>3 DEF TakeTask
  <2> HIDE DEF e
  <2> QED
    BY <1>1, <1>2, <2>1, OneWorker DEF HeldInv, InLoop
<1>4. CASE CallPeer(w)
  <2> DEFINE e == [state |-> "call", left |-> IF worker[w].peer \in Dead THEN DEADLINE ELSE 0,
                   rpc |-> worker[w].rpc, peer |-> worker[w].peer]
  <2>1. worker'[w] = e /\ \A v \in Worker : v # w => worker'[v] = worker[v]
    BY <1>1, <1>4, CallOfWorker
  <2>2. e.state = "call" /\ (e.left > 0 => e.peer \in Dead)
    OBVIOUS
  <2> HIDE DEF e
  <2> QED
    BY <1>1, <1>2, <2>1, <2>2 DEF HeldInv, InLoop
<1>5. CASE EndTask(w)
  <2>1. worker' = [worker EXCEPT ![w] = Idle] /\ Idle.left = 0 /\ Idle.state = "wait"
    BY <1>5 DEF EndTask, Idle
  <2> QED
    BY <1>1, <1>2, <2>1, OneWorker DEF HeldInv, InLoop
<1>6. CASE WorkerExits(w)
  <2>1. worker' = [worker EXCEPT ![w] = Exited] /\ Exited.left = 0 /\ stop
    BY <1>6 DEF WorkerExits, Exited
  <2>2. main \notin {"serve"} \cup InLoop
    BY <1>1, <2>1 DEF HeldInv
  <2> QED
    BY <1>1, <1>2, <2>1, <2>2, OneWorker DEF HeldInv, InLoop
<1> QED
  BY <1>3, <1>4, <1>5, <1>6 DEF WorkerStep

\* A call that is held is nearer to its deadline after a tick.
LEMMA TickOfWorker ==
    ASSUME PoolOK, Tick, NEW w \in Worker
    PROVE  \/ worker'[w] = worker[w]
           \/ /\ worker[w].left > 0
              /\ worker'[w].state = worker[w].state /\ worker'[w].peer = worker[w].peer
              /\ worker'[w].rpc = worker[w].rpc
<1>1. worker'[w] = IF worker[w].left > 0 THEN [worker[w] EXCEPT !.left = @ - 1] ELSE worker[w]
  BY DEF Tick
<1>2. CASE worker[w].left > 0
  <2>1. worker[w] \in [state : {"args", "call"}, left : 0..DEADLINE, rpc : {"vote", "append"}, peer : Peer]
    BY <1>2 DEF PoolOK
  <2> QED
    BY <1>1, <1>2, <2>1
<1> QED
  BY <1>1, <1>2

\* Signals and time, handlers, and the thread of replicateLog.
LEMMA OthersKeepHeld ==
    ASSUME LateIInv,
           \/ SignalArrives \/ SignalStop \/ NestedSignal \/ Tick
           \/ \E h \in Handler : HandlerEnters(h) \/ HandlerLeaves(h)
           \/ replicateLog \/ sendAppendEntriesAsync \/ LockTwice
    PROVE  HeldInv'
<1> USE DEF nodeVars, poolVars, signalVars
<1>1. HeldInv /\ PoolOK
  BY DEF LateIInv, ProcessIInv
<1>2. CASE Tick
  <2>1. UNCHANGED <<stop, running, signal>> /\ (main' = main \/ (main = "sleep" /\ main' = "check"))
    BY <1>2 DEF Tick
  <2>2. \A w \in Worker : worker'[w] = worker[w] \/ (worker[w].left > 0 /\ worker'[w].state = worker[w].state
                                                     /\ worker'[w].peer = worker[w].peer)
    BY <1>1, <1>2, TickOfWorker
  <2>3. \A w \in Worker : /\ worker'[w].left > 0 => worker'[w].state = "call" /\ worker'[w].peer \in Dead
                          /\ worker[w].state # "exited" => worker'[w].state # "exited"
    BY <1>1, <2>2, Zenon DEF HeldInv
  <2>4. main' \in InLoop => main \in InLoop
    BY <2>1 DEF InLoop
  <2>5. main' \in {"start", "construct", "serve"} => main' = main
    BY <2>1
  <2> QED
    BY <1>1, <2>1, <2>3, <2>4, <2>5 DEF HeldInv
<1>3. CASE SignalArrives \/ SignalStop \/ NestedSignal
  <2>1. UNCHANGED <<main, stop, worker>> /\ (signal' => ~running')
    BY <1>1, <1>3 DEF SignalArrives, SignalStop, NestedSignal, StopServer, HeldInv
  <2> QED
    BY <1>1, <2>1 DEF HeldInv
<1>4. CASE \/ \E h \in Handler : HandlerEnters(h) \/ HandlerLeaves(h)
           \/ replicateLog \/ sendAppendEntriesAsync \/ LockTwice
  <2>1. UNCHANGED <<main, stop, worker, running, signal>>
    BY <1>4 DEF HandlerEnters, HandlerLeaves, replicateLog, sendAppendEntriesAsync, LockTwice
  <2> QED
    BY <1>1, <2>1 DEF HeldInv
<1> QED
  BY <1>2, <1>3, <1>4
-----------------------------------------------------------------------------
(* Every step keeps what is said of the heartbeats *)

\* The tasks of a turn hold a heartbeat to every peer.
LEMMA QueueReachesAll ==
    ASSUME PoolOK, tasks' = tasks \o TasksFor("append"), NEW p \in Peer
    PROVE  \E i \in DOMAIN tasks' : tasks'[i].rpc = "append" /\ tasks'[i].peer = p
<1> DEFINE n == Cardinality(Peer)
           ts == TasksFor("append")
<1>1. n \in Nat /\ ts \in Seq(Task) /\ tasks \in Seq(Task)
  BY FS_CardinalityType, TasksForAreTasks DEF PoolOK
<1>2. PICK i \in 1..n : PeerOrder[i] = p
  BY PeerOrderIsOrder
<1>3. ts[i].rpc = "append" /\ ts[i].peer = p /\ DOMAIN ts = 1..n
  BY <1>2 DEF TasksFor
<1> HIDE DEF ts
<1>4. Len(ts) = n
  BY <1>1, <1>3
<1>5. Len(tasks) + i \in DOMAIN (tasks \o ts) /\ (tasks \o ts)[Len(tasks) + i] = ts[i]
  <2> HIDE DEF n
  <2> QED
    BY <1>1, <1>2, <1>4
<1> QED
  BY <1>3, <1>5 DEF ts

\* The main thread: a turn of a leader queues what is due.
LEMMA MainKeepsSent ==
    ASSUME LateIInv, MainStep
    PROVE  SentInv'
<1> USE DEF nodeVars, poolVars, signalVars, Goto
<1>1. SentInv /\ MainOK /\ PoolOK
  BY DEF LateIInv, ProcessIInv
<1>2. CASE LoopHeartbeat
  <2>1. CASE role = "leader" /\ tasks' = tasks \o TasksFor("append")
    <3>1. \A p \in Peer : \E i \in DOMAIN tasks' : tasks'[i].rpc = "append" /\ tasks'[i].peer = p
      BY <1>1, <2>1, QueueReachesAll
    <3> QED
      BY <3>1 DEF SentInv, Pending
  <2>2. CASE (role = "leader" => \A p \in Peer : age[p] = 0) /\ UNCHANGED tasks
    BY <1>2, <2>2 DEF LoopHeartbeat, SentInv
  <2> QED
    BY <1>2, <2>1, <2>2 DEF LoopHeartbeat
<1>3. CASE LoopApply
  <2>1. /\ UNCHANGED <<role, running, tasks, worker, age>> /\ main = "apply" /\ mutex # "async"
    BY <1>1, <1>3 DEF LoopApply, MainOK, InMutex
  <2> QED
    BY <1>1, <2>1 DEF SentInv, Pending
<1>4. CASE StartUp \/ StartServer \/ LoopCheck \/ LoopElect \/ LoopVotes \/ MainStop \/ DestroyNode \/ DestroyPool
  <2>1. main' \notin {"apply", "sleep"}
    BY <1>4 DEF StartUp, StartServer, LoopCheck, LoopElect, LoopVotes, MainStop, StopServer, DestroyNode, DestroyPool
  <2> QED
    BY <2>1 DEF SentInv
<1> QED
  BY <1>2, <1>3, <1>4 DEF MainStep

\* What is pending is queued, being made, or sent.
LEMMA WorkerKeepsSent ==
    ASSUME LateIInv, NEW w \in Worker, WorkerStep(w)
    PROVE  SentInv'
<1> USE DEF nodeVars, poolVars, signalVars
<1>1. SentInv /\ PoolOK /\ age \in [Peer -> 0..ELECTION_MIN]
  BY DEF LateIInv, ProcessIInv, ClockOK
<1>2. UNCHANGED <<role, running, mutex>> /\ main' \in {main, "terminated"}
  BY DEF WorkerStep, TakeTask, CallPeer, EndTask, WorkerExits
<1>3. SUFFICES ASSUME NEW p \in Peer, age[p] = 0 \/ Pending(worker, tasks, p)
               PROVE  age'[p] = 0 \/ Pending(worker', tasks', p)
  BY <1>1, <1>2 DEF SentInv
<1>4. CASE TakeTask(w)
  <2> DEFINE e == [state |-> "args", left |-> 0, rpc |-> Head(tasks).rpc, peer |-> Head(tasks).peer]
  <2>1. /\ UNCHANGED age /\ tasks # <<>> /\ tasks' = Tail(tasks) /\ worker[w] = Idle
        /\ worker' = [worker EXCEPT ![w] = e]
    BY <1>4 DEF TakeTask, CanTake
  <2>2. e.state = "args" /\ e.rpc = tasks[1].rpc /\ e.peer = tasks[1].peer
    OBVIOUS
  <2> HIDE DEF e
  <2>3. worker'[w] = e /\ \A v \in Worker : v # w => worker'[v] = worker[v]
    BY <1>1, <2>1, OneWorker
  <2>4. CASE \E i \in DOMAIN tasks : tasks[i].rpc = "append" /\ tasks[i].peer = p
    <3>1. PICK i \in DOMAIN tasks : tasks[i].rpc = "append" /\ tasks[i].peer = p
      BY <2>4
    <3>2. CASE i = 1
      BY <2>2, <2>3, <3>1, <3>2 DEF Pending, Making
    <3>3. CASE i # 1
      <4>1. i - 1 \in DOMAIN tasks' /\ tasks'[i - 1] = tasks[i]
        BY <1>1, <2>1, <3>1, <3>3 DEF PoolOK
      <4> QED
        BY <3>1, <4>1, Zenon DEF Pending
    <3> QED
      BY <3>2, <3>3
  <2>5. CASE \E v \in Worker : Making(worker[v], p)
    <3>1. PICK v \in Worker : Making(worker[v], p)
      BY <2>5
    <3>2. v # w
      BY <2>1, <3>1 DEF Making, Idle
    <3> QED
      BY <2>3, <3>1, <3>2, Zenon DEF Pending
  <2> QED
    BY <1>3, <2>1, <2>4, <2>5 DEF Pending
<1>5. CASE CallPeer(w)
  <2>1. tasks' = tasks
    BY <1>5 DEF CallPeer
  <2>2. \A v \in Worker : v # w => worker'[v] = worker[v]
    BY <1>1, <1>5, CallOfWorker
  <2>3. age' = IF worker[w].rpc = "append" THEN [age EXCEPT ![worker[w].peer] = 0] ELSE age
    BY <1>5 DEF CallPeer
  <2>4. age[p] = 0 => age'[p] = 0
    BY <1>1, <2>3
  <2>5. Making(worker[w], p) => age'[p] = 0
    BY <1>1, <2>3 DEF Making
  <2> QED
    BY <1>3, <2>1, <2>2, <2>4, <2>5, Zenon DEF Pending
<1>6. CASE EndTask(w) \/ WorkerExits(w)
  <2>1. /\ UNCHANGED <<age, tasks>> /\ worker[w].state # "args"
        /\ worker' = [worker EXCEPT ![w] = Idle] \/ worker' = [worker EXCEPT ![w] = Exited]
    BY <1>6 DEF EndTask, WorkerExits, Idle
  <2>2. \A v \in Worker : v # w => worker'[v] = worker[v]
    BY <1>1, <2>1, OneWorker
  <2> QED
    BY <1>3, <2>1, <2>2, Zenon DEF Pending, Making
<1> QED
  BY <1>4, <1>5, <1>6 DEF WorkerStep

\* Signals and time, handlers, and the thread of replicateLog.
LEMMA OthersKeepSent ==
    ASSUME LateIInv,
           \/ SignalArrives \/ SignalStop \/ NestedSignal \/ Tick
           \/ \E h \in Handler : HandlerEnters(h) \/ HandlerLeaves(h)
           \/ replicateLog \/ sendAppendEntriesAsync \/ LockTwice
    PROVE  SentInv'
<1> USE DEF nodeVars, poolVars, signalVars
<1>1. SentInv /\ HeldInv
  BY DEF LateIInv
<1>2. CASE Tick
  <2>1. main' # "apply" \/ main = "apply"
    BY <1>2 DEF Tick
  <2>2. CASE main = "apply"
    <3>1. signal
      BY <1>2, <2>2 DEF Tick, Urgent
    <3> QED
      BY <1>1, <1>2, <3>1 DEF Tick, HeldInv, SentInv
  <2>3. CASE main' = "sleep"
    <3>1. signal
      BY <1>2, <2>3 DEF Tick
    <3> QED
      BY <1>1, <1>2, <3>1 DEF Tick, HeldInv, SentInv
  <2> QED
    BY <2>1, <2>2, <2>3 DEF SentInv
<1>3. CASE \/ SignalArrives \/ SignalStop \/ NestedSignal
           \/ \E h \in Handler : HandlerEnters(h) \/ HandlerLeaves(h)
           \/ replicateLog \/ sendAppendEntriesAsync \/ LockTwice
  <2>1. UNCHANGED <<main, role, worker, tasks, age>> /\ (running' => running) /\ (mutex' # "async" => mutex # "async")
    BY <1>3 DEF SignalArrives, SignalStop, NestedSignal, StopServer, HandlerEnters, HandlerLeaves,
                replicateLog, sendAppendEntriesAsync, LockTwice
  <2> QED
    BY <1>1, <2>1 DEF SentInv, Pending
<1> QED
  BY <1>2, <1>3

\* The invariant is inductive.
LEMMA LateStep == LateIInv /\ [Next]_vars => LateIInv'
<1> SUFFICES ASSUME LateIInv, [Next]_vars PROVE LateIInv'
  OBVIOUS
<1>1. ProcessIInv'
  BY ProcessStep DEF LateIInv
<1>2. CASE Next
  BY <1>1, <1>2, MainKeepsHeld, WorkerKeepsHeld, OthersKeepHeld, MainKeepsSent, WorkerKeepsSent, OthersKeepSent
     DEF Next, LateIInv
<1>3. CASE UNCHANGED vars
  BY <1>1, <1>3 DEF vars, LateIInv, HeldInv, SentInv, Pending
<1> QED
  BY <1>2, <1>3

\* It holds at the start.
LEMMA LateInit == Init => LateIInv
<1> SUFFICES ASSUME Init PROVE LateIInv
  OBVIOUS
<1>1. \A w \in Worker : worker[w].left = 0
  BY DEF Init, Exited
<1>2. HeldInv
  BY <1>1 DEF Init, HeldInv, InLoop
<1>3. SentInv
  BY DEF Init, SentInv
<1> QED
  BY <1>2, <1>3, ProcessInit DEF LateIInv

\* When a tick finds a leader asleep with a heartbeat that is still pending, no
\* worker is free to take it.
LEMMA LateMeansHeld ==
    ASSUME LateIInv, [Next]_vars, NEW p \in Peer, age[p] > 0, age'[p] > age[p], mutex # "async"
    PROVE  AllWorkersHeld
<1> USE DEF nodeVars, poolVars, signalVars
<1>1. HeldInv /\ SentInv /\ MainOK /\ PoolOK /\ age \in [Peer -> 0..ELECTION_MIN]
  BY DEF LateIInv, ProcessIInv, ClockOK
<1>2. Tick
  <2>1. \A q \in Peer : ~(age[q] > age[q]) /\ ~(0 > age[q])
    BY <1>1
  <2>2. ~UNCHANGED age
    BY <2>1
  <2>3. ASSUME NEW w \in Worker, WorkerStep(w) PROVE age'[p] = age[p] \/ age'[p] = 0
    <3>1. UNCHANGED age \/ \E q : age' = [age EXCEPT ![q] = 0]
      BY <2>3, Zenon DEF WorkerStep, TakeTask, CallPeer, EndTask, WorkerExits
    <3> QED
      BY <1>1, <3>1
  <2>4. CASE MainStep
    <3>1. UNCHANGED age \/ age' = [q \in Peer |-> 0]
      BY <2>4, Zenon DEF MainStep, StartUp, StartServer, LoopCheck, LoopElect, LoopVotes, Become, LoopHeartbeat, LoopApply,
                 MainStop, DestroyNode, DestroyPool
    <3>2. age'[p] = age[p] \/ age'[p] = 0
      BY <3>1
    <3> QED
      BY <2>1, <3>2
  <2>5. CASE \/ SignalArrives \/ SignalStop \/ NestedSignal
             \/ \E h \in Handler : HandlerEnters(h) \/ HandlerLeaves(h)
             \/ replicateLog \/ sendAppendEntriesAsync \/ LockTwice
    BY <2>2, <2>5 DEF SignalArrives, SignalStop, NestedSignal, HandlerEnters, HandlerLeaves,
                      replicateLog, sendAppendEntriesAsync, LockTwice
  <2>6. ~(UNCHANGED vars)
    BY <2>2 DEF vars
  <2>7. \A w \in Worker : ~WorkerStep(w)
    BY <2>1, <2>3
  <2> QED
    BY <2>4, <2>5, <2>6, <2>7, Zenon DEF Next
<1>3. role = "leader" /\ running /\ main = "sleep" /\ ~signal /\ mutex = Nobody /\ ~Urgent
  <2>1. role = "leader" /\ running /\ main = "sleep" /\ ~Urgent
    BY <1>1, <1>2 DEF Tick
  <2>2. mutex = Nobody
    BY <1>1, <2>1 DEF MainOK, InMutex
  <2> QED
    BY <1>1, <2>1, <2>2 DEF HeldInv
<1>4. /\ \A w \in Worker : ~CanTake(w)
      /\ \A w \in Worker : ~(worker[w].state \in {"args", "call"} /\ worker[w].left = 0)
  BY <1>3 DEF Urgent
<1>5. \A w \in Worker : worker[w].state # "exited" /\ worker[w].left \in Nat
                        /\ worker[w].state \in {"wait", "args", "call", "exited"}
                        /\ (worker[w].state = "wait" => worker[w] = Idle)
  <2>1. ASSUME NEW w \in Worker
        PROVE  /\ worker[w].left \in Nat /\ worker[w].state \in {"wait", "args", "call", "exited"}
               /\ worker[w].state = "wait" => worker[w] = Idle
    <3>1. CASE worker[w] \in [state : {"wait", "exited"}, left : {0}]
      BY <3>1 DEF Idle
    <3>2. CASE worker[w] \in [state : {"args", "call"}, left : 0..DEADLINE, rpc : {"vote", "append"}, peer : Peer]
      BY <3>2
    <3> QED
      BY <1>1, <3>1, <3>2 DEF PoolOK
  <2> QED
    BY <1>1, <1>3, <2>1 DEF HeldInv, InLoop
<1>6. \A w \in Worker : worker[w].state # "args"
  BY <1>1, <1>4, <1>5 DEF HeldInv
<1>7. tasks # <<>>
  <2>1. Pending(worker, tasks, p)
    BY <1>1, <1>3 DEF SentInv
  <2> QED
    BY <1>6, <2>1 DEF Pending, Making
<1>8. \A w \in Worker : worker[w] # Idle
  <2>1. ASSUME NEW w \in Worker, worker[w] = Idle PROVE FALSE
    <3>1. PICK v \in Worker : v = (CHOOSE u \in Worker : worker[u] = Idle) /\ worker[v] = Idle
      BY <2>1
    <3> QED
      BY <1>4, <1>7, <3>1 DEF CanTake
  <2> QED
    BY <2>1
<1>9. \A w \in Worker : worker[w].state = "call" /\ worker[w].left > 0
  BY <1>4, <1>5, <1>6, <1>8
<1> QED
  BY <1>1, <1>9 DEF HeldInv, AllWorkersHeld

\* Whatever the number of workers, peers and dead peers and the deadline: a
\* leader's heartbeat to any peer is late by another interval only while all
\* workers wait for dead peers, or the thread of replicateLog blocks the node
\* (sendAppendEntriesToPeers, RPCThreadPool).
THEOREM HeartbeatsWaitForDeadPeersOnly == Spec => LateOnlyBehindDeadPeers
<1>1. LateIInv /\ [Next]_vars =>
        [\A p \in Peer : age[p] > 0 /\ age'[p] > age[p] => AllWorkersHeld \/ mutex = "async"]_vars
  BY LateMeansHeld
<1> QED
  BY <1>1, LateInit, LateStep, PTL DEF Spec, LateOnlyBehindDeadPeers
=============================================================================
