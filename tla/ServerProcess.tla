---------------------------- MODULE ServerProcess ----------------------------
(***************************************************************************)
(* The process of a node (src/raft_node_server.cpp): start-up, the main    *)
(* loop, the pool of RPC threads, the gRPC threads that run handlers, the  *)
(* signal handler, the way out and the destructors; and the detached       *)
(* threads of RaftNode::replicateLog, which the server itself never calls. *)
(*                                                                         *)
(* What RaftNode does is left to the other modules: here it is alive or    *)
(* destroyed, its mutex_ is free or held, and a command that it applies    *)
(* may throw (Command::deserialize).  Time passes in ticks of the          *)
(* heartbeat interval; all but calls to peers that do not answer and waits *)
(* for commands takes less than a tick.  Linux gives signals to the main   *)
(* thread.                                                                 *)
(***************************************************************************)
EXTENDS Naturals, Sequences, FiniteSets

CONSTANTS
    Worker,         \* threads of g_rpc_pool
    Handler,        \* threads of gRPC, one request each
    Peer,
    Dead,           \* peers whose calls end only with the deadline
    DEADLINE,       \* of a call, in ticks (1000 ms)
    ELECTION_MIN,   \* the least election time-out of a follower, in ticks
    Nobody,
    MaxSignals,     \* bound on the signals
    MaxTasks        \* bound: a node with so many tasks in its queue is deposed

ASSUME DeadArePeers == Dead \subseteq Peer /\ DEADLINE \in Nat \ {0} /\ ELECTION_MIN \in Nat
ASSUME ThreadsFinite == /\ IsFiniteSet(Worker) /\ IsFiniteSet(Handler) /\ IsFiniteSet(Peer)
                        /\ Nobody \notin {"main", "async"}
ASSUME SignalBound == MaxSignals \in Nat /\ MaxTasks \in Nat

VARIABLES
    main,           \* where the main thread is
    role,           \* state_ of the node
    library,        \* does the program call replicateLog?
    running,        \* g_running
    server,         \* g_server: "none", "running", "shutdown" (Shutdown was called), "stopped"
    node,           \* RaftNode: "none", "alive", "closing" (shuttingDown_), "destroyed"
    mutex,          \* the thread that holds its mutex_, if for more than a step
    tasks,          \* tasks_ of the pool: what to send, and to whom
    stop,           \* stop_ of the pool
    worker,         \* what each worker does: its state, its task and the ticks left
    handler,        \* is the thread inside a handler?
    signal,         \* is the main thread in signalHandler?
    signals,        \* signals so far
    async,          \* a thread of replicateLog
    threw,          \* an exception ended the main loop
    undefined,      \* undefined behaviour: "none", "late" (the RaftNode was used after its
                    \* destruction) or "nested" (a signal stopped g_server during stop)
    age             \* ticks since each peer was sent a heartbeat

vars == <<main, role, library, running, server, node, mutex, tasks, stop, worker, handler,
          signal, signals, async, threw, undefined, age>>
poolVars == <<tasks, stop, worker>>
signalVars == <<signal, signals>>
nodeVars == <<node, role, library, async>>

Idle == [state |-> "wait", left |-> 0]
Exited == [state |-> "exited", left |-> 0]
InLoop == {"check", "elect", "votes", "heartbeat", "apply", "sleep"}
InMutex == {"elect", "apply"}

Init ==
    /\ main = "start"
    /\ role = "follower" /\ library \in BOOLEAN
    /\ running = TRUE
    /\ server = "none" /\ node = "none" /\ mutex = Nobody
    /\ tasks = <<>> /\ stop = FALSE
    /\ worker = [w \in Worker |-> Exited]
    /\ handler = [h \in Handler |-> FALSE]
    /\ signal = FALSE /\ signals = 0
    /\ async = "none"
    /\ threw = FALSE /\ undefined = "none"
    /\ age = [p \in Peer |-> 0]
-----------------------------------------------------------------------------
(* The main thread, while no signal handler runs on it *)

Goto(p) == ~signal /\ main' = p

\* Arguments and configuration; then the node, the persister and what they
\* restore; then the pool.  Each may fail; what is constructed is destroyed again.
StartUp ==
    /\ \/ main = "start" /\ Goto("end") /\ UNCHANGED <<node, worker>>
       \/ main = "start" /\ Goto("construct") /\ node' = "alive" /\ UNCHANGED worker
       \/ main = "construct" /\ Goto("destroy") /\ UNCHANGED <<node, worker>>
       \/ main = "construct" /\ Goto("serve") /\ worker' = [w \in Worker |-> Idle] /\ UNCHANGED node
    /\ UNCHANGED <<role, library, running, server, mutex, tasks, stop, handler, signalVars, async, threw, undefined, age>>

\* The server starts, or main returns 1.
StartServer ==
    /\ main = "serve"
    /\ \/ Goto("check") /\ server' = "running"
       \/ Goto("destroy") /\ server' = "stopped"
    /\ UNCHANGED <<nodeVars, running, mutex, poolVars, handler, signalVars, threw, undefined, age>>

\* while (g_running); then checkElectionTimeout and startElection lock mutex_.
LoopCheck ==
    /\ main = "check"
    /\ \/ running /\ mutex = Nobody /\ Goto("elect") /\ mutex' = "main"
       \/ ~running /\ Goto("stop") /\ UNCHANGED mutex
    /\ UNCHANGED <<nodeVars, running, server, poolVars, handler, signalVars, threw, undefined, age>>

\* Votes and messages, handled by other threads, may have changed the role.
Become(r) ==
    /\ r = "leader" => role # "follower"
    /\ r = "candidate" => role # "leader"
    /\ r # "follower" => Len(tasks) < MaxTasks
    /\ role' = r
    /\ age' = IF r = role THEN age ELSE [p \in Peer |-> 0]

\* They return, and an election has begun or not.
LoopElect ==
    /\ main = "elect"
    /\ mutex' = Nobody
    /\ \/ Goto("votes") /\ Become("candidate")
       \/ Goto("heartbeat") /\ \E r \in {"follower", "candidate", "leader"} : Become(r)
    /\ UNCHANGED <<node, library, async, running, server, poolVars, handler, signalVars, threw, undefined>>

PeerOrder == CHOOSE s \in [1..Cardinality(Peer) -> Peer] : \A i, j \in DOMAIN s : s[i] = s[j] => i = j
TasksFor(rpc) == [i \in 1..Cardinality(Peer) |-> [rpc |-> rpc, peer |-> PeerOrder[i]]]

\* A candidate calls sendRequestVotesToPeers; it may be elected or step down
\* before it looks at isLeader, in the same turn.
LoopVotes ==
    /\ main = "votes" /\ mutex = Nobody
    /\ Goto("heartbeat")
    /\ tasks' = tasks \o TasksFor("vote")
    /\ \E r \in {"follower", "candidate", "leader"} : Become(r)
    /\ UNCHANGED <<node, library, async, running, server, mutex, stop, worker, handler, signalVars, threw, undefined>>

\* A leader calls sendAppendEntriesToPeers if the interval is over, which it may
\* not be after an election; then applyCommittedEntries locks mutex_.
LoopHeartbeat ==
    /\ main = "heartbeat"
    /\ mutex = Nobody /\ mutex' = "main"
    /\ Goto("apply")
    /\ \/ role = "leader" /\ tasks' = tasks \o TasksFor("append")
       \/ (role = "leader" => \A p \in Peer : age[p] = 0) /\ UNCHANGED tasks
    /\ UNCHANGED <<nodeVars, running, server, stop, worker, handler, signalVars, threw, undefined, age>>

\* Mutant: an exception leaves mutex_ locked.
LoopApplyUnlessThrown ==
    /\ main = "apply"
    /\ \/ Goto("sleep") /\ mutex' = Nobody /\ UNCHANGED threw
       \/ Goto("destroy") /\ threw' = TRUE /\ UNCHANGED mutex
    /\ UNCHANGED <<nodeVars, running, server, poolVars, handler, signalVars, undefined, age>>

\* applyCommittedEntries returns, or a command throws: mutex_ is released, and
\* main's catch block, outside the loop, returns without stopping the server.
LoopApply ==
    /\ main = "apply"
    /\ mutex' = Nobody
    /\ \/ Goto("sleep") /\ UNCHANGED threw
       \/ Goto("destroy") /\ threw' = TRUE
    /\ UNCHANGED <<nodeVars, running, server, poolVars, handler, signalVars, undefined, age>>

\* Mutant: Shutdown does not wait.
StopServerNow(done) ==
    \/ server = "running" /\ server' = "shutdown" /\ UNCHANGED <<main, signal>>
    \/ server = "shutdown" /\ server' = "stopped" /\ done
    \/ server \in {"none", "stopped"} /\ done /\ UNCHANGED server

\* GrpcRPCServer::stop: Shutdown, which waits for the handlers, then reset.
StopServer(done) ==
    \/ server = "running" /\ server' = "shutdown" /\ UNCHANGED <<main, signal>>
    \/ server = "shutdown" /\ (\A h \in Handler : ~handler[h]) /\ server' = "stopped" /\ done
    \/ server \in {"none", "stopped"} /\ done /\ UNCHANGED server

\* After the loop; and the destructor of g_server when the process exits.
MainStop ==
    /\ main \in {"stop", "exit"} /\ ~signal
    /\ StopServer(Goto(IF main = "stop" THEN "destroy" ELSE "exited") /\ UNCHANGED signal)
    /\ UNCHANGED <<nodeVars, running, mutex, poolVars, handler, signals, threw, undefined, age>>

\* main's locals: ~RaftNode sets shuttingDown_, joins the persistence thread,
\* which locks mutex_, and waits 100 ms.
DestroyNode ==
    /\ \/ main = "destroy" /\ Goto("destroying") /\ node' = "closing"
       \/ main = "destroying" /\ mutex = Nobody /\ Goto("end") /\ node' = "destroyed"
    /\ UNCHANGED <<role, library, running, server, mutex, poolVars, handler, signalVars, async, threw, undefined, age>>

\* The globals: the destructor of g_rpc_pool sets stop_ and joins the workers.
DestroyPool ==
    /\ \/ main = "end" /\ Goto("join") /\ stop' = TRUE
       \/ main = "join" /\ (\A w \in Worker : worker[w] = Exited) /\ Goto("exit") /\ UNCHANGED stop
    /\ UNCHANGED <<nodeVars, running, server, mutex, tasks, worker, handler, signalVars, threw, undefined, age>>

MainStep ==
    \/ StartUp \/ StartServer
    \/ LoopCheck \/ LoopElect \/ LoopVotes \/ LoopHeartbeat \/ LoopApply
    \/ MainStop \/ DestroyNode \/ DestroyPool
-----------------------------------------------------------------------------
(* signalHandler, on the main thread, from the start of the loop on *)

SignalArrives ==
    /\ main \in InLoop \cup {"stop", "destroy", "destroying", "end", "join"} /\ server \in {"running", "stopped"}
    /\ main \in InLoop \/ ~running \/ threw        \* std::signal has been called
    /\ ~signal /\ signals < MaxSignals
    /\ signal' = TRUE /\ signals' = signals + 1
    /\ running' = FALSE
    /\ UNCHANGED <<main, nodeVars, server, mutex, poolVars, handler, threw, undefined, age>>

SignalStop ==
    /\ signal
    /\ StopServer(signal' = FALSE /\ UNCHANGED main)
    /\ UNCHANGED <<nodeVars, running, mutex, poolVars, handler, signals, threw, undefined, age>>

\* A signal while main, or the handler of the other signal, waits in Shutdown:
\* the second call of stop resets server_ under the first one.
NestedSignal ==
    /\ server = "shutdown" /\ signals < MaxSignals /\ main \in InLoop \cup {"stop", "destroy", "destroying", "end", "join"}
    /\ undefined' = "nested"
    /\ UNCHANGED <<main, nodeVars, running, server, mutex, poolVars, handler, signalVars, threw, age>>
-----------------------------------------------------------------------------
(* The other threads *)

\* A short use of the RaftNode: it waits for mutex_.
Use ==
    \/ node = "destroyed" /\ undefined' = "late"
    \/ node # "destroyed" /\ mutex = Nobody /\ UNCHANGED undefined

\* A gRPC thread takes a request: a message of a peer, or a client's command,
\* which waits until it is applied or the time is over.
HandlerEnters(h) ==
    /\ ~handler[h] /\ server = "running"
    /\ handler' = [handler EXCEPT ![h] = TRUE]
    /\ UNCHANGED <<main, nodeVars, running, server, mutex, poolVars, signalVars, threw, undefined, age>>

\* It returns, or throws, and gRPC answers with an error.
HandlerLeaves(h) ==
    /\ handler[h]
    /\ Use
    /\ handler' = [handler EXCEPT ![h] = FALSE]
    /\ UNCHANGED <<main, nodeVars, running, server, mutex, poolVars, signalVars, threw, age>>

\* The workers are alike: which of the idle ones cv_ wakes makes no difference.
CanTake(w) ==
    /\ tasks # <<>>
    /\ worker[w] = Idle /\ w = (CHOOSE v \in Worker : worker[v] = Idle)

\* It takes the oldest task.
TakeTask(w) ==
    /\ CanTake(w)
    /\ worker' = [worker EXCEPT ![w] = [state |-> "args", left |-> 0, rpc |-> Head(tasks).rpc, peer |-> Head(tasks).peer]]
    /\ tasks' = Tail(tasks)
    /\ UNCHANGED <<main, nodeVars, running, server, mutex, stop, handler, signalVars, threw, undefined, age>>

\* Mutant: a call keeps its worker until the deadline, whoever answers before.
CallPeerUntilDeadline(w) ==
    /\ worker[w].state = "args"
    /\ IF worker[w].rpc = "append" THEN Use ELSE UNCHANGED undefined
    /\ worker' = [worker EXCEPT ![w].state = "call", ![w].left = DEADLINE]
    /\ age' = IF worker[w].rpc = "append" THEN [age EXCEPT ![worker[w].peer] = 0] ELSE age
    /\ UNCHANGED <<main, nodeVars, running, server, mutex, tasks, stop, handler, signalVars, threw>>

\* The arguments (createAppendEntriesArgs; those of a vote are in the task),
\* then the call.
CallPeer(w) ==
    /\ worker[w].state = "args"
    /\ IF worker[w].rpc = "append" THEN Use ELSE UNCHANGED undefined
    /\ worker' = [worker EXCEPT ![w].state = "call", ![w].left = IF worker[w].peer \in Dead THEN DEADLINE ELSE 0]
    /\ age' = IF worker[w].rpc = "append" THEN [age EXCEPT ![worker[w].peer] = 0] ELSE age
    /\ UNCHANGED <<main, nodeVars, running, server, mutex, tasks, stop, handler, signalVars, threw>>

\* The reply is handled, or the call has failed.  Handling it may apply a
\* command that throws: nothing catches it in the thread.
EndTask(w) ==
    /\ worker[w].state = "call" /\ worker[w].left = 0
    /\ worker' = [worker EXCEPT ![w] = Idle]
    /\ \/ UNCHANGED <<main, undefined>>
       \/ worker[w].peer \notin Dead /\ Use /\ UNCHANGED main
       \/ worker[w].peer \notin Dead /\ worker[w].rpc = "append" /\ role = "leader"
          /\ Use /\ main' = "terminated"
    /\ UNCHANGED <<nodeVars, running, server, mutex, tasks, stop, handler, signalVars, threw, age>>

\* Mutant: the wait for a task does not look at stop_.
WorkerExitsNever(w) == FALSE /\ UNCHANGED vars

WorkerExits(w) ==
    /\ worker[w] = Idle /\ stop /\ tasks = <<>>
    /\ worker' = [worker EXCEPT ![w] = Exited]
    /\ UNCHANGED <<main, nodeVars, running, server, mutex, tasks, stop, handler, signalVars, threw, undefined, age>>

WorkerStep(w) == TakeTask(w) \/ CallPeer(w) \/ EndTask(w) \/ WorkerExits(w)

\* replicateLog begins a detached thread for a peer, if this node leads.
replicateLog ==
    /\ library /\ role = "leader" /\ async = "none" /\ node = "alive" /\ mutex = Nobody
    /\ async' = "begun"
    /\ UNCHANGED <<main, node, role, library, running, server, mutex, poolVars, handler, signalVars, threw, undefined, age>>

\* The thread looks at shuttingDown_, and cannot connect or locks mutex_; then
\* createAppendEntriesArgs locks mutex_ again.
sendAppendEntriesAsync ==
    /\ async = "begun"
    /\ \/ node # "destroyed" /\ async' = "done" /\ UNCHANGED <<mutex, undefined>>
       \/ node = "alive" /\ async' = "connected" /\ UNCHANGED <<mutex, undefined>>
       \/ node = "destroyed" /\ Use /\ UNCHANGED <<async, mutex>>
    /\ UNCHANGED <<main, node, role, library, running, server, poolVars, handler, signalVars, threw, age>>

LockTwice ==
    /\ async = "connected"
    /\ Use
    /\ async' = "relock"
    /\ mutex' = IF node = "destroyed" THEN mutex ELSE "async"
    /\ UNCHANGED <<main, node, role, library, running, server, poolVars, handler, signalVars, threw, age>>

\* What takes no time comes before the next tick.
Urgent ==
    \/ ~signal /\ main \in {"elect", "apply"}
    \/ ~signal /\ main \in {"votes", "heartbeat"} /\ mutex = Nobody
    \/ ~signal /\ main = "check" /\ (running => mutex = Nobody)
    \/ \E w \in Worker :
         \/ CanTake(w)
         \/ worker[w].state \in {"args", "call"} /\ worker[w].left = 0 /\ (mutex = Nobody \/ node = "destroyed")

\* The heartbeat interval passes; main's sleep ends.
Tick ==
    /\ ~Urgent
    /\ main' = IF main = "sleep" /\ ~signal THEN "check" ELSE main
    /\ worker' = [w \in Worker |-> IF worker[w].left > 0 THEN [worker[w] EXCEPT !.left = @ - 1] ELSE worker[w]]
    /\ age' = [p \in Peer |-> IF role = "leader" /\ running /\ main = "sleep" /\ age[p] < ELECTION_MIN
                              THEN age[p] + 1 ELSE age[p]]
    /\ UNCHANGED <<nodeVars, running, server, mutex, tasks, stop, handler, signalVars, threw, undefined>>
-----------------------------------------------------------------------------
\* After a terminated thread or undefined behaviour nothing is said.
Alive == main # "terminated" /\ undefined = "none"

Next ==
    /\ Alive
    /\ \/ MainStep \/ SignalArrives \/ SignalStop \/ NestedSignal
       \/ \E h \in Handler : HandlerEnters(h) \/ HandlerLeaves(h)
       \/ \E w \in Worker : WorkerStep(w)
       \/ replicateLog \/ sendAppendEntriesAsync \/ LockTwice
       \/ Tick

\* Threads that can run do run; calls have deadlines and commands a time-out.
Fairness ==
    /\ WF_vars(Alive /\ MainStep)
    /\ WF_vars(Alive /\ SignalStop)
    /\ \A h \in Handler : WF_vars(Alive /\ HandlerLeaves(h))
    /\ \A w \in Worker : WF_vars(Alive /\ WorkerStep(w))
    /\ WF_vars(Alive /\ Tick)

Spec == Init /\ [][Next]_vars /\ Fairness
-----------------------------------------------------------------------------
\* The types of the state; the main thread holds mutex_ exactly inside its calls
\* of RaftNode, also when one of them throws.
TypeOK ==
    /\ main \in InLoop \cup {"start", "construct", "serve", "stop", "destroy", "destroying", "end", "join",
                              "exit", "exited", "terminated"}
    /\ role \in {"follower", "candidate", "leader"}
    /\ server \in {"none", "running", "shutdown", "stopped"}
    /\ node \in {"none", "alive", "closing", "destroyed"}
    /\ mutex \in {"main", "async", Nobody}
    /\ main # "terminated" => (mutex = "main" <=> main \in InMutex)
    /\ tasks \in Seq([rpc : {"vote", "append"}, peer : Peer])
    /\ \A w \in Worker : worker[w].state \in {"wait", "args", "call", "exited"} /\ worker[w].left \in 0..DEADLINE
    /\ signal \in BOOLEAN /\ signals \in 0..MaxSignals
    /\ \A p \in Peer : age[p] \in 0..ELECTION_MIN

\* No handler runs on a RaftNode that is destroyed, wherever a signal finds the
\* main thread, unless an exception ended the main loop: stop has waited for the
\* handlers before main's locals go out of scope.
HandlersUseLiveNode ==
    (\E h \in Handler : handler[h]) /\ node = "destroyed" => threw

\* The invariant of the process: who holds mutex_, and who may still use the
\* node (main, GrpcRPCServer::stop).
ProcessInv ==
    /\ TypeOK
    /\ HandlersUseLiveNode

\* Every worker waits for a peer that does not answer.
AllWorkersHeld ==
    \A w \in Worker : worker[w].state = "call" /\ worker[w].left > 0 /\ worker[w].peer \in Dead

\* A heartbeat that is due is late by another interval, to whatever peer, only
\* while all workers of the pool wait for dead peers (or the thread of
\* replicateLog blocks the node): no vote requests of the same turn, calls to
\* peers that answer, full queue, signal or exception delays it
\* (sendAppendEntriesToPeers, RPCThreadPool).
LateOnlyBehindDeadPeers ==
    [][\A p \in Peer : age[p] > 0 /\ age'[p] > age[p] => AllWorkersHeld \/ mutex = "async"]_vars

\* mutex_ of the RaftNode is always released, also by a command that throws,
\* unless a signal finds the main thread inside it or the thread of replicateLog
\* locks it twice.
MutexIsReleased ==
    mutex # Nobody ~> mutex = Nobody \/ signal \/ async = "relock" \/ ~Alive

\* After a signal the process ends, through all destructors, unless the signal
\* found the main thread inside mutex_, the thread of replicateLog blocks the
\* node, or a second signal or a late use of the node makes it undefined; and
\* none of these happens after the last signal to a node that has no call under
\* way.
ShutdownEnds ==
    /\ signal /\ mutex = Nobody ~> main = "exited" \/ async = "relock" \/ ~Alive
    /\ Alive /\ signal /\ mutex = Nobody /\ role = "follower" /\ signals = MaxSignals /\ ~threw /\ tasks = <<>>
       /\ (\A w \in Worker : worker[w] = Idle) /\ async = "none" ~> main = "exited"

\* Nothing uses a RaftNode that is destroyed ("threads look at shuttingDown_
\* before they use a member", raft_node.cpp, ~RaftNode).
NodeNotUsedLate == undefined # "late"

\* After a signal the process ends.
SignalEndsProcess == signal ~> main = "exited"

\* The peers hear of the leader in time, whatever the number of workers.
PeersAlwaysHear == \A p \in Peer : age[p] < ELECTION_MIN

\* No handler runs on a RaftNode that is destroyed.
HandlersNeverLate == (\E h \in Handler : handler[h]) => node # "destroyed"
=============================================================================
