# TLA+ models of my_raft_kvdb

A replicated key-value store on Raft: a C++ library (`RaftNode`), a server process
(`raft_node_server`), gRPC between the nodes and to the clients, a file per node for
the persistent state, a skip list as the state machine, and a client library. This
directory models the parts that carry the logic, checks them with TLC on small
instances, and proves some of the results with TLAPS for every instance. Paths below
are relative to the repository.

## 1. Inventory

| Part | State | Operations | Talks to |
|---|---|---|---|
| `RaftNode` (`src/raft/raft_node.cpp`) | term, vote, log; role, votes received, nextIndex/matchIndex, commit and apply indexes; all under `mutex_` | `checkElectionTimeout`, `startElection`, `handleRequestVote`, `handleAppendEntries`, `handleVoteResponse`, `handleAppendEntriesResponse`, `createAppendEntriesArgs`, `appendLogEntry`, `applyCommittedEntries`, `restoreState` | called by the main thread, the RPC pool and the gRPC threads |
| Server process (`src/raft_node_server.cpp`) | `g_running`, `g_server`, `g_rpc_pool` with its queue and four workers, main's locals | start-up; a turn of the loop: election, heartbeats, apply; tasks of the pool; `signalHandler`; shutdown, destructors | `RaftNode`, the peers |
| gRPC transport (`src/network/grpc_*`, `proto/raft.pb.*`) | channel and stub, the server, deadlines | `connect`, `disconnect`, calls, the services' handlers, `start`, `stop`, `setRaftNode`; messages and their encoding | handlers of `RaftNode` |
| Legacy socket RPC (`src/network/simple_*`, `rpc_messages.h`) | socket, `connected_`, retries; listening socket, accept thread, detached handlers | the same, with a text format and retries | handlers of `RaftNode` |
| Client commands (`submitCommand`, `HandleRequest`) | `pendingCommands_`, one mutex and condition variable per command | append, register, wait, time out, notify, erase, an exception of the state machine | the apply loop |
| Persistence (`persistState`, `persistThreadFunc`, `src/storage/persister.cpp`) | `needsPersist_`, the state file and its temporary file | save, load, background save, final save | every handler |
| Storage (`skiplist.h`, `kv_store.cpp`, `command.cpp`) | the list, its levels | `serialize`, `deserialize`, `put`, `get`, `remove`, `applyCommand`, `applyCommandWithResult` | `HandleRequest`, the apply loop |
| `KVClient` (`src/client/kv_client.cpp`) | known leader, last error, `mutex_` | `connect`, `disconnect`, `setMaxRetries`, operations with retries, `findLeader` | `HandleRequest` of any node |
| Command-line client (`src/kv_client_cli.cpp`) | arguments, mode | a command or the prompt, exit code | `KVClient`, configuration |
| Configuration (`src/util/config.cpp`) | nodes, the node being read | `loadFromFile`, `getNodeConfig`, `getAllNodes` | server and command-line client |

What is hard here, and listed line by line under "hazards" in `PROJECT.json`:

- *Steps between locks.* Each method of `RaftNode` is locked, the sequences of methods
  are not: timeout check / election / reading of the vote request; leader check /
  append / registration of a client; creation of a request / reply.
- *Calls.* A call may be lost, may be executed after its caller's deadline, and its
  reply may meet a node whose role, term or log has changed.
- *Crashes.* Term and vote are saved by the handler; entries of the leader only by the
  persistence thread, some time later.
- *Unusual rules of this implementation.* A candidate that accepts a leader forgets its
  vote; a follower keeps an old vote; `matchIndex_` is the leader's last index at the
  time of the reply; a node that is no longer leader sends default arguments.
- *Lock order, shutdown order, retries.* Two mutexes taken in both orders, a
  `Persister` destroyed before its user, a pool that outlives the node, operations
  repeated without an identity.
- *Signals and exceptions.* `signalHandler` stops the server on whatever thread and at
  whatever point it arrives; a command that does not parse throws inside the apply loop.
- *Limited resources.* Four workers for all calls, a largest message, one socket.
- *Text.* Commands are parts between colons, messages are protobuf, configuration and
  arguments are read word by word.

What makes each part correct: one leader per term, matching logs, committed entries
that stay, applied in order (Raft); a follower that converges (replication); a file
that is whole, never goes back and is ahead of every answer (persistence); a client
told of success only for its own command, and answered (client commands); a map, and true
answers from it (storage); arguments and replies that arrive whole, calls and stops that
return (transport); heartbeats in time while workers are free, a shutdown that ends (server process); calls
that return and are not repeated, exit codes that tell the truth (client); the nodes
the file describes (configuration).

## 2. Modules

| Module | Models |
|---|---|
| `RaftLog` | pure operators on logs: up-to-date check, consistency check and conflict reply, merge, arguments of a request, back-off of nextIndex |
| `RaftNode` | the node, its main thread, the RPC pool and the calls between nodes |
| `RaftSafety` | the properties of `RaftNode` |
| `RaftElection` | the inductive invariant of elections |
| `MCRaftNode` | symmetry and views for TLC |
| `CatchUp` | one leader and one follower with arbitrary logs: replication's liveness |
| `Persistence` | saves, the persistence thread, shutdown, crash, step by step |
| `AtomicSave` | what `Persistence` promises: each save is one step |
| `ClientCommands` | `HandleRequest`, `submitCommand` and the apply loop, lock by lock, with commands that throw |
| `ServerProcess` | main with start-up, loop, signals, exceptions and destructors; the RPC pool; `replicateLog`'s thread |
| `Wire` | protobuf messages, their encoding, parsing and verification; conversions from and to the C++ structs |
| `Transport` | one client and one server of either RPC implementation, exchange by exchange |
| `SkipList` | the skip list, pointer by pointer, under the lock of `KVStore` |
| `KVMap` | what `SkipList` promises: a map |
| `KVStore` | `SkipList` driven through `Wire`: request, command text, `KVStore`, result text, response |
| `KVClient` | the client library |
| `Config` | `loadFromFile` line by line, and the reference that reads the file as a whole |
| `CommandLine` | `kv_client_cli` on top of `KVClient` and `Config`, and the library used by several threads |
| `DataProofs` | lemmas on the operators of `RaftLog` and on the messages of `Wire` |
| `RaftProofs` | theorems on `RaftNode`: types and elections, log matching, commitment |
| `ClientProofs` | theorems on `ClientCommands`, and on `CommandLine` with `KVClient` and `Config` |
| `CatchUpProofs`, `PersistenceProofs`, `ServerProcessProofs`, `TransportProofs`, `KVStoreProofs` | theorems on these components |

`map` in `PROJECT.json` gives the lines each definition stands for.

### How state and actions correspond to the code

**RaftNode.** One variable per member of the class, as a function of the server
(`currentTerm[n]` is `currentTerm_`). `log[n]` leaves out the sentinel, so that
`log[n][i]` is `log_[i]`. `disk[n]` is the file, `main[n]` the program counter and
locals of the main thread in `sendRequestVotesToPeers`, `task` the calls of the pool by
caller, callee and slot: queued (a heartbeat whose arguments are made later by a
worker), request, or reply. `late` are requests whose caller has given up. A method that
holds `mutex_` throughout is one action, with everything it calls (`persistState`,
apply). The reads of last index and last term are not locked in the code; while the node
may be written by another thread they yield any value (a data race). `votes`, `leaders`,
`decided` and `lapses` are histories that no action reads. `lapses` names the two events
that the code does not survive, once they have happened: "overtaken", an append while a
call may still be credited with the whole log, and "forgotten", a crash that loses an
entry.

**CatchUp** takes the same operators of `RaftLog` and starts from every pair of logs
that log matching allows, which `RaftNode`'s bounds could not reach.

**Persistence.** The members are a set of changes; a file holds such a set or is torn
(open for writing, not complete). Handlers hold `mutex_` from their change to the end of
`persistState`; `appendLogEntry` only sets `needsPersist_`; the persistence thread
tests, locks, saves, unlocks and then clears the flag. A restart is possible at every
step. Main's locals are destroyed in reverse order: the `Persister` first, then the
`RaftNode`, which joins the thread; a save through the destroyed `Persister` may work or
not. "Torn" also covers a file system that loses the content: the code does not call
`fsync`, and a power failure of the machine (as opposed to the death of the process) is
not modelled.

**ClientCommands.** Each request has a thread and one action per locked section. The
holders of `mutex_` and of each pending command's mutex are variables. The other nodes
appear as: the commit index advances, leadership is lost and regained, uncommitted
entries are replaced. A request in `Poison` is one whose text `deserialize` rejects: the
exception leaves `applyCommittedEntriesInternal` after `lastApplied_` was incremented,
releases `mutex_`, and ends the main loop (`up`) or the request's own call.

**ServerProcess.** `main` is the program counter of the main thread, `worker` and `tasks`
the pool, `handler` the gRPC threads inside a handler, `mutex` the holder of
`RaftNode::mutex_` across steps, `signal` that the main thread is inside
`signalHandler`. What Raft does is reduced to a role that may change. A turn of
the loop is in steps: the election, the vote requests, the heartbeats, the apply; a
candidate that is elected between the second and the third queues both sets of tasks in
one turn. `MaxTasks` bounds the queue, which is unbounded in the code: a node with so many
tasks waiting is no leader or candidate. One `Tick` is a heartbeat interval; it comes only when nothing that takes no time is left to do. A dead
peer holds a worker for `DEADLINE` ticks; `age` counts the ticks since a peer was last
sent a heartbeat. After a use of the destroyed node, a second `stop` inside the first, or
an exception that no thread catches, nothing more happens (`Alive`).

**Wire** gives every message its default, its fields and the two directions. An `int32`
goes through a 64-bit varint modulo 2^64 and back modulo 2^32; fields with their default
are not written; strings are sequences of their parts between colons, one of which is
not UTF-8. protobuf's own primitives are external.

**Transport.** An exchange is a request with its execution and its reply; `kind` chooses
the implementation. gRPC: the message arrives whole or not, the deadline may pass at
any time, `stop` waits for handlers. Sockets: one `recv` returns any beginning of a
text, cut between numbers or inside the last one; the server closes the connection
after one exchange, which the client notices only in the next; handlers are detached.
`fault` remembers that a time-out, a refusal or a partial transfer happened in the call.

**SkipList.** `forward[n]` is the vector of a node, indexed by level; a deleted node has
no levels, so following a dangling pointer stops TLC with an error. The random level is
any level. Values and keys are small sets; keys are numbers for their order.

**KVStore.** A request is executed in one step, since the way through the log is
`ClientCommands`' and the store is under its own lock. Key number `2i` is the i-th plain
key and `2i + 1` the same with a colon and more after it, which is their order as strings.
Followers and restarts apply the same text without a client.

**KVClient.** One action per RPC and per turn of a loop. The answer of a server is any
that `HandleRequest` may give, a command may be executed before the answer, later, or
never; a success need not be about the caller's command (`WrongClient`). `ledAnswer` is a
history: what a leader last answered an operation. `sendRequest`'s second lock of `mutex_`, undefined behaviour for `std::mutex`, is
modelled as the hang that the pthread implementation produces.

**Config** and **CommandLine.** A line is a blank, a section or a pair; numbers are good,
malformed or undefined (the port of the first node is not initialized). A word of the
command line is its position and whether it looks like a path. `mode` is "once" for a
command, "prompt" for the interactive use, and "library" for programs that use
`KVClient` from several threads.

## 3. Runs

Passing runs:

| Run | Checks | Bounds, and why they are enough |
|---|---|---|
| `Election` | `TypeOK`, `ElectionSafety`, `SecondVoteAfterElection`, `ElectionInv` (with `TermAndVoteDurable` and `LeaderHintIsElected`), `VoteRequestsMatchLog` | 3 servers, 2 terms, 2 of them time out, preempted main threads with all interleavings of the unlocked reads, two calls under way, logs of 1. Split votes, stale vote requests and logs that differ occur, and second votes in a term: the winner's heartbeat makes a candidate forget its vote while that candidate's own request is still under way, which takes the second call (`OneVotePerTerm` is violated on the same bounds). Crashes, requests whose caller has given up and appends during calls are left to the other runs and the proofs |
| `Replication` | `LogMatching`, `LeaderEndsWithTerm` | 2 terms, logs of 2, one late request, a crash that loses unsaved entries: two leaders with conflicting logs, and requests of the first that arrive in the second's term or after the crash. Appends during calls are left to `CatchUp`, `OverlapUnsafe` and the proof |
| `Commit` | `CommittedOnMajority`, `NewestLeaderComplete`, `AppliedIsLogPrefix` | 4 terms, logs of 1: enough for a commit, two later leaders and an entry of an old term |
| `CatchUp` | `CatchUpInv`, `AgreementGrows`, `FollowerCatchesUp` | logs of up to 4 entries of 3 older terms and the leader's, one late request, every limit on the entries of a message |
| `Persistence` | `SaveInv`, `AnsweredIsSaved`, `SavedNeverLost`, `ShutdownEnds`, `FlaggedIsSaved`, `ImplementsAtomicSave` | 2 handlers, 3 changes, failing saves, shutdown, restart at every step |
| `ClientCommands` | `PendingInv`, `TruthfulWhileLeading`, `RequestsEnd`, `CommittedIsApplied` | 3 requests, one of which throws, an applying thread, a change of leader, logs of 2, clusters of one node and of more: requests that share an index, erase each other, time out, and are applied by each other's threads |
| `KVStore` | `KVInv`, `ImplementsMap`, `AcceptedCanBeReplicated`, `PlainKeysAnsweredTruly` | 3 plain keys and their variants with a colon, 2 values, 3 levels: every shape of list with first, middle and last nodes on each level, and every request. The view leaves out the last request and answer, which no action reads |
| `Transport` | `TransportInv`, `HandlersGetWhatWasSent`, `TrueMeansAnswered`, `RetriesSound`, `BothEndsReturn` | both implementations, 2 calls on a client, 1 retry, 1 explicit connect, one stop: a reused connection, an overwritten socket, the rest of an answer left for the next call |
| `CommandLine` | `ClientInv`, `ConfigAsWritten`, `SendsWhatWasTyped`, `ProcessEnds` | files of 4 lines (a node, its repetition, another section, a malformed number), 3 words, 2 retries, 2 servers; in the library an operation, a connect and disconnects, which `mutex_` serialises |
| `ServerProcess` | `ProcessInv`, `LateOnlyBehindDeadPeers`, `MutexIsReleased`, `ShutdownEnds` | 2 workers, 1 handler, a live and a dead peer, a deadline of 3 intervals, 2 signals. As in the code (4 workers, 20 intervals) the deadline is longer than there are workers, so one dead peer holds them all and heartbeats are late. A node with a task waiting is deposed at its next turn (`MaxTasks = 1`); a longer queue is in `DeadPeer`. Enough for a signal inside the first one's `stop` |

Where a property is a conjunction (`CatchUpInv`, `PendingInv`, `KVInv`, `TransportInv`,
`RetriesSound`, `BothEndsReturn`, `ClientInv`, `ProcessInv`), the module defines and
explains each of its parts.

Some of these properties hold up to an event that the code does not survive, and say so:
`AnsweredIsSaved` until a save has failed (`intact`), `FlaggedIsSaved` but for the moment
between unlocking and clearing the flag, `MatchIndexIsReplicated` until a
client has appended during a call (`overlapped`), `FollowerCatchesUp` unless what is left
to send exceeds a message, `TruthfulWhileLeading` until the leader has lost its office,
`RequestsEnd` and `CommittedIsApplied` but for one lock cycle, `ProcessEnds` until a
server names the leader, `LateOnlyBehindDeadPeers` but for workers held by dead peers,
`ShutdownEnds` but for a signal inside `mutex_` and for undefined behaviour.
The following runs and configurations show what happens then.

Runs that show where the code departs from what its documents, comments or tests say
(each is a finding in `PROJECT.json`, with the quotation):

| Run | Shows |
|---|---|
| `OverlapUnsafe` | a command appended during a call is credited to the follower, committed without a majority and replaced |
| `UnsavedUnsafe` | a leader counts its own unsaved entry; its crash loses a committed entry |

Further configurations, each of which TLC also answers with a counterexample. They are
of less weight and not among the regular runs; `tlc -config X.cfg M` repeats them:

| Configuration | Module | Violates | Shows |
|---|---|---|---|
| `TwoVotes` | `MCRaftNode` | `OneVotePerTerm` | two votes in a term: `handleAppendEntries` clears the vote of a candidate (harmless, see section 5) |
| `LeaderElection` | `MCRaftNode` | `LeaderStartsNoElection` | a node elected between the timeout check and `startElection` deposes itself |
| `SingleNode` | `MCRaftNode` | `SingleNodeElectsItself` | a cluster of one node never elects itself, which `test/kv_client_test.cpp` expects |
| `SaveFailure` | `Persistence` | `AnsweredAlwaysSaved` | a failed save does not stop the answer |
| `LostFlag` | `Persistence` | `EventuallySaved` | `needsPersist_` is cleared after the lock was released: an entry appended in between stays unsaved |
| `ShutdownUnsaved` | `Persistence` | `ShutdownSavesAll` | the final save may be skipped, or use a destroyed `Persister` |
| `WrongClient` | `ClientCommands` | `SuccessMeansExecuted` | after a change of leader a client gets another command's result as its own success |
| `LockOrder` | `ClientCommands` | `NoLockCycle` | time-out and apply lock the two mutexes in opposite orders |
| `LateRegistration` | `ClientCommands` | `WaitersAreNotified` | a command applied before it is registered is never reported |
| `MessageLimit` | `CatchUp` | `EveryFollowerCatchesUp` | a follower that is further behind than a message can hold never catches up |
| `ColonKey` | `KVStore` | `ColonKeysAnsweredTruly` | what is stored under a key with a colon is not found under it |
| `DetachedHandler` | `Transport` | `EveryStoppedServerIsQuiet` | a handler of the socket server goes on after `stop` |
| `DeadPeer` | `ServerProcess` | `PeersAlwaysHear` | calls to a dead peer occupy all workers until the others' election time-out |
| `PoolOutlivesNode` | `ServerProcess` | `NodeNotUsedLate` | a task of the pool uses the node after its destruction |
| `SignalInLock` | `ServerProcess` | `SignalEndsProcess` | a signal inside `mutex_` waits for a handler that waits for `mutex_` |
| `ThrowingCommand` | `ServerProcess` | `HandlersNeverLate` | an exception ends main without stopping the server first |
| `PathValue` | `CommandLine` | `SendsEveryWord` | the last word of a value with a slash is taken for the configuration file |
| `Redirect` | `KVClient` | `CallsReturn` | a redirect blocks the client on its own mutex |
| `Duplicates` | `KVClient` | `ExecutedAtMostOnce` | a retried operation is executed twice |
| `MaxRetries` | `KVClient` | `MaxRetriesMeansUnreachable` | errors of a working leader are reported as an unreachable cluster |

### Switches, views, symmetry

`OverlappingAppends`, `UnsavedCrashes` and `PreemptMain` of `RaftNode` separate the
questions. The runs with a switch off say what holds when the situation does not occur,
and the violation runs show what happens when it does; the properties of elections and
log matching hold with the first two on as well, which the proofs show. `PreemptMain = FALSE` runs the main thread's
election without interruption; `Election` does not use it. `Commit` is
thus a conditional result: the commit rule is right if no command is appended while a
call is under way and no unsaved entry is lost. The theorems on commitment need no switch:
they are about every behaviour, as long as `lapses` is empty.

`Restless` bounds which nodes time out; the others vote and follow. `MaxCalls` bounds the
calls under way in the cluster: a call beyond it is one that is lost at once.

`Symmetry` permutes the servers that time out among themselves and the others among
themselves, in runs without liveness. `LogView` leaves out histories that the run's
properties do not mention, and members that are only written. `ReplicationView` also
leaves out commit indexes and the leader hint, which feed only each other and the state
machine, and which of a pair's slots holds a call; of the file it keeps what a restart
can still bring back. `ElectionView` is the same with the hint and the histories that the properties
of elections mention. None hides a variable that an action of interest reads or a property of the
run mentions.

### Fairness

`CatchUp`: weak fairness of the heartbeat (the main loop goes on), strong fairness of
creating, delivering and handling a call: a network that loses calls but not all of
them. Appends are bounded by `MaxLog`, so the leader's log eventually rests.
`Persistence`: a thread inside `persistState` goes on, the persistence thread gets
`mutex_` if it is free again and again (strong fairness of the lock), and main goes on
with a shutdown it has begun. Handlers and restarts are under no obligation. `KVClient`
and `CommandLine`: a thread inside a call goes on, and every RPC ends, as it has a
deadline; nobody has to type at the prompt. `ClientCommands`: as long as some thread of
the node can run, one does (weak fairness of all their steps together, which is less than
fairness of each); changes of leader and commits are under no obligation. `Transport`:
the client, a handler that has its request and `stop` go on, and a call's time-out
eventually passes. `ServerProcess`: each thread that can run does, and time passes;
signals need not come, and a detached thread of `replicateLog` need not go on.

### Deadlock

`CHECK_DEADLOCK FALSE` is used where the system may come to rest because its bounded
requests are all answered (`ClientCommands`), because the process has ended
(`CommandLine`, `ServerProcess`, `Persistence`), or because it really may hang: the lock
cycle of `ClientCommands`, the redirect of `KVClient` and the signal inside `mutex_` of
`ServerProcess` are stated as properties and reported by `LockOrder`, `Redirect` and
`SignalInLock`. `KVStore` and `Transport` are checked for deadlock.

## 4. Refinement

- `Persistence` implements `AtomicSave`. The saved state is the file; the members seen
  from outside are the members without the change whose handler still holds `mutex_`
  (`Visible`): a handler's change happens at its rename. This justifies that `RaftNode`
  saves within the handler's action. Saves that fail are part of it: `AtomicSave` has a
  step that changes the members and not the file, after which nothing is promised about
  answers.
- `SkipList` implements `KVMap`. The map is what a search from the top level finds for
  each key, so the refinement says at once that searches work for every key after every
  operation, and that size and return values agree. It is checked in `KVStore`, for the
  operations that requests and the log cause.

## 5. Proofs

All for every number of servers, threads and requests, and for every bound.

**Types and elections** (`RaftProofs`: `TypeCorrect`, `ElectionInvariant`,
`ElectionSafe`, `VotesSafe`, `LeadershipEnds`). Raft's usual argument, one vote per node
and term, is not available: a candidate that accepts the leader of its term forgets its
vote and may vote again (configuration `TwoVotes`). The invariant `ElectionInv` instead
says that every elected leader has a majority of *loyal* voters, who voted for it and
nobody else in its term, for good. It is inductive because a node that votes twice was a
candidate of that term itself and first saw a genuine AppendEntries of another winner:
so it had voted for itself, was not loyal to the winner, and a second winner of the term
would need a majority that meets the loyal one. The other conjuncts support this:
messages are genuine, votes are remembered unless the term is lost, term and vote are on
disk. The case of one majority meeting another uses the library's theorems on finite
cardinality.

**Log matching** (`RaftProofs`: `LogsExplainedAlways`, `LogsMatchAlways`). A
request may outlive the log it was taken from, which a crash or another leader has cut
in the meantime; so the logs of the present state do not determine what requests may
contain. The invariant is therefore existential: there is a set `H` of logs, those
the nodes ever had, in which any two *explain* each other (an entry of one term at some
index in both means that they agree up to there), and every log, saved log and request is
one of them or cut from one. `H` grows with `appendLogEntry` only,
which extends a log by an entry of a term that only this leader writes (`ElectionSafe`).
`handleAppendEntries` adds nothing: merging what was cut from a log `g` of `H` yields the
old log or `g` itself (`DataProofs!MergeYieldsOneOfBoth`), although the handler
neither cuts a log at `prevLogIndex` nor compares more than terms. No switch is
restricted: log matching survives appends during calls and crashes that lose entries.
`VoteRequestsMatch` is about the unlocked reads of last index and term: a request that
can still win the election carries the candidate's log as it is.

**Commitment** (`RaftProofs`: `CommitInvariant`, `CommitSafe`, `LeaderComplete`,
`AppliedInOrder`). Each has the form `Spec => [](lapses = {} => ...)`: it restricts no
constant and is about every behaviour of the code's rules, appends during calls and
crashes included, up to the moment when the first of two events happens. An append while
a call of the leader has been sent, or answered with success and not yet credited, makes
`handleAppendEntriesResponse` credit what was never sent; a restart from a file that lacks
entries forgets what was counted. `OverlapUnsafe` and `UnsavedUnsafe` show that the
results fail after either, so the condition cannot be dropped, only the code changed. An
append while calls are still queued is no lapse, nor is a crash whose entries are saved.
A second existential set joins `H`: `A`, of acknowledgements
`<<q, t, i>>`, of which each says that node `q`, while in term `t`, had the entry of
term `t` at index `i` of its leader's log. What a leader may commit is what a majority
of acknowledgements supports, which `matchIndex_` never overstates while no append
overtakes a call. A node that acknowledged keeps the entry unless a later
term replaces it, and its vote in a later term went to a log that was at least as new; so
by induction over terms, which the invariant carries as a statement on every log of a
later leader in `H`, a later leader has the entry. Majorities of acknowledgements and of
votes meet as in the election proof. Committed entries that stay (`CommittedStable`),
the newest leader's completeness and the order of the applied entries follow.

**Replication to one follower** (`CatchUpProofs`: `CatchUpIsSound`,
`FollowerKeepsWhatAgrees`). The same lemmas on the merge, with requests cut from
beginnings of one leader's log: the logs match after every step, the agreement of the two
never shrinks, and the match index is right until a client appends during a call.

**Persistence** (`PersistenceProofs`): `PersistenceCorrect` (`TypeOK` and `SaveInv`: the
holder of `mutex_` is the only thread inside `persistState`, the file is never torn and
never ahead of the members, and what is about to be renamed is the present state),
`SavedStays`, `AnsweredSaved` and `PersistenceImplementsAtomicSave`, with and without
failing saves and shutdowns.

**Client commands** (`ClientProofs`: `PendingCorrect`, `SuccessIsTruthful`). The
invariant `CommandIInv` adds: a thread that has found a pending command holds `mutex_`,
and the command has the index just applied; a request without an entry has no index; and
as long as the node has led from the start, nothing of its log was replaced, so that what
was executed is in the log and each appended command is at its index. A cluster of one
node never leaves that state, which is also why its clients' own commit indexes are
within the log.

**Server process** (`ServerProcessProofs`: `ProcessCorrect`,
`HeartbeatsWaitForDeadPeersOnly`). The invariant of `ProcessCorrect` adds that handlers
exist only between the start and the end of the server, and that main passes `stop`
without a stopped server only after an exception. `HeartbeatsWaitForDeadPeersOnly` is the
theorem on the pool, for any number of workers and any deadline, the code's included: a
heartbeat that is due is put off by another interval only while every worker waits for a
dead peer, or the detached thread of `replicateLog` blocks the node. `SentInv` says that
after its turn a leader has sent every peer a heartbeat in this interval or has it queued,
or its arguments are being made; `HeldInv`, that only a call to a dead peer has time left.
At a tick nothing that takes no time is left to do, so a heartbeat that is still queued
finds no idle worker, and all workers are held. Votes of the same turn, calls to peers
that answer, signals and exceptions are thereby excluded as causes.

**Storage** (`KVStoreProofs`: `StorageIsSound`, `SkipListImplementsMap`,
`AcceptedCommandsCanBeReplicated`, `PlainKeysGetTheTruth`). `KVInductive` says that every
level of the skip list is chained in the order of the keys: the pointer of a node leads to
the next greater node of that level, or is null at its greatest (`Chained`). Unlike
`LevelsAreLists`, which follows pointers, this says something of each node alone, so a
change of one pointer can be looked at by itself. The walks of `search`, `insert` and
`remove` are recursive functions over nodes and levels, and what they compute is shown
without induction over data: the nodes a walk stops at are the last ones before the key
on each level (`IsLast`); the function that says so satisfies the recursion, and of two
functions that satisfy it none can differ, as there would be a greatest node, or a
least level, where they do. `insert` at any level and `remove` then are the operations of a map,
which is the refinement, and the conversions of `Wire` are shown to be inverse on what a
client sends: a plain key and its value arrive, by command text and entry, as they are.

**Transport** (`TransportProofs`: `TransportInvariant`, `EndsAreBounded`,
`RequestsArriveRight`, `AnswersAreTrue`, `RetriesAreSound`). The lemmas on data say what
`deserialize` makes of any beginning of a text that `recv` may return (an exception, the
whole, or the whole with its last number cut), and that a protobuf message is read as
it was written, by the greatest-element argument of the storage proofs for repeated
fields. `TransportInductive` is about exchanges: an exchange of the present call carries
this call's request, and what its handler got and replied is right; no socket but the
connected one is left open without a failed call to account for it; and a call during
which nothing went wrong has one exchange at most, and none while it tries again without
a connection. The last part is what makes `RetriesSound` hold: the retry that a reused connection
always needs repeats a call whose request was never read.

**Client** (`ClientProofs`: `CallsAreSerialised`, `FilesAreReadAsWritten`,
`WordsAreSentAsTyped`). `CallsInv` says for each place in an operation how many retries
are left, that the address of a leader is known there, and that the requests sent so far
are at most two for each retry begun, and that an operation has returned true exactly if
the last answer of a leader to it was success. Exactly the holder of `mutex_` is inside a call, so
its steps leave the others' numbers as they are. `OneCommandInv` adds that a process with
a command makes one operation and ends with it, which gives the exit code its meaning: 0 if a leader
answered success, 1 if none did. It does not mean that the command was executed
(`WrongClient`).
`ReadSoFar` relates what `loadFromFile` keeps between two lines to the lines it has read:
the complete nodes are as their last section says, the current node is what its section
says so far, and between sections it is empty, but for a port nobody has set before the
first. It is an invariant of the process that reads, one line for each step, so the
theorem holds for files of any length and needs no induction over them. `TypedInv` says
that the words are those typed, in their order, without the one taken for the file.

`ElectionInv`, `CommandIInv`, `KVInductive`, `TransportInductive`, `LateIInv`, `CallsInv`,
`OneCommandInv`, `ReadingInv` and `TypedInv` are also within TLC's reach, and hold on the
bounds of `Election`, `ClientCommands`, `KVStore`, `Transport`, `ServerProcess` and
`CommandLine`. The invariants of the other proofs quantify over every log or every set of
logs, and are only proved.

Assumptions are the named `ASSUME`s of the modules: servers, workers, handlers and peers
are finite sets, the special ids are distinct and no servers, the bounds are naturals.
None bounds the size of the cluster.

Every invariant and action property of the passing runs, and both refinements, are
proved, and no theorem needs more of the constants than the `ASSUME`s. The four theorems on
commitment hold until one of the two events that `lapses` records; the runs `OverlapUnsafe`
and `UnsavedUnsafe` show what fails after them.

Only model-checked: all liveness (`FollowerCatchesUp`, `ShutdownEnds`, `FlaggedIsSaved`,
`RequestsEnd`, `CommittedIsApplied`, `BothEndsReturn`, `ProcessEnds`, `MutexIsReleased`),
which needs fairness and `ENABLED`.

## 6. Not modelled

- Lengths of timeouts, except as numbers of heartbeat intervals in `ServerProcess`.
- `RaftNode::becomeLeader` and `becomeFollower` as calls of their own (only tests make
  them), `sendRequestVoteAsync`, which nothing calls, and the setters of addresses.
- gRPC and protobuf themselves: the stubs of `raft.grpc.pb.*` only forward to them, and
  `raft.pb.h` holds accessors. What the code needs of them is marked external in `map`.
- `GrpcRPCServer::setRaftNode` on a running server: `Transport` sets the node before
  `start`, as main does.
- The text of the state file, abstracted to whole or torn; `Persister::clear`, `exists`.
- What is printed, `SkipList::display`, `SimpleRPCServer::wait`, and the setters of
  times in the clients.
- The programs under `examples/` and the tests: they call what is modelled.
- A power failure of the machine, see `Persistence` above.
- Snapshots and membership changes do not exist in the code.

## 7. Plan

Done: every component is modelled and checked (sections 2 to 4), and the safety
properties of each are proved (section 5). Left:

1. That a step of `RaftNode` restricted to one leader and one follower is a step of
   `CatchUp`, which so far shares only the operators of `RaftLog` with it.
2. Liveness, which stays with TLC.
