------------------------------ MODULE RaftNode ------------------------------
(***************************************************************************)
(* The Raft core of my_raft_kvdb: the class RaftNode of                    *)
(* src/raft/raft_node.cpp and the server process that drives it,           *)
(* src/raft_node_server.cpp.  Every server runs                            *)
(*   - a main thread: election timeout, heartbeats, apply loop;            *)
(*   - an RPC thread pool that sends RequestVote and AppendEntries calls   *)
(*     and hands their replies to the node;                                *)
(*   - gRPC handler threads that answer the peers' calls;                  *)
(*   - a persistence thread.                                               *)
(* A method that holds mutex_ from its first to its last line is one       *)
(* action; what the callers do between two such methods is interleaved.    *)
(*                                                                         *)
(* log_[0] is a sentinel (term 0, never sent): here log[n] is the sequence *)
(* without it, so log[n][i] is log_[i] and log_.size() is Len(log[n]) + 1. *)
(***************************************************************************)
EXTENDS RaftLog, FiniteSets

CONSTANTS
    Server,             \* the nodes of cluster.conf
    Nil,                \* the id -1: "not voted", "leader unknown"
    DefaultId,          \* the id 0 of a default-constructed AppendEntriesArgs
    Command,            \* client commands
    MaxOutstanding,     \* bound: calls a node has under way to one peer
    MaxCalls,           \* bound: calls under way in the cluster
    Restless,           \* bound: nodes whose election timer may run out
    MaxTerm,            \* bound: highest term an election may start
    MaxLog,             \* bound: longest log a leader may append to
    MaxLate,            \* bound: requests still under way that nobody waits for
    MaxCrash,           \* bound: process crashes
    PreemptMain,        \* FALSE: no other thread of the cluster runs between
                        \*   checkElectionTimeout and the end of
                        \*   sendRequestVotesToPeers
    OverlappingAppends, \* FALSE: a client command is appended only while no
                        \*   call of the leader is under way
    UnsavedCrashes      \* FALSE: a process crashes only when the persistence
                        \*   thread has written the whole log

ASSUME ServersFinite == IsFiniteSet(Server)
ASSUME IdsDistinct == /\ Nil \notin Server
                      /\ DefaultId \notin Server
                      /\ DefaultId # Nil
ASSUME RestlessServers == Restless \subseteq Server
ASSUME BoundsAreNat == {MaxOutstanding, MaxCalls, MaxTerm, MaxLog, MaxLate, MaxCrash} \subseteq Nat
ASSUME FlagsAreBoolean == {PreemptMain, OverlappingAppends, UnsavedCrashes} \subseteq BOOLEAN

VARIABLES
    \* persistent members (raft_node.h: currentTerm_, votedFor_, log_)
    currentTerm, votedFor, log,
    \* volatile members
    state, leaderId, votesReceived, currentElectionTerm,
    nextIndex, matchIndex, commitIndex, lastApplied,
    \* the state machine: entries handed to applyCallback_ since the process
    \* started
    applied,
    \* the file written by Persister: term, vote and log
    disk,
    \* the main thread: where it is and the locals of sendRequestVotesToPeers
    main,
    \* the calls in the RPC pool, and requests whose caller has given up
    task, late,
    crashes,
    \* history: votes given, elections won, entries some node regarded as
    \* committed, and what has undermined commitment so far (AppendLogEntry,
    \* Restart)
    votes, leaders, decided, lapses

raftVars    == <<currentTerm, votedFor, state, leaderId, votesReceived, currentElectionTerm>>
leaderVars  == <<nextIndex, matchIndex>>
commitVars  == <<commitIndex, lastApplied, applied, decided, lapses>>
netVars     == <<task, late>>
vars == <<raftVars, log, leaderVars, commitVars, disk, main, netVars, crashes, votes, leaders>>
-----------------------------------------------------------------------------
Slot == 1..MaxOutstanding
Peers(n) == Server \ {n}
Majority == Cardinality(Server) \div 2 + 1

Entry == [term : Nat, command : Command]

RequestVoteArgs   == [type : {"RequestVoteArgs"}, term : Nat, candidateId : Server,
                      lastLogIndex : Nat, lastLogTerm : Nat]
RequestVoteReply  == [type : {"RequestVoteReply"}, term : Nat, voteGranted : BOOLEAN]
AppendEntriesArgs == [type : {"AppendEntriesArgs"}, term : Nat,
                      leaderId : Server \cup {DefaultId},
                      prevLogIndex : Nat, prevLogTerm : Nat,
                      entries : Seq(Entry), leaderCommit : Nat]
AppendEntriesReply == [type : {"AppendEntriesReply"}, term : Nat, success : BOOLEAN,
                       conflictIndex : Nat \cup {-1}, conflictTerm : Nat \cup {-1}]

\* A call's life in the pool: queued AppendEntries tasks build their arguments
\* only when a worker picks them up; RequestVote tasks carry theirs.
Idle == [type |-> "idle"]
Queued == [type |-> "queued"]
Request == RequestVoteArgs \cup AppendEntriesArgs
Reply == RequestVoteReply \cup AppendEntriesReply
Task == {Idle, Queued} \cup Request \cup Reply

\* What saveRaftState writes.
Disk == [term : Nat, votedFor : Server \cup {Nil}, log : Seq(Entry)]

AtLoop == [pc |-> "loop", term |-> 0, lastLogIndex |-> 0]

MainPC == {"loop", "timedOut", "started", "candidate", "haveTerm", "haveIndex"}
-----------------------------------------------------------------------------
(* Helpers of RaftNode *)

\* Mutant: the vote already given is not looked at.
CanAlwaysVote(n, args) == TRUE

\* handleRequestVote, rule 3: a newer term has cleared votedFor_ before.
CanVote(n, args) == args.term > currentTerm[n] \/ votedFor[n] \in {Nil, args.candidateId}

VoteGranted(n, args) ==
    /\ args.term >= currentTerm[n]
    /\ CanVote(n, args)
    /\ IsLogUpToDate(log[n], args.lastLogIndex, args.lastLogTerm)

\* updateCommitIndex: the highest index of the current term that a majority,
\* the leader included, has replicated.
Replicated(match, n, i) == 1 + Cardinality({p \in Peers(n) : match[p] >= i}) >= Majority

\* Mutant: entries of older terms are committed by counting replicas.
UpdateCommitIndexAnyTerm(n, match) ==
    Max({commitIndex[n]} \cup {i \in commitIndex[n]+1..Len(log[n]) : Replicated(match, n, i)})

UpdateCommitIndex(n, match) ==
    Max({commitIndex[n]} \cup
        {i \in commitIndex[n]+1..Len(log[n]) :
            log[n][i].term = currentTerm[n] /\ Replicated(match, n, i)})

\* createAppendEntriesArgs.  A node that is no longer leader yields the
\* default-constructed arguments, and the caller sends them all the same.
DefaultArgs == [type |-> "AppendEntriesArgs", term |-> 0, leaderId |-> DefaultId,
                prevLogIndex |-> 0, prevLogTerm |-> 0, entries |-> <<>>, leaderCommit |-> 0]

CreateAppendEntriesArgs(n, p) ==
    IF state[n] = "LEADER"
    THEN CreateArgs(log[n], currentTerm[n], n, nextIndex[n][p], commitIndex[n])
    ELSE DefaultArgs

\* The entries of log l that a node with commit index c regards as committed.
CommittedEntries(l, c) == {[index |-> i, entry |-> l[i]] : i \in 1..Min({c, Len(l)})}
-----------------------------------------------------------------------------
Init ==
    /\ currentTerm = [n \in Server |-> 0]
    /\ votedFor = [n \in Server |-> Nil]
    /\ log = [n \in Server |-> <<>>]
    /\ state = [n \in Server |-> "FOLLOWER"]
    /\ leaderId = [n \in Server |-> Nil]
    /\ votesReceived = [n \in Server |-> {}]
    /\ currentElectionTerm = [n \in Server |-> -1]
    /\ nextIndex = [n \in Server |-> [p \in Server |-> 1]]
    /\ matchIndex = [n \in Server |-> [p \in Server |-> 0]]
    /\ commitIndex = [n \in Server |-> 0]
    /\ lastApplied = [n \in Server |-> 0]
    /\ applied = [n \in Server |-> <<>>]
    /\ disk = [n \in Server |-> [term |-> 0, votedFor |-> Nil, log |-> <<>>]]
    /\ main = [n \in Server |-> AtLoop]
    /\ task = [c \in Server \X Server \X Slot |-> Idle]
    /\ late = {}
    /\ crashes = 0
    /\ votes = {}
    /\ leaders = {}
    /\ decided = {}
    /\ lapses = {}

\* persistState: the three persistent members as this step leaves them.
PersistState(n) ==
    disk' = [disk EXCEPT ![n] = [term |-> currentTerm'[n], votedFor |-> votedFor'[n], log |-> log'[n]]]

\* A reply of a newer term: back to FOLLOWER.  currentElectionTerm_ is left.
StepDown(n, term) ==
    /\ currentTerm' = [currentTerm EXCEPT ![n] = term]
    /\ votedFor' = [votedFor EXCEPT ![n] = Nil]
    /\ state' = [state EXCEPT ![n] = "FOLLOWER"]
    /\ leaderId' = [leaderId EXCEPT ![n] = Nil]
    /\ votesReceived' = [votesReceived EXCEPT ![n] = {}]
    /\ UNCHANGED <<currentElectionTerm, log>>
    /\ PersistState(n)

\* applyCommittedEntriesInternal with log l and commit index c.
\* lastApplied_ also passes over indexes that the log does not have.
ApplyCommitted(n, l, c) ==
    /\ applied' = [applied EXCEPT ![n] = @ \o SubSeq(l, lastApplied[n] + 1, Min({c, Len(l)}))]
    /\ lastApplied' = [lastApplied EXCEPT ![n] = Max({@, c})]
-----------------------------------------------------------------------------
(* The main thread *)

\* checkElectionTimeout returns true: not LEADER, and the timer has run out.
\* How much time has passed is not modelled.
CheckElectionTimeout(n) ==
    /\ main[n].pc = "loop"
    /\ state[n] # "LEADER"
    /\ n \in Restless /\ currentTerm[n] < MaxTerm
    /\ main' = [main EXCEPT ![n].pc = "timedOut"]
    /\ UNCHANGED <<raftVars, log, leaderVars, commitVars, disk, netVars, crashes, votes, leaders>>

\* startElection, called after checkElectionTimeout has released mutex_: the
\* node may be anything by now, a LEADER included.
StartElection(n) ==
    /\ main[n].pc = "timedOut"
    /\ currentTerm[n] < MaxTerm
    /\ main' = [main EXCEPT ![n].pc = "started"]
    /\ state' = [state EXCEPT ![n] = "CANDIDATE"]
    /\ currentTerm' = [currentTerm EXCEPT ![n] = @ + 1]
    /\ votedFor' = [votedFor EXCEPT ![n] = n]
    /\ leaderId' = [leaderId EXCEPT ![n] = Nil]
    /\ currentElectionTerm' = [currentElectionTerm EXCEPT ![n] = currentTerm[n] + 1]
    /\ votesReceived' = [votesReceived EXCEPT ![n] = {n}]
    /\ votes' = votes \cup {[term |-> currentTerm[n] + 1, voter |-> n, candidate |-> n]}
    /\ UNCHANGED log
    /\ PersistState(n)
    /\ UNCHANGED <<leaderVars, commitVars, netVars, crashes, leaders>>

\* sendRequestVotesToPeers reads the state, the term, the last index and the
\* last term of the node one after the other; other threads run in between.
ReadState(n) ==
    /\ main[n].pc = "started"
    /\ main' = [main EXCEPT ![n] = IF state[n] = "CANDIDATE" THEN [@ EXCEPT !.pc = "candidate"] ELSE AtLoop]
    /\ UNCHANGED <<raftVars, log, leaderVars, commitVars, disk, netVars, crashes, votes, leaders>>

ReadTerm(n) ==
    /\ main[n].pc = "candidate"
    /\ main' = [main EXCEPT ![n] = [@ EXCEPT !.pc = "haveTerm", !.term = currentTerm[n]]]
    /\ UNCHANGED <<raftVars, log, leaderVars, commitVars, disk, netVars, crashes, votes, leaders>>

\* getLastLogIndex and getLastLogTerm do not even lock mutex_.  As long as the
\* node is a candidate of the term just read nobody writes log_; after that
\* handleAppendEntries may be at it, and the data race yields any value.
LogIsStable(n) == state[n] = "CANDIDATE" /\ currentTerm[n] = main[n].term
RacyLastLogIndex(n) == IF LogIsStable(n) THEN {Len(log[n])} ELSE 0..MaxLog
RacyLastLogTerm(n) == IF LogIsStable(n) THEN {LastTerm(log[n])} ELSE 0..MaxTerm

ReadLastLogIndex(n) ==
    /\ main[n].pc = "haveTerm"
    /\ \E i \in RacyLastLogIndex(n) :
          main' = [main EXCEPT ![n] = [@ EXCEPT !.pc = "haveIndex", !.lastLogIndex = i]]
    /\ UNCHANGED <<raftVars, log, leaderVars, commitVars, disk, netVars, crashes, votes, leaders>>

\* enqueue one task per peer.  The pool's queue has no limit; here a call that
\* finds no free slot, or MaxCalls others under way, is not made: the same as
\* a call that is lost at once.
FreeSlots(n, p) == {s \in Slot : task[n, p, s] = Idle}
Active == {c \in DOMAIN task : task[c] # Idle}

Enqueue(n, t) ==
    LET callable == {p \in Peers(n) : FreeSlots(n, p) # {}}
        room == MaxCalls - Cardinality(Active)
    IN  \E called \in SUBSET callable :
            /\ Cardinality(called) = Min({room, Cardinality(callable)})
            /\ task' = [c \in DOMAIN task |->
                          IF c[1] = n /\ c[2] \in called /\ c[3] = Min(FreeSlots(n, c[2]))
                          THEN t ELSE task[c]]

SendRequestVotes(n) ==
    /\ main[n].pc = "haveIndex"
    /\ main' = [main EXCEPT ![n] = AtLoop]
    /\ \E t \in RacyLastLogTerm(n) :
          Enqueue(n, [type |-> "RequestVoteArgs", term |-> main[n].term, candidateId |-> n,
                      lastLogIndex |-> main[n].lastLogIndex, lastLogTerm |-> t])
    /\ UNCHANGED <<raftVars, log, leaderVars, commitVars, disk, late, crashes, votes, leaders>>

\* A leader whose heartbeat is due: sendAppendEntriesToPeers.
SendAppendEntriesToPeers(n) ==
    /\ main[n].pc = "loop"
    /\ state[n] = "LEADER"
    /\ Enqueue(n, Queued)
    /\ UNCHANGED <<raftVars, log, leaderVars, commitVars, disk, main, late, crashes, votes, leaders>>

\* applyCommittedEntries, at the end of every turn of the loop.
ApplyCommittedEntries(n) ==
    /\ main[n].pc = "loop"
    /\ ApplyCommitted(n, log[n], commitIndex[n])
    /\ UNCHANGED <<raftVars, log, leaderVars, commitIndex, decided, lapses, disk, main, netVars, crashes, votes, leaders>>
-----------------------------------------------------------------------------
(* Handlers of the peers' requests *)

\* What a handler answers goes back to the caller unless it has given up.
Answer(c, reply) == task' = [task EXCEPT ![c] = reply] /\ UNCHANGED late
Discard(m) == late' = late \ {m} /\ UNCHANGED task

RequestVoteReplyTo(n, args) ==
    [type |-> "RequestVoteReply", term |-> Max({currentTerm[n], args.term}),
     voteGranted |-> VoteGranted(n, args)]

HandleRequestVote(n, args) ==
    \/ \* rule 1, or a vote that is not given in the same term
       /\ args.term <= currentTerm[n]
       /\ ~VoteGranted(n, args)
       /\ UNCHANGED <<raftVars, disk, votes>>
    \/ \* rule 3 in the same term
       /\ args.term = currentTerm[n]
       /\ VoteGranted(n, args)
       /\ votedFor' = [votedFor EXCEPT ![n] = args.candidateId]
       /\ UNCHANGED <<currentTerm, state, leaderId, votesReceived, currentElectionTerm>>
       /\ votes' = votes \cup {[term |-> args.term, voter |-> n, candidate |-> args.candidateId]}
       /\ PersistState(n)
    \/ \* rule 2, then rule 3
       /\ args.term > currentTerm[n]
       /\ currentTerm' = [currentTerm EXCEPT ![n] = args.term]
       /\ state' = [state EXCEPT ![n] = "FOLLOWER"]
       /\ leaderId' = [leaderId EXCEPT ![n] = Nil]
       /\ votesReceived' = [votesReceived EXCEPT ![n] = {}]
       /\ currentElectionTerm' = [currentElectionTerm EXCEPT ![n] = -1]
       /\ \/ /\ VoteGranted(n, args)
             /\ votedFor' = [votedFor EXCEPT ![n] = args.candidateId]
             /\ votes' = votes \cup {[term |-> args.term, voter |-> n, candidate |-> args.candidateId]}
          \/ /\ ~VoteGranted(n, args)
             /\ votedFor' = [votedFor EXCEPT ![n] = Nil]
             /\ UNCHANGED votes
       /\ PersistState(n)

RequestVoteStep(n, args) ==
    /\ args.type = "RequestVoteArgs"
    /\ UNCHANGED log
    /\ HandleRequestVote(n, args)
    /\ UNCHANGED <<leaderVars, commitVars, main, crashes, leaders>>

AppendEntriesReplyTo(n, args) ==
    IF args.term < currentTerm[n] THEN AppendReply(currentTerm[n], FALSE, -1, -1)
                                  ELSE ConsistencyReply(log[n], args.term, args)

\* Mutant: the node follows the leader's log without becoming FOLLOWER.
AcceptLeaderKeepingState(n, args) ==
    /\ currentTerm' = [currentTerm EXCEPT ![n] = args.term]
    /\ leaderId' = [leaderId EXCEPT ![n] = args.leaderId]
    /\ UNCHANGED <<state, votedFor, votesReceived, currentElectionTerm>>

\* Mutant: a FOLLOWER loses its vote as well.
AcceptLeaderForgettingVote(n, args) ==
    /\ currentTerm' = [currentTerm EXCEPT ![n] = args.term]
    /\ leaderId' = [leaderId EXCEPT ![n] = args.leaderId]
    /\ state' = [state EXCEPT ![n] = "FOLLOWER"]
    /\ votedFor' = [votedFor EXCEPT ![n] = Nil]
    /\ votesReceived' = [votesReceived EXCEPT ![n] = {}]
    /\ currentElectionTerm' = [currentElectionTerm EXCEPT ![n] = -1]

\* handleAppendEntries, rule 2: a node that is not FOLLOWER loses its vote,
\* whatever the term; a FOLLOWER keeps votedFor_, even from an older term.
AcceptLeader(n, args) ==
    /\ currentTerm' = [currentTerm EXCEPT ![n] = args.term]
    /\ leaderId' = [leaderId EXCEPT ![n] = args.leaderId]
    /\ \/ /\ state[n] = "FOLLOWER"
          /\ UNCHANGED <<state, votedFor, votesReceived, currentElectionTerm>>
       \/ /\ state[n] # "FOLLOWER"
          /\ state' = [state EXCEPT ![n] = "FOLLOWER"]
          /\ votedFor' = [votedFor EXCEPT ![n] = Nil]
          /\ votesReceived' = [votesReceived EXCEPT ![n] = {}]
          /\ currentElectionTerm' = [currentElectionTerm EXCEPT ![n] = -1]

\* Rules 4 and 5: merge the entries, follow leaderCommit, apply.
FollowerCommit(n, args, l) ==
    \/ /\ args.leaderCommit <= commitIndex[n]
       /\ UNCHANGED commitVars
    \/ /\ args.leaderCommit > commitIndex[n]
       /\ LET c == Min({args.leaderCommit, Len(l)})
          IN  /\ commitIndex' = [commitIndex EXCEPT ![n] = c]
              /\ ApplyCommitted(n, l, c)
              /\ decided' = decided \cup CommittedEntries(l, c)
       /\ UNCHANGED lapses

HandleAppendEntries(n, args) ==
    \/ \* rule 1
       /\ args.term < currentTerm[n]
       /\ UNCHANGED <<raftVars, log, commitVars, disk>>
    \/ /\ args.term >= currentTerm[n]
       /\ AcceptLeader(n, args)
       /\ \/ /\ ~LogConsistent(log[n], args)
             /\ UNCHANGED <<log, commitVars>>
          \/ /\ LogConsistent(log[n], args)
             /\ LET l == MergeEntries(log[n], args.prevLogIndex, args.entries)
                IN  /\ log' = [log EXCEPT ![n] = l]
                    /\ FollowerCommit(n, args, l)
       /\ PersistState(n)

AppendEntriesStep(n, args) ==
    /\ args.type = "AppendEntriesArgs"
    /\ HandleAppendEntries(n, args)
    /\ UNCHANGED <<leaderVars, main, crashes, votes, leaders>>

\* A request of call c reaches the peer, and the caller is still waiting.
DeliverRequestVote(c) ==
    /\ task[c] \in RequestVoteArgs
    /\ RequestVoteStep(c[2], task[c])
    /\ Answer(c, RequestVoteReplyTo(c[2], task[c]))

DeliverAppendEntries(c) ==
    /\ task[c] \in AppendEntriesArgs
    /\ AppendEntriesStep(c[2], task[c])
    /\ Answer(c, AppendEntriesReplyTo(c[2], task[c]))

\* A request reaches the peer after its caller's deadline or crash.
DeliverLate(m) ==
    /\ \/ m.args \in RequestVoteArgs /\ RequestVoteStep(m.to, m.args)
       \/ m.args \in AppendEntriesArgs /\ AppendEntriesStep(m.to, m.args)
    /\ Discard(m)
-----------------------------------------------------------------------------
(* The RPC pool *)

\* A worker picks up a queued AppendEntries task and builds its arguments.
CreateAppendEntries(c) ==
    /\ task[c] = Queued
    /\ task' = [task EXCEPT ![c] = CreateAppendEntriesArgs(c[1], c[2])]
    /\ UNCHANGED <<raftVars, log, leaderVars, commitVars, disk, main, late, crashes, votes, leaders>>

\* connect fails, the request or the reply is lost, or the deadline passes
\* with the request never reaching the peer.
LoseCall(c) ==
    /\ task[c] # Idle
    /\ task' = [task EXCEPT ![c] = Idle]
    /\ UNCHANGED <<raftVars, log, leaderVars, commitVars, disk, main, late, crashes, votes, leaders>>

\* The deadline passes while the request is still on its way.
TimeoutCall(c) ==
    /\ task[c] \in Request
    /\ Cardinality(late) < MaxLate
    /\ task' = [task EXCEPT ![c] = Idle]
    /\ late' = late \cup {[to |-> c[2], args |-> task[c]]}
    /\ UNCHANGED <<raftVars, log, leaderVars, commitVars, disk, main, crashes, votes, leaders>>

\* Mutant: nextIndex_ starts at the last entry instead of after it.
BecomeLeaderOffByOne(n) ==
    /\ state' = [state EXCEPT ![n] = "LEADER"]
    /\ leaderId' = [leaderId EXCEPT ![n] = n]
    /\ votesReceived' = [votesReceived EXCEPT ![n] = {}]
    /\ currentElectionTerm' = [currentElectionTerm EXCEPT ![n] = -1]
    /\ nextIndex' = [nextIndex EXCEPT ![n] = [p \in Server |-> Len(log[n])]]
    /\ matchIndex' = [matchIndex EXCEPT ![n] = [p \in Server |-> 0]]
    /\ leaders' = leaders \cup {[term |-> currentTerm[n], leader |-> n]}
    /\ UNCHANGED <<currentTerm, votedFor>>

\* becomeLeaderInternal
BecomeLeader(n) ==
    /\ state' = [state EXCEPT ![n] = "LEADER"]
    /\ leaderId' = [leaderId EXCEPT ![n] = n]
    /\ votesReceived' = [votesReceived EXCEPT ![n] = {}]
    /\ currentElectionTerm' = [currentElectionTerm EXCEPT ![n] = -1]
    /\ nextIndex' = [nextIndex EXCEPT ![n] = [p \in Server |-> Len(log[n]) + 1]]
    /\ matchIndex' = [matchIndex EXCEPT ![n] = [p \in Server |-> 0]]
    /\ leaders' = leaders \cup {[term |-> currentTerm[n], leader |-> n]}
    /\ UNCHANGED <<currentTerm, votedFor>>

\* The ways a vote response leaves the node as it was.
IgnoreVoteResponse(n, reply) ==
    \/ state[n] # "CANDIDATE"
    \/ reply.term <= currentTerm[n] /\ reply.term < currentElectionTerm[n]
    \/ reply.term <= currentTerm[n] /\ ~reply.voteGranted

CountVote(n, p) ==
    LET received == votesReceived[n] \cup {p}
    IN  \/ /\ Cardinality(received) < Majority
           /\ votesReceived' = [votesReceived EXCEPT ![n] = received]
           /\ UNCHANGED <<currentTerm, votedFor, state, leaderId, currentElectionTerm, leaderVars, leaders>>
        \/ /\ Cardinality(received) >= Majority
           /\ BecomeLeader(n)

HandleVoteResponse(c) ==
    LET n == c[1]  reply == task[c]
    IN  /\ reply \in RequestVoteReply
        /\ task' = [task EXCEPT ![c] = Idle]
        /\ \/ /\ IgnoreVoteResponse(n, reply)
              /\ UNCHANGED <<raftVars, log, disk, leaderVars, leaders>>
           \/ /\ state[n] = "CANDIDATE"
              /\ reply.term > currentTerm[n]
              /\ StepDown(n, reply.term)
              /\ UNCHANGED <<leaderVars, leaders>>
           \/ /\ ~IgnoreVoteResponse(n, reply)
              /\ reply.term <= currentTerm[n]
              /\ CountVote(n, c[2])
              /\ UNCHANGED <<log, disk>>
        /\ UNCHANGED <<commitVars, main, late, crashes, votes>>

HandleAppendEntriesResponse(c) ==
    LET n == c[1]  p == c[2]  reply == task[c]
    IN  /\ reply \in AppendEntriesReply
        /\ task' = [task EXCEPT ![c] = Idle]
        /\ \/ /\ state[n] # "LEADER"
              /\ UNCHANGED <<raftVars, log, disk, leaderVars, commitVars>>
           \/ /\ state[n] = "LEADER"
              /\ reply.term > currentTerm[n]
              /\ StepDown(n, reply.term)
              /\ UNCHANGED <<leaderVars, commitVars>>
           \/ /\ state[n] = "LEADER"
              /\ reply.term <= currentTerm[n]
              /\ reply.success
              /\ LET match == [matchIndex[n] EXCEPT ![p] = ExpectedMatchIndex(log[n])]
                     commit == UpdateCommitIndex(n, match)
                 IN  /\ matchIndex' = [matchIndex EXCEPT ![n] = match]
                     /\ nextIndex' = [nextIndex EXCEPT ![n][p] = match[p] + 1]
                     /\ commitIndex' = [commitIndex EXCEPT ![n] = commit]
                     /\ decided' = decided \cup CommittedEntries(log[n], commit)
              /\ UNCHANGED <<raftVars, log, disk, lastApplied, applied, lapses>>
           \/ /\ state[n] = "LEADER"
              /\ reply.term <= currentTerm[n]
              /\ ~reply.success
              /\ nextIndex' = [nextIndex EXCEPT ![n][p] = BackedOffNextIndex(log[n], reply)]
              /\ UNCHANGED <<raftVars, log, disk, matchIndex, commitVars>>
        /\ UNCHANGED <<main, late, crashes, votes, leaders>>
-----------------------------------------------------------------------------
(* Clients, the persistence thread, crashes *)

Quiet(n) == \A c \in DOMAIN task : c[1] = n => task[c] = Idle

\* The AppendEntries calls of n that may still be credited with its whole log,
\* whatever they carried.
Creditable(n) ==
    {c \in DOMAIN task : /\ c[1] = n
                         /\ \/ task[c].type = "AppendEntriesArgs"
                            \/ task[c].type = "AppendEntriesReply" /\ task[c].success}

Lapse(name, happened) == lapses' = IF happened THEN lapses \cup {name} ELSE lapses

\* appendLogEntry, from submitCommand in a gRPC thread.  The entry is written
\* to disk later, by the persistence thread.
AppendLogEntry(n, cmd) ==
    /\ state[n] = "LEADER"
    /\ Len(log[n]) < MaxLog
    /\ OverlappingAppends \/ Quiet(n)
    /\ log' = [log EXCEPT ![n] = Append(@, [term |-> currentTerm[n], command |-> cmd])]
    /\ Lapse("overtaken", Creditable(n) # {})
    /\ UNCHANGED <<raftVars, leaderVars, commitIndex, lastApplied, applied, decided, disk, main, netVars, crashes,
                   votes, leaders>>

\* persistThreadFunc: whatever the node holds is written some time after
\* appendLogEntry has set needsPersist_.  (The flag may be lost, see the README:
\* nothing here says that the write ever happens.)
PersistThread(n) ==
    /\ disk[n].log # log[n]
    /\ UNCHANGED <<raftVars, log, leaderVars, commitVars, main, netVars, crashes, votes, leaders>>
    /\ PersistState(n)

\* The process dies and starts again: constructor, then restoreState.  The
\* calls it had under way are gone, the state machine is empty.
Restart(n) ==
    /\ crashes < MaxCrash
    /\ UnsavedCrashes \/ disk[n].log = log[n]
    /\ crashes' = crashes + 1
    /\ currentTerm' = [currentTerm EXCEPT ![n] = disk[n].term]
    /\ votedFor' = [votedFor EXCEPT ![n] = disk[n].votedFor]
    /\ log' = [log EXCEPT ![n] = disk[n].log]
    /\ state' = [state EXCEPT ![n] = "FOLLOWER"]
    /\ leaderId' = [leaderId EXCEPT ![n] = Nil]
    /\ votesReceived' = [votesReceived EXCEPT ![n] = {}]
    /\ currentElectionTerm' = [currentElectionTerm EXCEPT ![n] = -1]
    /\ nextIndex' = [nextIndex EXCEPT ![n] = [p \in Server |-> 1]]
    /\ matchIndex' = [matchIndex EXCEPT ![n] = [p \in Server |-> 0]]
    /\ commitIndex' = [commitIndex EXCEPT ![n] = 0]
    /\ lastApplied' = [lastApplied EXCEPT ![n] = 0]
    /\ applied' = [applied EXCEPT ![n] = <<>>]
    /\ main' = [main EXCEPT ![n] = AtLoop]
    /\ task' = [c \in DOMAIN task |-> IF c[1] = n THEN Idle ELSE task[c]]
    /\ Lapse("forgotten", disk[n].log # log[n])
    /\ UNCHANGED <<disk, late, votes, leaders, decided>>
-----------------------------------------------------------------------------
MainStep(n) ==
    \/ CheckElectionTimeout(n)
    \/ StartElection(n)
    \/ ReadState(n)
    \/ ReadTerm(n)
    \/ ReadLastLogIndex(n)
    \/ SendRequestVotes(n)
    \/ SendAppendEntriesToPeers(n)
    \/ ApplyCommittedEntries(n)

CallStep(c) ==
    \/ CreateAppendEntries(c)
    \/ DeliverRequestVote(c)
    \/ DeliverAppendEntries(c)
    \/ HandleVoteResponse(c)
    \/ HandleAppendEntriesResponse(c)
    \/ LoseCall(c)
    \/ TimeoutCall(c)

\* Between two turns of every main thread but those of N, if runs of the main
\* thread are not to be preempted.
MainAtLoop(N) == PreemptMain \/ \A n \in N : main[n].pc = "loop"

Next ==
    \/ \E n \in Server : MainAtLoop(Server \ {n}) /\ MainStep(n)
    \/ /\ MainAtLoop(Server)
       /\ \/ \E c \in DOMAIN task : CallStep(c)
          \/ \E m \in late : DeliverLate(m)
          \/ \E n \in Server, cmd \in Command : AppendLogEntry(n, cmd)
          \/ \E n \in Server : PersistThread(n)
          \/ \E n \in Server : Restart(n)

Spec == Init /\ [][Next]_vars
-----------------------------------------------------------------------------
Vote == [term : Nat, voter : Server, candidate : Server]
Leader == [term : Nat, leader : Server]
Committed == [index : Nat, entry : Entry]

PersistentTypeOK ==
    /\ currentTerm \in [Server -> Nat]
    /\ votedFor \in [Server -> Server \cup {Nil}]
    /\ log \in [Server -> Seq(Entry)]
    /\ disk \in [Server -> Disk]

RoleTypeOK ==
    /\ state \in [Server -> {"FOLLOWER", "CANDIDATE", "LEADER"}]
    /\ leaderId \in [Server -> Server \cup {Nil, DefaultId}]
    /\ votesReceived \in [Server -> SUBSET Server]
    /\ currentElectionTerm \in [Server -> Nat \cup {-1}]

IndexTypeOK ==
    /\ nextIndex \in [Server -> [Server -> Nat \ {0}]]
    /\ matchIndex \in [Server -> [Server -> Nat]]
    /\ commitIndex \in [Server -> Nat]
    /\ lastApplied \in [Server -> Nat]
    /\ applied \in [Server -> Seq(Entry)]

ProcessTypeOK ==
    /\ main \in [Server -> [pc : MainPC, term : Nat, lastLogIndex : Nat]]
    /\ task \in [Server \X Server \X Slot -> Task]
    /\ late \subseteq [to : Server, args : Request]
    /\ crashes \in Nat

HistoryTypeOK ==
    /\ votes \subseteq Vote /\ leaders \subseteq Leader /\ decided \subseteq Committed
    /\ lapses \subseteq {"overtaken", "forgotten"}

\* Every variable holds what the declarations of raft_node.h and rpc_messages.h
\* allow; nextIndex_ never drops below 1.
TypeOK == PersistentTypeOK /\ RoleTypeOK /\ IndexTypeOK /\ ProcessTypeOK /\ HistoryTypeOK
=============================================================================
