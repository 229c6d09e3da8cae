----------------------------- MODULE RaftProofs ------------------------------
(***************************************************************************)
(* The safety of RaftNode for every cluster, every bound and every setting *)
(* of the flags: types and elections, then log matching on top of them,    *)
(* then, for the cluster without the two defects, commitment.              *)
(***************************************************************************)
EXTENDS RaftElection, DataProofs

USE DEF raftVars, leaderVars, commitVars, netVars, vars

\* Entries of a log have natural terms.
LEMMA TermsOfLog ==
    ASSUME NEW l \in Seq(Entry)
    PROVE  (\A i \in 1..Len(l) : l[i] \in Entry /\ l[i].term \in Nat) /\ LastTerm(l) \in Nat
<1>1. \A i \in 1..Len(l) : l[i] \in Entry
  OBVIOUS
<1>2. \A e \in Entry : e.term \in Nat
  BY DEF Entry
<1>3. l # <<>> => Len(l) \in 1..Len(l)
  OBVIOUS
<1> QED
  BY <1>1, <1>2, <1>3 DEF LastTerm

\* persistState writes a state of the declared type.
LEMMA PersistStateType ==
    ASSUME PersistentTypeOK, NEW n \in Server, PersistState(n),
           currentTerm' \in [Server -> Nat], votedFor' \in [Server -> Server \cup {Nil}],
           log' \in [Server -> Seq(Entry)]
    PROVE  PersistentTypeOK'
  BY DEF PersistentTypeOK, PersistState, Disk

\* applyCommittedEntriesInternal hands entries of the log to the state machine.
LEMMA ApplyCommittedType ==
    ASSUME IndexTypeOK, NEW n \in Server, NEW l \in Seq(Entry), NEW c \in Nat, ApplyCommitted(n, l, c)
    PROVE  applied' \in [Server -> Seq(Entry)] /\ lastApplied' \in [Server -> Nat]
<1> DEFINE m == Min({c, Len(l)})
<1>1. m \in Nat /\ m <= Len(l)
  BY MinOfTwo, Len(l) \in Nat
<1> HIDE DEF m
<1>2. lastApplied[n] \in Nat /\ applied[n] \in Seq(Entry)
  BY DEF IndexTypeOK
<1>3. SubSeq(l, lastApplied[n] + 1, m) \in Seq(Entry)
  <2>1. \A i \in lastApplied[n] + 1 .. m : l[i] \in Entry
    BY <1>1, <1>2
  <2> QED
    BY <1>1, <1>2, <2>1, SubSeqProperties
<1>4. applied[n] \o SubSeq(l, lastApplied[n] + 1, m) \in Seq(Entry)
  BY <1>2, <1>3, ConcatProperties
<1>5. Max({lastApplied[n], c}) \in Nat
  BY <1>2, MaxOfTwo
<1> QED
  BY <1>4, <1>5 DEF IndexTypeOK, ApplyCommitted, m

\* The committed entries of a log are pairs of an index and an entry.
LEMMA CommittedEntriesType ==
    ASSUME NEW l \in Seq(Entry), NEW c \in Nat
    PROVE  CommittedEntries(l, c) \subseteq Committed
<1>1. Min({c, Len(l)}) \in Nat /\ Min({c, Len(l)}) <= Len(l)
  BY MinOfTwo, Len(l) \in Nat
<1>2. \A i \in 1..Min({c, Len(l)}) : i \in Nat /\ l[i] \in Entry
  BY <1>1
<1>3. \A i \in 1..Min({c, Len(l)}) : [index |-> i, entry |-> l[i]] \in Committed
  BY <1>2 DEF Committed
<1> QED
  BY <1>3 DEF CommittedEntries

\* The arguments of an AppendEntries call are of the declared type.
LEMMA CreateAppendEntriesArgsType ==
    ASSUME TypeOK, NEW n \in Server, NEW p \in Server
    PROVE  CreateAppendEntriesArgs(n, p) \in AppendEntriesArgs
<1>1. log[n] \in Seq(Entry) /\ nextIndex[n][p] \in Nat \ {0} /\ currentTerm[n] \in Nat /\ commitIndex[n] \in Nat
  BY DEF TypeOK, PersistentTypeOK, IndexTypeOK
<1>2. \A i \in 1..Len(log[n]) : log[n][i].term \in Nat
  BY <1>1, TermsOfLog
<1>3. CreateArgs(log[n], currentTerm[n], n, nextIndex[n][p], commitIndex[n]) \in AppendEntriesArgs
  <2> DEFINE Args == [type : {"AppendEntriesArgs"}, term : {currentTerm[n]}, leaderId : {n},
                      prevLogIndex : Nat, prevLogTerm : Nat, entries : Seq(Entry), leaderCommit : Nat]
  <2>1. CreateArgs(log[n], currentTerm[n], n, nextIndex[n][p], commitIndex[n]) \in Args
    BY <1>1, <1>2, CreateArgsFields
  <2>2. ASSUME NEW a \in Args PROVE a \in AppendEntriesArgs
    BY <1>1 DEF AppendEntriesArgs
  <2> QED
    BY <2>1, <2>2
<1>4. DefaultArgs \in AppendEntriesArgs
  BY DEF DefaultArgs, AppendEntriesArgs
<1> QED
  BY <1>3, <1>4 DEF CreateAppendEntriesArgs

\* The initial state is of the declared types.
LEMMA InitTypeOK == Init => TypeOK
<1> SUFFICES ASSUME Init PROVE TypeOK
  OBVIOUS
<1>1. PersistentTypeOK
  BY DEF Init, PersistentTypeOK, Disk
<1>2. RoleTypeOK /\ IndexTypeOK /\ HistoryTypeOK
  BY DEF Init, RoleTypeOK, IndexTypeOK, HistoryTypeOK
<1>3. ProcessTypeOK
  BY DEF Init, ProcessTypeOK, AtLoop, MainPC, Task
<1> QED
  BY <1>1, <1>2, <1>3 DEF TypeOK

\* The main thread's steps keep the types.
LEMMA MainStepTypeOK ==
    ASSUME TypeOK, NEW n \in Server, MainStep(n)
    PROVE  TypeOK'
<1> USE DEF TypeOK
<1> DEFINE Locals == [pc : MainPC, term : Nat, lastLogIndex : Nat]
<1>1. /\ currentTerm[n] \in Nat /\ commitIndex[n] \in Nat
      /\ log[n] \in Seq(Entry) /\ Len(log[n]) \in Nat /\ LastTerm(log[n]) \in Nat
  BY TermsOfLog DEF PersistentTypeOK, IndexTypeOK
<1>2. main[n] \in Locals /\ AtLoop \in Locals
  BY DEF ProcessTypeOK, AtLoop, MainPC
<1>3. ASSUME main' \in [Server -> Locals], UNCHANGED <<task, late, crashes>>
      PROVE  ProcessTypeOK'
  BY <1>3 DEF ProcessTypeOK
<1>4. ASSUME UNCHANGED <<currentTerm, votedFor, log, disk>> PROVE PersistentTypeOK'
  BY <1>4 DEF PersistentTypeOK
<1>5. ASSUME UNCHANGED <<state, leaderId, votesReceived, currentElectionTerm>> PROVE RoleTypeOK'
  BY <1>5 DEF RoleTypeOK
<1>6. ASSUME UNCHANGED <<leaderVars, commitIndex, lastApplied, applied>> PROVE IndexTypeOK'
  BY <1>6 DEF IndexTypeOK
<1>7. ASSUME UNCHANGED <<votes, leaders, decided, lapses>> PROVE HistoryTypeOK'
  BY <1>7 DEF HistoryTypeOK
<1>8. CASE CheckElectionTimeout(n)
  <2>1. main' \in [Server -> Locals]
    BY <1>2, <1>8 DEF CheckElectionTimeout, ProcessTypeOK, MainPC
  <2> QED
    BY <1>3, <1>4, <1>5, <1>6, <1>7, <1>8, <2>1 DEF CheckElectionTimeout
<1>9. CASE StartElection(n)
  <2>1. main' \in [Server -> Locals]
    BY <1>2, <1>9 DEF StartElection, ProcessTypeOK, MainPC
  <2>2. PersistentTypeOK'
    <3>1. currentTerm' \in [Server -> Nat] /\ votedFor' \in [Server -> Server \cup {Nil}] /\ log' \in [Server -> Seq(Entry)]
      BY <1>1, <1>9 DEF StartElection, PersistentTypeOK
    <3> QED
      BY <1>9, <3>1, PersistStateType DEF StartElection
  <2>3. HistoryTypeOK'
    BY <1>1, <1>9 DEF StartElection, HistoryTypeOK, Vote
  <2>4. RoleTypeOK'
    BY <1>1, <1>9 DEF StartElection, RoleTypeOK
  <2> QED
    BY <1>3, <1>6, <1>9, <2>1, <2>2, <2>3, <2>4 DEF StartElection
<1>10. CASE ReadState(n)
  <2>1. main' \in [Server -> Locals]
    BY <1>2, <1>10 DEF ReadState, ProcessTypeOK, MainPC
  <2> QED
    BY <1>3, <1>4, <1>5, <1>6, <1>7, <1>10, <2>1 DEF ReadState
<1>11. CASE ReadTerm(n)
  <2>1. main' \in [Server -> Locals]
    BY <1>1, <1>2, <1>11 DEF ReadTerm, ProcessTypeOK, MainPC
  <2> QED
    BY <1>3, <1>4, <1>5, <1>6, <1>7, <1>11, <2>1 DEF ReadTerm
<1>12. CASE ReadLastLogIndex(n)
  <2>1. PICK i \in RacyLastLogIndex(n) :
            main' = [main EXCEPT ![n] = [@ EXCEPT !.pc = "haveIndex", !.lastLogIndex = i]]
    BY <1>12 DEF ReadLastLogIndex
  <2>2. i \in Nat
    BY <1>1 DEF RacyLastLogIndex
  <2>3. main' \in [Server -> Locals]
    BY <1>2, <2>1, <2>2 DEF ProcessTypeOK, MainPC
  <2> QED
    BY <1>3, <1>4, <1>5, <1>6, <1>7, <1>12, <2>3 DEF ReadLastLogIndex
<1>13. CASE SendRequestVotes(n)
  <2> DEFINE args(t) == [type |-> "RequestVoteArgs", term |-> main[n].term, candidateId |-> n,
                         lastLogIndex |-> main[n].lastLogIndex, lastLogTerm |-> t]
  <2>1. main' \in [Server -> Locals]
    BY <1>2, <1>13 DEF SendRequestVotes, ProcessTypeOK
  <2>2. PICK t \in RacyLastLogTerm(n) : Enqueue(n, args(t))
    BY <1>13 DEF SendRequestVotes
  <2>3. args(t) \in Task
    BY <1>1, <1>2 DEF RacyLastLogTerm, Task, Request, RequestVoteArgs
  <2> HIDE DEF args
  <2>4. ProcessTypeOK'
    BY <1>13, <2>1, <2>2, <2>3 DEF SendRequestVotes, Enqueue, ProcessTypeOK
  <2> QED
    BY <1>4, <1>5, <1>6, <1>7, <1>13, <2>4 DEF SendRequestVotes
<1>14. CASE SendAppendEntriesToPeers(n)
  <2>1. ProcessTypeOK'
    BY <1>14, Queued \in Task DEF SendAppendEntriesToPeers, Enqueue, ProcessTypeOK, Task
  <2> QED
    BY <1>4, <1>5, <1>6, <1>7, <1>14, <2>1 DEF SendAppendEntriesToPeers
<1>15. CASE ApplyCommittedEntries(n)
  <2>1. applied' \in [Server -> Seq(Entry)] /\ lastApplied' \in [Server -> Nat]
    BY <1>1, <1>15, ApplyCommittedType DEF ApplyCommittedEntries
  <2>2. IndexTypeOK'
    BY <1>15, <2>1 DEF ApplyCommittedEntries, IndexTypeOK
  <2>3. ProcessTypeOK'
    BY <1>15 DEF ApplyCommittedEntries, ProcessTypeOK
  <2> QED
    BY <1>4, <1>5, <1>7, <1>15, <2>2, <2>3 DEF ApplyCommittedEntries
<1> QED
  BY <1>8, <1>9, <1>10, <1>11, <1>12, <1>13, <1>14, <1>15 DEF MainStep

\* handleRequestVote keeps the types.
LEMMA RequestVoteTypeOK ==
    ASSUME TypeOK, NEW n \in Server, NEW args \in RequestVoteArgs, RequestVoteStep(n, args)
    PROVE  PersistentTypeOK' /\ RoleTypeOK' /\ IndexTypeOK' /\ HistoryTypeOK'
<1> USE DEF TypeOK
<1>1. args.term \in Nat /\ args.candidateId \in Server /\ currentTerm[n] \in Nat
  BY DEF PersistentTypeOK, RequestVoteArgs
<1>2. IndexTypeOK'
  BY DEF RequestVoteStep, IndexTypeOK
<1>3. RoleTypeOK'
  BY DEF RequestVoteStep, HandleRequestVote, RoleTypeOK
<1>4. PersistentTypeOK'
  <2>1. CASE UNCHANGED <<raftVars, disk>>
    BY <2>1 DEF RequestVoteStep, PersistentTypeOK
  <2>2. CASE PersistState(n)
    <3>1. currentTerm' \in [Server -> Nat] /\ votedFor' \in [Server -> Server \cup {Nil}] /\ log' \in [Server -> Seq(Entry)]
      BY <1>1 DEF RequestVoteStep, HandleRequestVote, PersistentTypeOK
    <3> QED
      BY <2>2, <3>1, PersistStateType
  <2> QED
    BY <2>1, <2>2 DEF RequestVoteStep, HandleRequestVote
<1>5. HistoryTypeOK'
  <2>1. [term |-> args.term, voter |-> n, candidate |-> args.candidateId] \in Vote
    BY <1>1 DEF Vote
  <2> QED
    BY <2>1 DEF RequestVoteStep, HandleRequestVote, HistoryTypeOK
<1> QED
  BY <1>2, <1>3, <1>4, <1>5

\* handleAppendEntries keeps the types.
LEMMA AppendEntriesTypeOK ==
    ASSUME TypeOK, NEW n \in Server, NEW args \in AppendEntriesArgs, AppendEntriesStep(n, args)
    PROVE  PersistentTypeOK' /\ RoleTypeOK' /\ IndexTypeOK' /\ HistoryTypeOK'
<1> USE DEF TypeOK
<1> DEFINE l == MergeEntries(log[n], args.prevLogIndex, args.entries)
<1>1. /\ args.term \in Nat /\ args.leaderId \in Server \cup {DefaultId}
      /\ args.prevLogIndex \in Nat /\ args.entries \in Seq(Entry) /\ args.leaderCommit \in Nat
  BY DEF AppendEntriesArgs
<1>2. log[n] \in Seq(Entry) /\ Len(log[n]) \in Nat /\ currentTerm[n] \in Nat /\ commitIndex[n] \in Nat
  BY DEF PersistentTypeOK, IndexTypeOK
<1>3. LogConsistent(log[n], args) => l \in Seq(Entry)
  <2>1. ~PrevMissing(log[n], args) => args.prevLogIndex \in 0..Len(log[n])
    BY <1>1, <1>2 DEF PrevMissing
  <2> QED
    BY <1>1, <1>2, <2>1, MergeEntriesIsLog DEF LogConsistent
<1> HIDE DEF l
<1>4. CASE args.term < currentTerm[n]
  <2>1. UNCHANGED <<raftVars, log, commitVars, disk, leaderVars, votes, leaders>>
    BY <1>1, <1>2, <1>4 DEF AppendEntriesStep, HandleAppendEntries
  <2> QED
    BY <2>1 DEF PersistentTypeOK, RoleTypeOK, IndexTypeOK, HistoryTypeOK
<1>5. CASE ~(args.term < currentTerm[n])
  <2>1. /\ AcceptLeader(n, args)
        /\ PersistState(n)
        /\ UNCHANGED <<leaderVars, votes, leaders>>
        /\ \/ UNCHANGED <<log, commitVars>>
           \/ /\ LogConsistent(log[n], args)
              /\ log' = [log EXCEPT ![n] = l]
              /\ FollowerCommit(n, args, l)
    BY <1>5 DEF AppendEntriesStep, HandleAppendEntries, l
  <2>2. RoleTypeOK'
    BY <1>1, <2>1 DEF AcceptLeader, RoleTypeOK
  <2>3. PersistentTypeOK'
    <3>1. currentTerm' \in [Server -> Nat] /\ votedFor' \in [Server -> Server \cup {Nil}]
      BY <1>1, <2>1 DEF AcceptLeader, PersistentTypeOK
    <3>2. log' \in [Server -> Seq(Entry)]
      BY <1>3, <2>1 DEF PersistentTypeOK
    <3> QED
      BY <2>1, <3>1, <3>2, PersistStateType
  <2>4. CASE UNCHANGED commitVars
    BY <2>1, <2>2, <2>3, <2>4 DEF IndexTypeOK, HistoryTypeOK
  <2>5. CASE LogConsistent(log[n], args) /\ FollowerCommit(n, args, l) /\ ~(args.leaderCommit <= commitIndex[n])
    <3> DEFINE c == Min({args.leaderCommit, Len(l)})
    <3>1. c \in Nat
      BY <1>1, <1>3, <2>5, MinOfTwo, Len(l) \in Nat
    <3>2. /\ commitIndex' = [commitIndex EXCEPT ![n] = c]
          /\ ApplyCommitted(n, l, c)
          /\ decided' = decided \cup CommittedEntries(l, c)
          /\ UNCHANGED lapses
      BY <2>5 DEF FollowerCommit, commitVars
    <3> HIDE DEF c
    <3>3. applied' \in [Server -> Seq(Entry)] /\ lastApplied' \in [Server -> Nat]
      BY <1>3, <2>5, <3>1, <3>2, ApplyCommittedType
    <3>4. CommittedEntries(l, c) \subseteq Committed
      BY <1>3, <2>5, <3>1, CommittedEntriesType
    <3>5. IndexTypeOK'
      BY <2>1, <3>1, <3>2, <3>3 DEF IndexTypeOK
    <3>6. HistoryTypeOK'
      BY <2>1, <3>2, <3>4 DEF HistoryTypeOK
    <3> QED
      BY <2>2, <2>3, <3>5, <3>6
  <2>6. \/ UNCHANGED commitVars
        \/ LogConsistent(log[n], args) /\ FollowerCommit(n, args, l) /\ ~(args.leaderCommit <= commitIndex[n])
    <3>1. CASE args.leaderCommit <= commitIndex[n]
      <4>1. ~(args.leaderCommit > commitIndex[n])
        BY <1>1, <1>2, <3>1
      <4>2. FollowerCommit(n, args, l) => UNCHANGED commitVars
        BY ONLY <4>1 DEF FollowerCommit
      <4> QED
        BY <2>1, <4>2
    <3>2. CASE ~(args.leaderCommit <= commitIndex[n])
      BY <2>1, <3>2
    <3> QED
      BY <3>1, <3>2
  <2> QED
    BY <2>4, <2>5, <2>6
<1> QED
  BY <1>4, <1>5

\* A step of a call keeps the types: the handlers, their replies, and what the
\* node does with the replies.
LEMMA CallStepTypeOK ==
    ASSUME TypeOK, NEW c \in DOMAIN task, CallStep(c)
    PROVE  TypeOK'
<1> USE DEF TypeOK
<1> DEFINE n == c[1]
           p == c[2]
<1>1. c \in Server \X Server \X Slot /\ n \in Server /\ p \in Server /\ task[c] \in Task
  BY DEF ProcessTypeOK
<1>2. /\ currentTerm[n] \in Nat /\ commitIndex[n] \in Nat /\ log[n] \in Seq(Entry) /\ Len(log[n]) \in Nat
      /\ currentTerm[p] \in Nat /\ log[p] \in Seq(Entry)
  BY <1>1 DEF PersistentTypeOK, IndexTypeOK
<1> HIDE DEF n, p
<1>3. ASSUME NEW t \in Task, task' = [task EXCEPT ![c] = t], late' \subseteq [to : Server, args : Request],
             UNCHANGED <<main, crashes>>
      PROVE  ProcessTypeOK'
  BY <1>3 DEF ProcessTypeOK
<1>4. late \subseteq [to : Server, args : Request] /\ Idle \in Task
  BY DEF ProcessTypeOK, Task
<1>5. ASSUME UNCHANGED <<currentTerm, votedFor, log, disk>> PROVE PersistentTypeOK'
  BY <1>5 DEF PersistentTypeOK
<1>6. ASSUME UNCHANGED <<state, leaderId, votesReceived, currentElectionTerm>> PROVE RoleTypeOK'
  BY <1>6 DEF RoleTypeOK
<1>7. ASSUME UNCHANGED <<leaderVars, commitIndex, lastApplied, applied>> PROVE IndexTypeOK'
  BY <1>7 DEF IndexTypeOK
<1>8. ASSUME UNCHANGED <<votes, leaders, decided, lapses>> PROVE HistoryTypeOK'
  BY <1>8 DEF HistoryTypeOK
<1>9. ASSUME NEW t \in Nat, StepDown(n, t)
      PROVE  PersistentTypeOK' /\ RoleTypeOK'
  <2>1. currentTerm' \in [Server -> Nat] /\ votedFor' \in [Server -> Server \cup {Nil}] /\ log' \in [Server -> Seq(Entry)]
    BY <1>1, <1>9 DEF StepDown, PersistentTypeOK
  <2>2. PersistentTypeOK'
    BY <1>1, <1>9, <2>1, PersistStateType DEF StepDown
  <2>3. RoleTypeOK'
    BY <1>1, <1>9 DEF StepDown, RoleTypeOK
  <2> QED
    BY <2>2, <2>3
<1>10. CASE CreateAppendEntries(c)
  <2>1. CreateAppendEntriesArgs(n, p) \in Task
    BY <1>1, CreateAppendEntriesArgsType DEF Task, Request
  <2>2. ProcessTypeOK'
    BY <1>3, <1>4, <1>10, <2>1 DEF CreateAppendEntries, n, p
  <2> QED
    BY <1>5, <1>6, <1>7, <1>8, <1>10, <2>2 DEF CreateAppendEntries
<1>11. CASE DeliverRequestVote(c)
  <2>1. task[c] \in RequestVoteArgs /\ RequestVoteStep(p, task[c])
    BY <1>11 DEF DeliverRequestVote, p
  <2>2. PersistentTypeOK' /\ RoleTypeOK' /\ IndexTypeOK' /\ HistoryTypeOK'
    BY <1>1, <2>1, RequestVoteTypeOK
  <2>3. RequestVoteReplyTo(p, task[c]) \in Task
    <3>1. task[c].term \in Nat
      BY <2>1 DEF RequestVoteArgs
    <3>2. Max({currentTerm[p], task[c].term}) \in Nat
      BY <1>2, <3>1, MaxOfTwo
    <3>3. VoteGranted(p, task[c]) \in BOOLEAN
      BY DEF VoteGranted
    <3> QED
      BY <3>2, <3>3 DEF RequestVoteReplyTo, Task, Reply, RequestVoteReply
  <2>4. ProcessTypeOK'
    BY <1>3, <1>4, <1>11, <2>3 DEF DeliverRequestVote, Answer, RequestVoteStep, p
  <2> QED
    BY <2>2, <2>4
<1>12. CASE DeliverAppendEntries(c)
  <2>1. task[c] \in AppendEntriesArgs /\ AppendEntriesStep(p, task[c])
    BY <1>12 DEF DeliverAppendEntries, p
  <2>2. PersistentTypeOK' /\ RoleTypeOK' /\ IndexTypeOK' /\ HistoryTypeOK'
    BY <1>1, <2>1, AppendEntriesTypeOK
  <2>3. AppendEntriesReplyTo(p, task[c]) \in AppendEntriesReply
    <3>1. task[c].term \in Nat /\ task[c].prevLogIndex \in Nat
      BY <2>1 DEF AppendEntriesArgs
    <3>2. ConsistencyReply(log[p], task[c].term, task[c]) \in AppendEntriesReply
      BY <1>2, <3>1, TermsOfLog, ConsistencyReplyIsReply DEF AppendEntriesReply
    <3>3. AppendReply(currentTerm[p], FALSE, -1, -1) \in AppendEntriesReply
      BY <1>2 DEF AppendReply, AppendEntriesReply
    <3> QED
      BY <3>2, <3>3 DEF AppendEntriesReplyTo
  <2>4. ProcessTypeOK'
    BY <1>3, <1>4, <1>12, <2>3 DEF DeliverAppendEntries, Answer, AppendEntriesStep, Task, Reply, p
  <2> QED
    BY <2>2, <2>4
<1>13. CASE HandleVoteResponse(c)
  <2> DEFINE reply == task[c]
  <2>1. reply \in RequestVoteReply /\ reply.term \in Nat
    BY <1>13 DEF HandleVoteResponse, RequestVoteReply
  <2>2. ProcessTypeOK'
    BY <1>3, <1>4, <1>13 DEF HandleVoteResponse
  <2>3. UNCHANGED <<commitVars, votes>>
    BY <1>13 DEF HandleVoteResponse
  <2>4. CASE UNCHANGED <<raftVars, log, disk, leaderVars, leaders>>
    BY <1>5, <1>6, <1>7, <1>8, <2>2, <2>3, <2>4
  <2>5. CASE StepDown(n, reply.term) /\ UNCHANGED <<leaderVars, leaders>>
    BY <1>7, <1>8, <1>9, <2>1, <2>2, <2>3, <2>5
  <2>6. CASE CountVote(n, p) /\ UNCHANGED <<log, disk>>
    <3>1. PersistentTypeOK'
      BY <1>5, <2>6 DEF CountVote, BecomeLeader
    <3>2. RoleTypeOK'
      BY <1>1, <2>6 DEF CountVote, BecomeLeader, RoleTypeOK
    <3>3. IndexTypeOK'
      <4>1. CASE UNCHANGED leaderVars
        BY <1>7, <2>3, <4>1
      <4>2. CASE BecomeLeader(n)
        <5>1. /\ [q \in Server |-> Len(log[n]) + 1] \in [Server -> Nat \ {0}]
              /\ [q \in Server |-> 0] \in [Server -> Nat]
          BY <1>2
        <5>2. nextIndex' \in [Server -> [Server -> Nat \ {0}]] /\ matchIndex' \in [Server -> [Server -> Nat]]
          BY <4>2, <5>1 DEF BecomeLeader, IndexTypeOK
        <5> QED
          BY <2>3, <5>2 DEF IndexTypeOK
      <4> QED
        BY <2>6, <4>1, <4>2 DEF CountVote
    <3>4. HistoryTypeOK'
      <4>1. [term |-> currentTerm[n], leader |-> n] \in Leader
        BY <1>1, <1>2 DEF Leader
      <4> QED
        BY <2>3, <2>6, <4>1 DEF CountVote, BecomeLeader, HistoryTypeOK
    <3> QED
      BY <2>2, <3>1, <3>2, <3>3, <3>4
  <2> QED
    BY <1>13, <2>4, <2>5, <2>6 DEF HandleVoteResponse, n, p
<1>14. CASE HandleAppendEntriesResponse(c)
  <2> DEFINE reply == task[c]
  <2>1. reply \in AppendEntriesReply /\ reply.term \in Nat /\ reply.conflictIndex \in Nat \cup {-1}
    BY <1>14 DEF HandleAppendEntriesResponse, AppendEntriesReply
  <2>2. ProcessTypeOK'
    BY <1>3, <1>4, <1>14 DEF HandleAppendEntriesResponse
  <2>3. UNCHANGED <<votes, leaders>>
    BY <1>14 DEF HandleAppendEntriesResponse
  <2>4. CASE UNCHANGED <<raftVars, log, disk, leaderVars, commitVars>>
    BY <1>5, <1>6, <1>7, <1>8, <2>2, <2>3, <2>4
  <2>5. CASE StepDown(n, reply.term) /\ UNCHANGED <<leaderVars, commitVars>>
    BY <1>7, <1>8, <1>9, <2>1, <2>2, <2>3, <2>5
  <2>6. CASE /\ nextIndex' = [nextIndex EXCEPT ![n][p] = BackedOffNextIndex(log[n], reply)]
             /\ UNCHANGED <<raftVars, log, disk, matchIndex, commitVars>>
    <3>1. BackedOffNextIndex(log[n], reply) \in Nat \ {0}
      BY <1>2, <2>1, BackedOffIsPositive
    <3>2. nextIndex' \in [Server -> [Server -> Nat \ {0}]]
      <4> DEFINE k == BackedOffNextIndex(log[n], reply)
      <4>1. k \in Nat \ {0} /\ nextIndex' = [nextIndex EXCEPT ![n][p] = k]
        BY <2>6, <3>1
      <4> HIDE DEF k
      <4> QED
        BY <1>1, <4>1 DEF IndexTypeOK
    <3>3. IndexTypeOK'
      <4>1. UNCHANGED <<matchIndex, commitIndex, lastApplied, applied>>
        BY <2>6
      <4> QED
        BY <3>2, <4>1 DEF IndexTypeOK
    <3> QED
      BY <1>5, <1>6, <1>8, <2>2, <2>3, <2>6, <3>3
  <2>7. ASSUME NEW match \in [Server -> Nat], NEW commit \in Nat,
               match = [matchIndex[n] EXCEPT ![p] = ExpectedMatchIndex(log[n])],
               matchIndex' = [matchIndex EXCEPT ![n] = match],
               nextIndex' = [nextIndex EXCEPT ![n][p] = match[p] + 1],
               commitIndex' = [commitIndex EXCEPT ![n] = commit],
               decided' = decided \cup CommittedEntries(log[n], commit),
               UNCHANGED <<raftVars, log, disk, lastApplied, applied, lapses>>
        PROVE  TypeOK'
    <3>1. IndexTypeOK'
      <4> DEFINE k == match[p] + 1
      <4>1. k \in Nat \ {0} /\ nextIndex' = [nextIndex EXCEPT ![n][p] = k]
        BY <1>1, <2>7
      <4> HIDE DEF k
      <4>2. nextIndex' \in [Server -> [Server -> Nat \ {0}]]
        BY <1>1, <4>1 DEF IndexTypeOK
      <4>3. matchIndex' \in [Server -> [Server -> Nat]] /\ commitIndex' \in [Server -> Nat]
        BY <2>7 DEF IndexTypeOK
      <4>4. UNCHANGED <<lastApplied, applied>>
        BY <2>7
      <4> QED
        BY <4>2, <4>3, <4>4 DEF IndexTypeOK
    <3>2. CommittedEntries(log[n], commit) \subseteq Committed
      BY <1>2, CommittedEntriesType
    <3>3. HistoryTypeOK'
      BY <2>3, <2>7, <3>2 DEF HistoryTypeOK
    <3> QED
      BY <1>5, <1>6, <2>2, <2>7, <3>1, <3>3
  <2>8. /\ [matchIndex[n] EXCEPT ![p] = ExpectedMatchIndex(log[n])] \in [Server -> Nat]
        /\ \A match \in [Server -> Nat] : UpdateCommitIndex(n, match) \in Nat
    <3>1. [matchIndex[n] EXCEPT ![p] = ExpectedMatchIndex(log[n])] \in [Server -> Nat]
      BY <1>1, <1>2 DEF IndexTypeOK, ExpectedMatchIndex
    <3>2. ASSUME NEW match \in [Server -> Nat] PROVE UpdateCommitIndex(n, match) \in Nat
      <4> DEFINE S == {commitIndex[n]} \cup {i \in commitIndex[n]+1..Len(log[n]) :
                          log[n][i].term = currentTerm[n] /\ Replicated(match, n, i)}
      <4>1. S \in SUBSET Nat /\ S # {} /\ \A x \in S : x <= commitIndex[n] + Len(log[n])
        BY <1>2
      <4>2. Max(S) \in S
        BY <1>2, <4>1, MaxOfNaturals, commitIndex[n] + Len(log[n]) \in Nat
      <4> QED
        BY <4>1, <4>2 DEF UpdateCommitIndex
    <3> QED
      BY <3>1, <3>2
  <2> QED
    BY <1>14, <2>4, <2>5, <2>6, <2>7, <2>8 DEF HandleAppendEntriesResponse, n, p
<1>15. CASE LoseCall(c)
  BY <1>3, <1>4, <1>5, <1>6, <1>7, <1>8, <1>15 DEF LoseCall
<1>16. CASE TimeoutCall(c)
  <2>1. [to |-> p, args |-> task[c]] \in [to : Server, args : Request]
    BY <1>1, <1>16 DEF TimeoutCall
  <2>2. ProcessTypeOK'
    BY <1>3, <1>4, <1>16, <2>1 DEF TimeoutCall, p
  <2> QED
    BY <1>5, <1>6, <1>7, <1>8, <1>16, <2>2 DEF TimeoutCall
<1> QED
  BY <1>10, <1>11, <1>12, <1>13, <1>14, <1>15, <1>16 DEF CallStep

\* A request that arrives after its caller has given up keeps the types.
LEMMA DeliverLateTypeOK ==
    ASSUME TypeOK, NEW m \in late, DeliverLate(m)
    PROVE  TypeOK'
<1> USE DEF TypeOK
<1>1. m.to \in Server
  BY DEF ProcessTypeOK
<1>2. PersistentTypeOK' /\ RoleTypeOK' /\ IndexTypeOK' /\ HistoryTypeOK'
  BY <1>1, RequestVoteTypeOK, AppendEntriesTypeOK DEF DeliverLate
<1>3. late' \subseteq late /\ UNCHANGED <<task, main, crashes>>
  BY DEF DeliverLate, Discard, RequestVoteStep, AppendEntriesStep
<1>4. ProcessTypeOK'
  BY <1>3 DEF ProcessTypeOK
<1> QED
  BY <1>2, <1>4

\* Appending a client command, the persistence thread and a restart keep the
\* types.
LEMMA LocalStepTypeOK ==
    ASSUME TypeOK, NEW n \in Server,
           \/ \E cmd \in Command : AppendLogEntry(n, cmd)
           \/ PersistThread(n)
           \/ Restart(n)
    PROVE  TypeOK'
<1> USE DEF TypeOK
<1>1. CASE \E cmd \in Command : AppendLogEntry(n, cmd)
  <2> PICK cmd \in Command : AppendLogEntry(n, cmd)
    BY <1>1
  <2>1. [term |-> currentTerm[n], command |-> cmd] \in Entry
    BY DEF PersistentTypeOK, Entry
  <2>2. log' \in [Server -> Seq(Entry)]
    <3>1. log[n] \in Seq(Entry)
      BY DEF PersistentTypeOK
    <3>2. Append(log[n], [term |-> currentTerm[n], command |-> cmd]) \in Seq(Entry)
      BY <2>1, <3>1, AppendProperties
    <3> QED
      BY <3>2 DEF AppendLogEntry, PersistentTypeOK
  <2>3. PersistentTypeOK'
    BY <2>2 DEF AppendLogEntry, PersistentTypeOK
  <2>4. HistoryTypeOK'
    BY DEF AppendLogEntry, Lapse, HistoryTypeOK
  <2> QED
    BY <2>3, <2>4 DEF AppendLogEntry, RoleTypeOK, IndexTypeOK, ProcessTypeOK
<1>2. CASE PersistThread(n)
  <2>1. currentTerm' \in [Server -> Nat] /\ votedFor' \in [Server -> Server \cup {Nil}] /\ log' \in [Server -> Seq(Entry)]
    BY <1>2 DEF PersistThread, PersistentTypeOK
  <2>2. PersistentTypeOK'
    BY <1>2, <2>1, PersistStateType DEF PersistThread
  <2> QED
    BY <1>2, <2>2 DEF PersistThread, RoleTypeOK, IndexTypeOK, ProcessTypeOK, HistoryTypeOK
<1>3. CASE Restart(n)
  <2>1. PersistentTypeOK'
    <3>1. disk[n].term \in Nat /\ disk[n].votedFor \in Server \cup {Nil} /\ disk[n].log \in Seq(Entry)
      BY DEF PersistentTypeOK, Disk
    <3> QED
      BY <1>3, <3>1 DEF Restart, PersistentTypeOK
  <2>2. RoleTypeOK'
    BY <1>3 DEF Restart, RoleTypeOK
  <2>3. IndexTypeOK'
    <3>1. /\ [q \in Server |-> 1] \in [Server -> Nat \ {0}]
          /\ [q \in Server |-> 0] \in [Server -> Nat]
          /\ <<>> \in Seq(Entry)
      OBVIOUS
    <3>2. nextIndex' \in [Server -> [Server -> Nat \ {0}]] /\ matchIndex' \in [Server -> [Server -> Nat]]
      BY <1>3, <3>1 DEF Restart, IndexTypeOK
    <3>3. commitIndex' \in [Server -> Nat] /\ lastApplied' \in [Server -> Nat] /\ applied' \in [Server -> Seq(Entry)]
      BY <1>3, <3>1 DEF Restart, IndexTypeOK
    <3> QED
      BY <3>2, <3>3 DEF IndexTypeOK
  <2>4. ProcessTypeOK'
    <3>1. task' \in [Server \X Server \X Slot -> Task]
      BY <1>3 DEF Restart, ProcessTypeOK, Task
    <3>2. main' \in [Server -> [pc : MainPC, term : Nat, lastLogIndex : Nat]]
      BY <1>3, AtLoop \in [pc : MainPC, term : Nat, lastLogIndex : Nat] DEF Restart, ProcessTypeOK, AtLoop, MainPC
    <3> QED
      BY <1>3, <3>1, <3>2 DEF Restart, ProcessTypeOK
  <2>5. HistoryTypeOK'
    BY <1>3 DEF Restart, Lapse, HistoryTypeOK
  <2> QED
    BY <2>1, <2>2, <2>3, <2>4, <2>5
<1> QED
  BY <1>1, <1>2, <1>3

\* Type correctness: whatever the cluster does, every member of every node, every
\* message and the file on every disk are of the declared types; in particular
\* nextIndex_ stays positive, so createAppendEntriesArgs never reads before the
\* log.
THEOREM TypeCorrect == Spec => []TypeOK
<1>1. TypeOK /\ [Next]_vars => TypeOK'
  <2> SUFFICES ASSUME TypeOK, [Next]_vars PROVE TypeOK'
    OBVIOUS
  <2>1. CASE Next
    BY <2>1, MainStepTypeOK, CallStepTypeOK, DeliverLateTypeOK, LocalStepTypeOK DEF Next
  <2>2. CASE UNCHANGED vars
    BY <2>2 DEF TypeOK, PersistentTypeOK, RoleTypeOK, IndexTypeOK, ProcessTypeOK, HistoryTypeOK
  <2> QED
    BY <2>1, <2>2
<1> QED
  BY <1>1, InitTypeOK, PTL DEF Spec
-----------------------------------------------------------------------------
(* Elections *)

HistoryInv == TermsReached /\ VotesRemembered /\ SecondVoteAfterElection /\ LeadersKeepMajority

\* Two majorities of the cluster share a node.
LEMMA MajoritiesMeet ==
    ASSUME NEW P \in SUBSET Server, NEW Q \in SUBSET Server,
           Cardinality(P) >= Majority, Cardinality(Q) >= Majority
    PROVE  \E v \in P : v \in Q
<1>1. IsFiniteSet(P) /\ IsFiniteSet(Q) /\ Cardinality(Server) \in Nat
  BY ServersFinite, FS_Subset, FS_CardinalityType
<1>2. Cardinality(P) \in Nat /\ Cardinality(Q) \in Nat
  BY <1>1, FS_CardinalityType
<1>3. Cardinality(P) + Cardinality(Q) > Cardinality(Server)
  BY <1>1, <1>2 DEF Majority
<1>4. P \cap Q # {}
  BY <1>3, ServersFinite, FS_MajoritiesIntersect
<1> QED
  BY <1>4

\* A set that contains a majority is one.
LEMMA MajorityGrows ==
    ASSUME NEW P \in SUBSET Server, NEW Q \in SUBSET Server, P \subseteq Q, Cardinality(P) >= Majority
    PROVE  Cardinality(Q) >= Majority
<1>1. IsFiniteSet(Q) /\ IsFiniteSet(P) /\ Cardinality(Server) \in Nat
  BY ServersFinite, FS_Subset, FS_CardinalityType
<1>2. Cardinality(P) \in Nat /\ Cardinality(Q) \in Nat /\ Cardinality(P) <= Cardinality(Q)
  BY <1>1, FS_Subset, FS_CardinalityType
<1> QED
  BY <1>1, <1>2 DEF Majority

\* ElectionSafety follows from the majorities that leaders keep.
LEMMA OneLeader ==
    ASSUME LeadersKeepMajority, HistoryTypeOK
    PROVE  ElectionSafety
<1> SUFFICES ASSUME NEW k \in leaders, NEW l \in leaders, k.term = l.term
             PROVE  k.leader = l.leader
  BY DEF ElectionSafety
<1>1. PICK v \in LoyalVoters(k.leader, k.term) : v \in LoyalVoters(l.leader, l.term)
  <2>1. /\ LoyalVoters(k.leader, k.term) \in SUBSET Server
        /\ LoyalVoters(l.leader, l.term) \in SUBSET Server
    BY DEF LoyalVoters
  <2>2. /\ Cardinality(LoyalVoters(k.leader, k.term)) >= Majority
        /\ Cardinality(LoyalVoters(l.leader, l.term)) >= Majority
    BY DEF LeadersKeepMajority
  <2> QED
    BY <2>1, <2>2, MajoritiesMeet
<1> QED
  BY <1>1 DEF LoyalVoters, Voted

\* A vote given by a node that is free to give it keeps the history in order.
LEMMA CastVote ==
    ASSUME HistoryInv, TypeOK, NEW v \in Server, NEW t \in Nat, NEW c \in Server,
           t >= currentTerm[v],
           t = currentTerm[v] => votedFor[v] \in {Nil, c},
           currentTerm' = [currentTerm EXCEPT ![v] = t],
           votedFor' = [votedFor EXCEPT ![v] = c],
           votes' = votes \cup {[term |-> t, voter |-> v, candidate |-> c]},
           leaders' = leaders
    PROVE  HistoryInv'
<1> DEFINE new == [term |-> t, voter |-> v, candidate |-> c]
<1>1. /\ currentTerm \in [Server -> Nat] /\ votedFor \in [Server -> Server \cup {Nil}]
      /\ \A u \in votes : u.term \in Nat /\ u.voter \in Server /\ u.candidate \in Server
      /\ \A l \in leaders : l.term \in Nat /\ l.leader \in Server
  BY DEF TypeOK, PersistentTypeOK, HistoryTypeOK, Vote, Leader
<1>2. new.term = t /\ new.voter = v /\ new.candidate = c
  OBVIOUS
<1>3. votes' = votes \cup {new}
  OBVIOUS
<1> HIDE DEF new
<1>4. Nil \notin Server
  BY IdsDistinct
<1>5. \A u \in votes : u.term <= currentTerm[u.voter]
  BY DEF HistoryInv, TermsReached
<1>6. ElectionSafety
  BY OneLeader DEF HistoryInv, TypeOK
<1>7. \A u \in votes : u.voter = v /\ u.term = t =>
          \/ u.candidate = c
          \/ u.candidate = v /\ LostTo(v, t)
  <2> SUFFICES ASSUME NEW u \in votes, u.voter = v, u.term = t
               PROVE  \/ u.candidate = c
                      \/ u.candidate = v /\ LostTo(v, t)
    OBVIOUS
  <2>1. t = currentTerm[v]
    BY <1>1, <1>5
  <2>2. votedFor[v] = u.candidate \/ (u.candidate = v /\ LostTo(v, t))
    BY <2>1 DEF HistoryInv, VotesRemembered
  <2> QED
    BY <1>1, <1>4, <2>1, <2>2
<1>8. TermsReached'
  <2>1. \A n \in Server : currentTerm'[n] \in Nat /\ currentTerm[n] <= currentTerm'[n]
    BY <1>1
  <2>2. \A u \in votes' : u.term <= currentTerm'[u.voter]
    <3>1. \A u \in votes : u.term <= currentTerm'[u.voter]
      BY <1>1, <1>5, <2>1
    <3>2. new.term <= currentTerm'[new.voter]
      BY <1>1, <1>2
    <3> QED
      BY <1>3, <3>1, <3>2
  <2>3. \A l \in leaders' : l.term <= currentTerm'[l.leader]
    BY <1>1, <2>1 DEF HistoryInv, TermsReached
  <2> QED
    BY <2>2, <2>3 DEF TermsReached
<1>9. VotesRemembered'
  <2> SUFFICES ASSUME NEW u \in votes', u.term = currentTerm'[u.voter]
               PROVE  \/ votedFor'[u.voter] = u.candidate
                      \/ u.candidate = u.voter /\ LostTo(u.voter, u.term)
    BY DEF VotesRemembered, LostTo
  <2>1. CASE u = new
    BY <1>1, <1>2, <2>1
  <2>2. CASE u \in votes /\ u.voter = v
    BY <1>1, <1>7, <2>2
  <2>3. CASE u \in votes /\ u.voter # v
    BY <1>1, <2>3 DEF HistoryInv, VotesRemembered
  <2> QED
    BY <1>3, <2>1, <2>2, <2>3
<1>10. SecondVoteAfterElection'
  <2>1. ASSUME NEW u \in votes, u.term = t, u.voter = v, u.candidate # c
        PROVE  u.candidate = v /\ \E l \in leaders : l.term = t /\ l.leader # v
    BY <1>7, <2>1 DEF LostTo
  <2> SUFFICES ASSUME NEW u \in votes', NEW w \in votes',
                      u.term = w.term, u.voter = w.voter, u.candidate # w.candidate
               PROVE  /\ u.voter \in {u.candidate, w.candidate}
                      /\ \E l \in leaders' : l.term = u.term /\ l.leader # u.voter
    BY DEF SecondVoteAfterElection
  <2>2. CASE u \in votes /\ w \in votes
    BY <2>2 DEF HistoryInv, SecondVoteAfterElection
  <2>3. CASE u \in votes /\ w = new
    BY <1>2, <2>1, <2>3
  <2>4. CASE u = new /\ w \in votes
    BY <1>2, <2>1, <2>4
  <2>5. CASE u = new /\ w = new
    BY <2>5
  <2> QED
    BY <1>3, <2>2, <2>3, <2>4, <2>5
<1>11. LeadersKeepMajority'
  <2> SUFFICES ASSUME NEW l \in leaders
               PROVE  Cardinality(LoyalVoters(l.leader, l.term)') >= Majority
    BY DEF LeadersKeepMajority
  <2>1. LoyalVoters(l.leader, l.term) \subseteq LoyalVoters(l.leader, l.term)'
    <3> SUFFICES ASSUME NEW x \in LoyalVoters(l.leader, l.term)
                 PROVE  x \in LoyalVoters(l.leader, l.term)'
      OBVIOUS
    <3>1. /\ x \in Server
          /\ \E u \in votes : u.term = l.term /\ u.voter = x /\ u.candidate = l.leader
          /\ \A u \in votes : u.term = l.term /\ u.voter = x => u.candidate = l.leader
      BY DEF LoyalVoters, Voted
    <3>2. x = v /\ l.term = t => l.leader = c
      <4> SUFFICES ASSUME x = v, l.term = t, l.leader # c PROVE FALSE
        OBVIOUS
      <4>1. l.leader = v /\ LostTo(v, t)
        BY <1>7, <3>1
      <4> QED
        BY <1>6, <4>1 DEF LostTo, ElectionSafety
    <3>3. \A u \in votes' : u.term = l.term /\ u.voter = x => u.candidate = l.leader
      BY <1>2, <1>3, <3>1, <3>2
    <3>4. \E u \in votes' : u.term = l.term /\ u.voter = x /\ u.candidate = l.leader
      BY <1>3, <3>1
    <3> QED
      BY <3>1, <3>3, <3>4 DEF LoyalVoters, Voted
  <2>2. LoyalVoters(l.leader, l.term) \in SUBSET Server /\ LoyalVoters(l.leader, l.term)' \in SUBSET Server
    BY DEF LoyalVoters
  <2>3. Cardinality(LoyalVoters(l.leader, l.term)) >= Majority
    BY DEF HistoryInv, LeadersKeepMajority
  <2> QED
    BY <2>1, <2>2, <2>3, MajorityGrows
<1> QED
  BY <1>8, <1>9, <1>10, <1>11 DEF HistoryInv

\* A node that moves to a newer term, or gives up the vote for itself in a term
\* that another node has won, keeps the history in order.
LEMMA KeepHistory ==
    ASSUME HistoryInv, TypeOK, currentTerm' \in [Server -> Nat], UNCHANGED <<votes, leaders>>,
           \A n \in Server : currentTerm[n] <= currentTerm'[n],
           \A n \in Server : currentTerm'[n] = currentTerm[n] =>
               votedFor'[n] = votedFor[n] \/ (votedFor[n] = n /\ LostTo(n, currentTerm[n]))
    PROVE  HistoryInv'
<1>1. /\ currentTerm \in [Server -> Nat]
      /\ \A u \in votes : u.term \in Nat /\ u.voter \in Server
      /\ \A l \in leaders : l.term \in Nat /\ l.leader \in Server
  BY DEF TypeOK, PersistentTypeOK, HistoryTypeOK, Vote, Leader
<1>2. TermsReached'
  BY <1>1 DEF HistoryInv, TermsReached
<1>3. VotesRemembered'
  <2> SUFFICES ASSUME NEW u \in votes, u.term = currentTerm'[u.voter]
               PROVE  \/ votedFor'[u.voter] = u.candidate
                      \/ u.candidate = u.voter /\ LostTo(u.voter, u.term)
    BY DEF VotesRemembered, LostTo
  <2>1. u.term = currentTerm[u.voter] /\ u.voter \in Server
    BY <1>1 DEF HistoryInv, TermsReached
  <2>2. \/ votedFor[u.voter] = u.candidate
        \/ u.candidate = u.voter /\ LostTo(u.voter, u.term)
    BY <2>1 DEF HistoryInv, VotesRemembered
  <2> QED
    BY <2>1, <2>2
<1>4. SecondVoteAfterElection' /\ LeadersKeepMajority'
  BY DEF HistoryInv, SecondVoteAfterElection, LeadersKeepMajority, LoyalVoters, Voted
<1> QED
  BY <1>2, <1>3, <1>4 DEF HistoryInv

\* A candidate that a majority has voted for wins a term nobody has won.
LEMMA Elect ==
    ASSUME HistoryInv, TypeOK, NEW n \in Server, NEW Q \in SUBSET Server,
           Cardinality(Q) >= Majority,
           \A v \in Q : Voted(v, currentTerm[n], n),
           ~Won(n, currentTerm[n]),
           leaders' = leaders \cup {[term |-> currentTerm[n], leader |-> n]},
           UNCHANGED <<currentTerm, votedFor, votes>>
    PROVE  HistoryInv'
<1> DEFINE t == currentTerm[n]
           new == [term |-> t, leader |-> n]
<1>1. new.term = t /\ new.leader = n /\ leaders' = leaders \cup {new}
  OBVIOUS
<1>2. currentTerm[n] \in Nat
  BY DEF TypeOK, PersistentTypeOK
<1> HIDE DEF new
<1>3. ASSUME NEW l \in leaders PROVE l.term # t
  <2> SUFFICES ASSUME l.term = t PROVE FALSE
    OBVIOUS
  <2>1. LoyalVoters(l.leader, l.term) \in SUBSET Server
    BY DEF LoyalVoters
  <2>2. Cardinality(LoyalVoters(l.leader, l.term)) >= Majority
    BY DEF HistoryInv, LeadersKeepMajority
  <2>3. PICK v \in Q : v \in LoyalVoters(l.leader, l.term)
    BY <2>1, <2>2, MajoritiesMeet
  <2>4. l.leader = n
    BY <2>3 DEF LoyalVoters, Voted
  <2> QED
    BY <2>4 DEF Won
<1>4. TermsReached'
  BY <1>1, <1>2 DEF HistoryInv, TermsReached
<1>5. VotesRemembered'
  BY <1>1 DEF HistoryInv, VotesRemembered, LostTo
<1>6. SecondVoteAfterElection'
  BY <1>1 DEF HistoryInv, SecondVoteAfterElection
<1>7. Q \subseteq LoyalVoters(n, t)
  <2> SUFFICES ASSUME NEW v \in Q, NEW u \in votes, u.term = t, u.voter = v PROVE u.candidate = n
    BY DEF LoyalVoters
  <2>1. PICK w \in votes : w.term = t /\ w.voter = v /\ w.candidate = n
    BY DEF Voted
  <2>2. u.candidate # w.candidate => \E l \in leaders : l.term = t
    BY <2>1 DEF HistoryInv, SecondVoteAfterElection
  <2> QED
    BY <1>3, <2>1, <2>2
<1>8. LeadersKeepMajority'
  <2>1. \A m, s : LoyalVoters(m, s)' = LoyalVoters(m, s)
    BY DEF LoyalVoters, Voted
  <2>2. Cardinality(LoyalVoters(n, t)) >= Majority
    <3>1. LoyalVoters(n, t) \in SUBSET Server
      BY DEF LoyalVoters
    <3> QED
      BY <1>7, <3>1, MajorityGrows
  <2>3. \A l \in leaders' : Cardinality(LoyalVoters(l.leader, l.term)) >= Majority
    BY <1>1, <2>2 DEF HistoryInv, LeadersKeepMajority
  <2>4. \A l \in leaders' : Cardinality(LoyalVoters(l.leader, l.term)') >= Majority
    BY <2>1, <2>3
  <2> QED
    BY <2>4 DEF LeadersKeepMajority
<1> QED
  BY <1>4, <1>5, <1>6, <1>8 DEF HistoryInv
-----------------------------------------------------------------------------
(* The invariant, node by node *)

NodeInv(n) ==
    /\ RoleBacked(n)
    /\ disk[n].term = currentTerm[n] /\ disk[n].votedFor = votedFor[n]
    /\ leaderId[n] \in Server => Won(leaderId[n], currentTerm[n])
NodesInv == \A n \in Server : NodeInv(n)

\* NodeInv for all nodes says what three conjuncts of ElectionInv say.
LEMMA NodeInvs ==
    ASSUME HistoryTypeOK
    PROVE  (\A n \in Server : NodeInv(n)) <=> RolesBacked /\ TermAndVoteDurable /\ LeaderHintIsElected
<1>1. ASSUME NEW n, NEW t
      PROVE  Won(n, t) <=> [term |-> t, leader |-> n] \in leaders
  <2>1. ASSUME NEW l \in leaders, l.term = t, l.leader = n PROVE l = [term |-> t, leader |-> n]
    BY <2>1 DEF HistoryTypeOK, Leader
  <2> QED
    BY <2>1 DEF Won
<1> QED
  BY <1>1 DEF NodeInv, RolesBacked, TermAndVoteDurable, LeaderHintIsElected

\* A step of another node leaves NodeInv alone.
LEMMA OthersKept ==
    ASSUME NEW m \in Server, NodeInv(m), votes \subseteq votes', leaders \subseteq leaders',
           Won(m, currentTerm[m])' => Won(m, currentTerm[m]),
           currentTerm'[m] = currentTerm[m], votedFor'[m] = votedFor[m], state'[m] = state[m],
           leaderId'[m] = leaderId[m], votesReceived'[m] = votesReceived[m],
           currentElectionTerm'[m] = currentElectionTerm[m],
           disk'[m].term = disk[m].term, disk'[m].votedFor = disk[m].votedFor
    PROVE  NodeInv(m)'
<1>1. \A n, t : Won(n, t) => Won(n, t)'
  BY DEF Won
<1>2. \A v, t, n : Voted(v, t, n) => Voted(v, t, n)'
  BY DEF Voted
<1> QED
  BY <1>1, <1>2 DEF NodeInv, RoleBacked

\* The messages stay genuine when the histories grow and what is new is genuine.
LEMMA CallsKept ==
    ASSUME CallsGenuine, votes \subseteq votes', leaders \subseteq leaders',
           \A c \in DOMAIN task' : (c \in DOMAIN task /\ task'[c] = task[c]) \/ CallGenuine(c, task[c])',
           \A m \in late' : m \in late \/ (m.args.type = "AppendEntriesArgs" => GenuineAppend(m.args, m.to)')
    PROVE  CallsGenuine'
<1>1. \A n, t : Won(n, t) => Won(n, t)'
  BY DEF Won
<1>2. \A v, t, n : Voted(v, t, n) => Voted(v, t, n)'
  BY DEF Voted
<1>3. \A args, to : GenuineAppend(args, to) => GenuineAppend(args, to)'
  BY <1>1 DEF GenuineAppend
<1>4. \A c, t : CallGenuine(c, t) => CallGenuine(c, t)'
  BY <1>2, <1>3 DEF CallGenuine
<1>5. \A c \in DOMAIN task' : CallGenuine(c, task[c])'
  BY <1>4 DEF CallsGenuine
<1>6. \A m \in late' : m.args.type = "AppendEntriesArgs" => GenuineAppend(m.args, m.to)'
  BY <1>3 DEF CallsGenuine
<1> QED
  BY <1>5, <1>6 DEF CallsGenuine

\* A node that moves to a newer term as a follower that knows no leader.
LEMMA FollowerOfNewTerm ==
    ASSUME NEW n \in Server, TypeOK, state'[n] = "FOLLOWER", leaderId'[n] = Nil, PersistState(n)
    PROVE  NodeInv(n)'
<1>1. disk'[n].term = currentTerm'[n] /\ disk'[n].votedFor = votedFor'[n]
  BY DEF TypeOK, PersistentTypeOK, PersistState
<1> QED
  BY <1>1, IdsDistinct DEF NodeInv, RoleBacked

\* handleRequestVote keeps the invariant, and a granted vote is on record.
LEMMA RequestVoteElection ==
    ASSUME TypeOK, HistoryInv, \A n \in Server : NodeInv(n),
           NEW p \in Server, NEW args \in RequestVoteArgs, RequestVoteStep(p, args)
    PROVE  /\ HistoryInv' /\ \A n \in Server : NodeInv(n)'
           /\ votes \subseteq votes' /\ leaders' = leaders
           /\ VoteGranted(p, args) => Voted(p, args.term, args.candidateId)'
<1> DEFINE t == args.term
           c == args.candidateId
           new == [term |-> t, voter |-> p, candidate |-> c]
<1>1. t \in Nat /\ c \in Server /\ Nil \notin Server
  BY IdsDistinct DEF RequestVoteArgs
<1>2. /\ currentTerm \in [Server -> Nat] /\ votedFor \in [Server -> Server \cup {Nil}]
      /\ state \in [Server -> {"FOLLOWER", "CANDIDATE", "LEADER"}]
      /\ leaderId \in [Server -> Server \cup {Nil, DefaultId}] /\ votesReceived \in [Server -> SUBSET Server]
      /\ currentElectionTerm \in [Server -> Nat \cup {-1}] /\ disk \in [Server -> Disk]
  BY DEF TypeOK, PersistentTypeOK, RoleTypeOK
<1>3. leaders' = leaders /\ votes \subseteq votes'
  BY DEF RequestVoteStep, HandleRequestVote
<1>4. new \in votes' => Voted(p, t, c)'
  <2>1. new.term = t /\ new.voter = p /\ new.candidate = c
    OBVIOUS
  <2> HIDE DEF new, t, c
  <2> QED
    BY <2>1 DEF Voted
<1>5. ASSUME NEW m \in Server, m # p PROVE NodeInv(m)'
  <2>1. /\ currentTerm'[m] = currentTerm[m] /\ votedFor'[m] = votedFor[m] /\ state'[m] = state[m]
        /\ leaderId'[m] = leaderId[m] /\ votesReceived'[m] = votesReceived[m]
        /\ currentElectionTerm'[m] = currentElectionTerm[m] /\ disk'[m] = disk[m]
    BY <1>2, <1>5 DEF RequestVoteStep, HandleRequestVote, PersistState
  <2>2. Won(m, currentTerm[m])' => Won(m, currentTerm[m])
    BY <1>3, <2>1 DEF Won
  <2> QED
    BY <1>3, <2>1, <2>2, OthersKept
<1>6. CASE UNCHANGED <<raftVars, disk, votes>> /\ ~VoteGranted(p, args)
  <2>1. HistoryInv'
    BY <1>2, <1>3, <1>6, KeepHistory
  <2>2. NodeInv(p)'
    <3>1. Won(p, currentTerm[p])' => Won(p, currentTerm[p])
      BY <1>3, <1>6 DEF Won
    <3> QED
      BY <1>3, <1>6, <3>1, OthersKept
  <2> QED
    BY <1>3, <1>5, <1>6, <2>1, <2>2
<1>7. CASE /\ t = currentTerm[p] /\ VoteGranted(p, args)
           /\ votedFor' = [votedFor EXCEPT ![p] = c]
           /\ UNCHANGED <<currentTerm, state, leaderId, votesReceived, currentElectionTerm>>
           /\ votes' = votes \cup {new} /\ PersistState(p)
  <2>1. votedFor[p] \in {Nil, c}
    BY <1>1, <1>2, <1>7 DEF VoteGranted, CanVote
  <2>2. HistoryInv'
    <3>1. currentTerm' = [currentTerm EXCEPT ![p] = t] /\ t >= currentTerm[p]
      BY <1>1, <1>2, <1>7
    <3> QED
      BY <1>1, <1>3, <1>7, <2>1, <3>1, CastVote
  <2>3. NodeInv(p)'
    <3>1. disk'[p].term = currentTerm'[p] /\ disk'[p].votedFor = votedFor'[p]
      BY <1>2, <1>7 DEF PersistState
    <3>2. state[p] # "FOLLOWER" => votedFor'[p] = p
      BY <1>1, <1>2, <1>7, <2>1 DEF NodeInv, RoleBacked
    <3>3. \A n, s : Won(n, s)' <=> Won(n, s)
      BY <1>3 DEF Won
    <3>4. \A v, s, n : Voted(v, s, n) => Voted(v, s, n)'
      BY <1>3 DEF Voted
    <3>5. NodeInv(p)
      OBVIOUS
    <3> QED
      BY <1>7, <3>1, <3>2, <3>3, <3>4, <3>5 DEF NodeInv, RoleBacked
  <2>4. Voted(p, t, c)'
    BY <1>7, <1>4
  <2> QED
    BY <1>3, <1>5, <2>2, <2>3, <2>4
<1>8. CASE /\ t > currentTerm[p]
           /\ currentTerm' = [currentTerm EXCEPT ![p] = t]
           /\ state' = [state EXCEPT ![p] = "FOLLOWER"]
           /\ leaderId' = [leaderId EXCEPT ![p] = Nil]
           /\ PersistState(p)
           /\ \/ /\ VoteGranted(p, args)
                 /\ votedFor' = [votedFor EXCEPT ![p] = c]
                 /\ votes' = votes \cup {new}
              \/ /\ ~VoteGranted(p, args)
                 /\ votedFor' = [votedFor EXCEPT ![p] = Nil]
                 /\ UNCHANGED votes
  <2>1. NodeInv(p)'
    BY <1>2, <1>8, FollowerOfNewTerm
  <2>2. CASE VoteGranted(p, args)
    <3>1. HistoryInv'
      <4>1. t >= currentTerm[p] /\ t # currentTerm[p]
        BY <1>1, <1>2, <1>8
      <4> QED
        BY <1>1, <1>3, <1>8, <2>2, <4>1, CastVote
    <3>2. Voted(p, t, c)'
      BY <1>8, <1>4, <2>2
    <3> QED
      BY <1>3, <1>5, <2>1, <3>1, <3>2
  <2>3. CASE ~VoteGranted(p, args)
    <3>1. HistoryInv'
      <4>1. /\ currentTerm' \in [Server -> Nat]
            /\ \A n \in Server : currentTerm[n] <= currentTerm'[n]
            /\ \A n \in Server : currentTerm'[n] = currentTerm[n] => votedFor'[n] = votedFor[n]
        BY <1>1, <1>2, <1>8, <2>3
      <4> QED
        BY <1>3, <1>8, <2>3, <4>1, KeepHistory
    <3> QED
      BY <1>3, <1>5, <2>1, <2>3, <3>1
  <2> QED
    BY <2>2, <2>3
<1> QED
  BY <1>6, <1>7, <1>8 DEF RequestVoteStep, HandleRequestVote

\* handleAppendEntries keeps the invariant: only a candidate that has lost gives
\* up its vote.
LEMMA AppendEntriesElection ==
    ASSUME TypeOK, HistoryInv, \A n \in Server : NodeInv(n),
           NEW p \in Server, NEW args \in AppendEntriesArgs, GenuineAppend(args, p),
           AppendEntriesStep(p, args)
    PROVE  HistoryInv' /\ (\A n \in Server : NodeInv(n)') /\ UNCHANGED <<votes, leaders>>
<1>1. args.term \in Nat
  BY DEF AppendEntriesArgs
<1>2. /\ currentTerm \in [Server -> Nat] /\ votedFor \in [Server -> Server \cup {Nil}]
      /\ state \in [Server -> {"FOLLOWER", "CANDIDATE", "LEADER"}]
      /\ leaderId \in [Server -> Server \cup {Nil, DefaultId}] /\ votesReceived \in [Server -> SUBSET Server]
      /\ currentElectionTerm \in [Server -> Nat \cup {-1}] /\ disk \in [Server -> Disk]
  BY DEF TypeOK, PersistentTypeOK, RoleTypeOK
<1>3. UNCHANGED <<votes, leaders>>
  BY DEF AppendEntriesStep
<1>4. \A n, s : Won(n, s)' <=> Won(n, s)
  BY <1>3 DEF Won
<1>5. CASE UNCHANGED <<raftVars, disk>>
  <2>1. HistoryInv'
    BY <1>2, <1>3, <1>5, KeepHistory
  <2>2. ASSUME NEW m \in Server PROVE NodeInv(m)'
    BY <1>3, <1>4, <1>5, OthersKept
  <2> QED
    BY <1>3, <2>1, <2>2
<1>6. CASE args.term >= currentTerm[p] /\ AcceptLeader(p, args) /\ PersistState(p)
  <2>1. ASSUME NEW m \in Server, m # p PROVE NodeInv(m)'
    <3>1. /\ currentTerm'[m] = currentTerm[m] /\ votedFor'[m] = votedFor[m] /\ state'[m] = state[m]
          /\ leaderId'[m] = leaderId[m] /\ votesReceived'[m] = votesReceived[m]
          /\ currentElectionTerm'[m] = currentElectionTerm[m] /\ disk'[m] = disk[m]
      BY <1>2, <1>6, <2>1 DEF AcceptLeader, PersistState
    <3>2. Won(m, currentTerm[m])' => Won(m, currentTerm[m])
      BY <1>4, <3>1
    <3> QED
      BY <1>3, <3>1, <3>2, OthersKept
  <2>2. NodeInv(p)'
    <3>1. state'[p] = "FOLLOWER" /\ currentTerm'[p] = args.term /\ leaderId'[p] = args.leaderId
      BY <1>2, <1>6 DEF AcceptLeader
    <3>2. disk'[p].term = currentTerm'[p] /\ disk'[p].votedFor = votedFor'[p]
      BY <1>2, <1>6 DEF PersistState
    <3>3. args.leaderId \in Server => Won(args.leaderId, args.term)'
      BY <1>4 DEF GenuineAppend
    <3>4. leaderId'[p] \in Server => Won(leaderId[p], currentTerm[p])'
      BY <3>1, <3>3 DEF Won
    <3> QED
      BY <3>1, <3>2, <3>4 DEF NodeInv, RoleBacked
  <2>3. HistoryInv'
    <3>1. currentTerm' \in [Server -> Nat] /\ \A n \in Server : currentTerm[n] <= currentTerm'[n]
      BY <1>1, <1>2, <1>6 DEF AcceptLeader
    <3>2. ASSUME NEW n \in Server, currentTerm'[n] = currentTerm[n], votedFor'[n] # votedFor[n]
          PROVE  votedFor[n] = n /\ LostTo(n, currentTerm[n])
      <4>1. n = p /\ state[p] # "FOLLOWER" /\ args.term = currentTerm[p]
        BY <1>2, <1>6, <3>2 DEF AcceptLeader
      <4>2. votedFor[p] = p /\ currentTerm[p] > 0
        BY <4>1 DEF NodeInv, RoleBacked
      <4>3. args.leaderId # p /\ Won(args.leaderId, args.term)
        BY <1>1, <4>1, <4>2 DEF GenuineAppend
      <4> QED
        BY <4>1, <4>2, <4>3 DEF Won, LostTo
    <3> QED
      BY <1>3, <3>1, <3>2, KeepHistory
  <2> QED
    BY <1>3, <2>1, <2>2, <2>3
<1> QED
  BY <1>5, <1>6 DEF AppendEntriesStep, HandleAppendEntries

\* A step that leaves the election state of every node alone.
LEMMA UnrelatedStep ==
    ASSUME TypeOK, HistoryInv, \A n \in Server : NodeInv(n), UNCHANGED <<raftVars, votes, leaders>>,
           \A n \in Server : disk'[n].term = disk[n].term /\ disk'[n].votedFor = disk[n].votedFor
    PROVE  HistoryInv' /\ \A n \in Server : NodeInv(n)'
<1>1. HistoryInv'
  BY KeepHistory DEF TypeOK, PersistentTypeOK
<1>2. ASSUME NEW m \in Server PROVE NodeInv(m)'
  <2>1. Won(m, currentTerm[m])' => Won(m, currentTerm[m])
    BY DEF Won
  <2> QED
    BY <2>1, OthersKept
<1> QED
  BY <1>1, <1>2

\* A reply of a newer term ends candidacies and leaderships safely.
LEMMA StepDownElection ==
    ASSUME TypeOK, HistoryInv, \A n \in Server : NodeInv(n), UNCHANGED <<votes, leaders>>,
           NEW n \in Server, NEW t \in Nat, t > currentTerm[n], StepDown(n, t)
    PROVE  HistoryInv' /\ \A m \in Server : NodeInv(m)'
<1>1. /\ currentTerm \in [Server -> Nat] /\ votedFor \in [Server -> Server \cup {Nil}]
      /\ state \in [Server -> {"FOLLOWER", "CANDIDATE", "LEADER"}]
      /\ leaderId \in [Server -> Server \cup {Nil, DefaultId}] /\ votesReceived \in [Server -> SUBSET Server]
      /\ currentElectionTerm \in [Server -> Nat \cup {-1}] /\ disk \in [Server -> Disk]
  BY DEF TypeOK, PersistentTypeOK, RoleTypeOK
<1>2. HistoryInv'
  <2>1. /\ currentTerm' \in [Server -> Nat]
        /\ \A m \in Server : currentTerm[m] <= currentTerm'[m]
        /\ \A m \in Server : currentTerm'[m] = currentTerm[m] => votedFor'[m] = votedFor[m]
    BY <1>1 DEF StepDown
  <2> QED
    BY <2>1, KeepHistory
<1>3. NodeInv(n)'
  BY <1>1, FollowerOfNewTerm DEF StepDown
<1>4. ASSUME NEW m \in Server, m # n PROVE NodeInv(m)'
  <2>1. /\ currentTerm'[m] = currentTerm[m] /\ votedFor'[m] = votedFor[m] /\ state'[m] = state[m]
        /\ leaderId'[m] = leaderId[m] /\ votesReceived'[m] = votesReceived[m]
        /\ currentElectionTerm'[m] = currentElectionTerm[m] /\ disk'[m] = disk[m]
    BY <1>1, <1>4 DEF StepDown, PersistState
  <2>2. Won(m, currentTerm[m])' => Won(m, currentTerm[m])
    BY <2>1 DEF Won
  <2> QED
    BY <2>1, <2>2, OthersKept
<1> QED
  BY <1>2, <1>3, <1>4

\* A counted vote, and the election it may decide.
LEMMA CountVoteElection ==
    ASSUME TypeOK, HistoryInv, \A n \in Server : NodeInv(n), UNCHANGED <<disk, votes>>,
           NEW n \in Server, NEW p \in Server, state[n] = "CANDIDATE", Voted(p, currentTerm[n], n),
           CountVote(n, p)
    PROVE  HistoryInv' /\ (\A m \in Server : NodeInv(m)') /\ leaders \subseteq leaders'
<1> DEFINE received == votesReceived[n] \cup {p}
           new == [term |-> currentTerm[n], leader |-> n]
<1>1. /\ currentTerm \in [Server -> Nat] /\ votedFor \in [Server -> Server \cup {Nil}]
      /\ state \in [Server -> {"FOLLOWER", "CANDIDATE", "LEADER"}]
      /\ leaderId \in [Server -> Server \cup {Nil, DefaultId}] /\ votesReceived \in [Server -> SUBSET Server]
      /\ currentElectionTerm \in [Server -> Nat \cup {-1}] /\ disk \in [Server -> Disk]
  BY DEF TypeOK, PersistentTypeOK, RoleTypeOK
<1>2. received \in SUBSET Server /\ \A v \in received : Voted(v, currentTerm[n], n)
  BY <1>1 DEF NodeInv, RoleBacked
<1>3. UNCHANGED <<currentTerm, votedFor>>
  BY DEF CountVote, BecomeLeader
<1>4. \A v, t, m : Voted(v, t, m)' <=> Voted(v, t, m)
  BY DEF Voted
<1>5. ASSUME NEW m \in Server, m # n,
             leaders \subseteq leaders', \A l \in leaders' : l \in leaders \/ l.leader = n
      PROVE  NodeInv(m)'
  <2>1. /\ currentTerm'[m] = currentTerm[m] /\ votedFor'[m] = votedFor[m] /\ state'[m] = state[m]
        /\ leaderId'[m] = leaderId[m] /\ votesReceived'[m] = votesReceived[m]
        /\ currentElectionTerm'[m] = currentElectionTerm[m] /\ disk'[m] = disk[m]
    BY <1>1, <1>3, <1>5 DEF CountVote, BecomeLeader
  <2>2. Won(m, currentTerm[m])' => Won(m, currentTerm[m])
    BY <1>5, <2>1 DEF Won
  <2> QED
    BY <1>5, <2>1, <2>2, OthersKept
<1>6. CASE /\ votesReceived' = [votesReceived EXCEPT ![n] = received]
           /\ UNCHANGED <<currentTerm, votedFor, state, leaderId, currentElectionTerm, leaders>>
  <2>1. HistoryInv'
    BY <1>1, <1>6, KeepHistory
  <2>2. NodeInv(n)'
    <3>1. \A m, t : Won(m, t)' <=> Won(m, t)
      BY <1>6 DEF Won
    <3>2. votesReceived'[n] = received
      BY <1>1, <1>6
    <3>3. NodeInv(n)
      OBVIOUS
    <3> HIDE DEF received
    <3> QED
      BY <1>2, <1>4, <1>6, <3>1, <3>2, <3>3 DEF NodeInv, RoleBacked
  <2> QED
    BY <1>5, <1>6, <2>1, <2>2
<1>7. CASE Cardinality(received) >= Majority /\ BecomeLeader(n)
  <2>1. leaders' = leaders \cup {new}
    BY <1>7 DEF BecomeLeader
  <2>2. HistoryInv'
    <3>1. ~Won(n, currentTerm[n])
      BY DEF NodeInv, RoleBacked
    <3> HIDE DEF received
    <3> QED
      BY <1>2, <1>3, <1>7, <2>1, <3>1, Elect
  <2>3. new.term = currentTerm[n] /\ new.leader = n
    OBVIOUS
  <2> HIDE DEF new
  <2>4. Won(n, currentTerm[n])'
    BY <1>3, <2>1, <2>3 DEF Won
  <2>5. NodeInv(n)'
    <3>1. state'[n] = "LEADER" /\ leaderId'[n] = n
      BY <1>1, <1>7 DEF BecomeLeader
    <3>2. NodeInv(n)
      OBVIOUS
    <3>3. Won(leaderId[n], currentTerm[n])'
      BY <2>4, <3>1 DEF Won
    <3> QED
      BY <1>3, <2>4, <3>1, <3>2, <3>3 DEF NodeInv, RoleBacked
  <2> QED
    BY <1>5, <2>1, <2>2, <2>3, <2>5
<1> QED
  BY <1>6, <1>7 DEF CountVote

\* startElection: a new term, in which the node votes for itself first.
LEMMA StartElectionElection ==
    ASSUME TypeOK, HistoryInv, \A n \in Server : NodeInv(n), NEW n \in Server, StartElection(n)
    PROVE  HistoryInv' /\ (\A m \in Server : NodeInv(m)') /\ votes \subseteq votes' /\ leaders' = leaders
<1> DEFINE t == currentTerm[n] + 1
           new == [term |-> t, voter |-> n, candidate |-> n]
<1>1. /\ currentTerm \in [Server -> Nat] /\ votedFor \in [Server -> Server \cup {Nil}]
      /\ state \in [Server -> {"FOLLOWER", "CANDIDATE", "LEADER"}]
      /\ leaderId \in [Server -> Server \cup {Nil, DefaultId}] /\ votesReceived \in [Server -> SUBSET Server]
      /\ currentElectionTerm \in [Server -> Nat \cup {-1}] /\ disk \in [Server -> Disk]
  BY DEF TypeOK, PersistentTypeOK, RoleTypeOK
<1>2. t \in Nat /\ t >= currentTerm[n] /\ t # currentTerm[n] /\ t > 0
  BY <1>1
<1>3. /\ currentTerm' = [currentTerm EXCEPT ![n] = t] /\ votedFor' = [votedFor EXCEPT ![n] = n]
      /\ votes' = votes \cup {new} /\ leaders' = leaders
  BY DEF StartElection
<1>4. new.term = t /\ new.voter = n /\ new.candidate = n
  OBVIOUS
<1>5. HistoryInv'
  BY <1>2, <1>3, CastVote
<1>6. NodeInv(n)'
  <2>1. /\ state'[n] = "CANDIDATE" /\ currentTerm'[n] = t /\ votedFor'[n] = n /\ leaderId'[n] = Nil
        /\ currentElectionTerm'[n] = t /\ votesReceived'[n] = {n}
    BY <1>1 DEF StartElection
  <2>2. disk'[n].term = currentTerm'[n] /\ disk'[n].votedFor = votedFor'[n]
    BY <1>1 DEF StartElection, PersistState
  <2>3. ~Won(n, currentTerm[n])'
    <3>1. ASSUME NEW l \in leaders, l.leader = n PROVE l.term # t
      <4>1. l.term \in Nat /\ l.term <= currentTerm[n]
        BY <3>1 DEF HistoryInv, TermsReached, TypeOK, HistoryTypeOK, Leader
      <4> QED
        BY <1>1, <4>1
    <3> HIDE DEF t
    <3> QED
      BY <1>3, <2>1, <3>1 DEF Won
  <2>4. \A v \in votesReceived'[n] : Voted(v, currentTerm[n], n)'
    <3> HIDE DEF t, new
    <3> QED
      BY <1>3, <1>4, <2>1 DEF Voted
  <2> HIDE DEF t
  <2> QED
    BY <1>2, <2>1, <2>2, <2>3, <2>4, IdsDistinct DEF NodeInv, RoleBacked
<1>7. ASSUME NEW m \in Server, m # n PROVE NodeInv(m)'
  <2>1. /\ currentTerm'[m] = currentTerm[m] /\ votedFor'[m] = votedFor[m] /\ state'[m] = state[m]
        /\ leaderId'[m] = leaderId[m] /\ votesReceived'[m] = votesReceived[m]
        /\ currentElectionTerm'[m] = currentElectionTerm[m] /\ disk'[m] = disk[m]
    BY <1>1, <1>7 DEF StartElection, PersistState
  <2>2. Won(m, currentTerm[m])' => Won(m, currentTerm[m])
    BY <1>3, <2>1 DEF Won
  <2> QED
    BY <1>3, <2>1, <2>2, OthersKept
<1> QED
  BY <1>3, <1>5, <1>6, <1>7

\* A restart finds term and vote on disk as they were.
LEMMA RestartElection ==
    ASSUME TypeOK, HistoryInv, \A n \in Server : NodeInv(n), NEW n \in Server, Restart(n)
    PROVE  HistoryInv' /\ (\A m \in Server : NodeInv(m)') /\ UNCHANGED <<votes, leaders>>
<1>1. /\ currentTerm \in [Server -> Nat] /\ votedFor \in [Server -> Server \cup {Nil}]
      /\ state \in [Server -> {"FOLLOWER", "CANDIDATE", "LEADER"}]
      /\ leaderId \in [Server -> Server \cup {Nil, DefaultId}] /\ votesReceived \in [Server -> SUBSET Server]
      /\ currentElectionTerm \in [Server -> Nat \cup {-1}] /\ disk \in [Server -> Disk]
  BY DEF TypeOK, PersistentTypeOK, RoleTypeOK
<1>2. disk[n].term = currentTerm[n] /\ disk[n].votedFor = votedFor[n]
  BY DEF NodeInv
<1>3. UNCHANGED <<currentTerm, votedFor, disk, votes, leaders>>
  BY <1>1, <1>2 DEF Restart
<1>4. HistoryInv'
  BY <1>1, <1>3, KeepHistory
<1>5. NodeInv(n)'
  BY <1>1, <1>2, <1>3, IdsDistinct DEF Restart, NodeInv, RoleBacked
<1>6. ASSUME NEW m \in Server, m # n PROVE NodeInv(m)'
  <2>1. /\ currentTerm'[m] = currentTerm[m] /\ votedFor'[m] = votedFor[m] /\ state'[m] = state[m]
        /\ leaderId'[m] = leaderId[m] /\ votesReceived'[m] = votesReceived[m]
        /\ currentElectionTerm'[m] = currentElectionTerm[m] /\ disk'[m] = disk[m]
    BY <1>1, <1>3, <1>6 DEF Restart
  <2>2. Won(m, currentTerm[m])' => Won(m, currentTerm[m])
    BY <1>3, <2>1 DEF Won
  <2> QED
    BY <1>3, <2>1, <2>2, OthersKept
<1> QED
  BY <1>3, <1>4, <1>5, <1>6
-----------------------------------------------------------------------------
(* The theorems *)

\* ElectionInv in the form the lemmas use.
LEMMA ElectionInvParts == HistoryTypeOK => (ElectionInv <=> HistoryInv /\ NodesInv /\ CallsGenuine)
  BY NodeInvs DEF ElectionInv, HistoryInv, NodesInv

\* The main thread's steps keep ElectionInv.
LEMMA MainStepElection ==
    ASSUME TypeOK, HistoryInv, \A n \in Server : NodeInv(n), CallsGenuine, NEW n \in Server, MainStep(n)
    PROVE  HistoryInv' /\ (\A m \in Server : NodeInv(m)') /\ CallsGenuine'
<1>1. CASE StartElection(n)
  <2>1. UNCHANGED <<task, late>>
    BY <1>1 DEF StartElection
  <2>2. HistoryInv' /\ (\A m \in Server : NodeInv(m)') /\ votes \subseteq votes' /\ leaders' = leaders
    BY <1>1, StartElectionElection
  <2> QED
    BY <2>1, <2>2, CallsKept
<1>2. ASSUME NEW t, Enqueue(n, t), UNCHANGED <<raftVars, disk, votes, leaders, late>>,
             t.type \notin {"RequestVoteReply", "AppendEntriesArgs"},
             t.type = "RequestVoteArgs" => t.candidateId = n
      PROVE  HistoryInv' /\ (\A m \in Server : NodeInv(m)') /\ CallsGenuine'
  <2>1. ASSUME NEW c \in DOMAIN task'
        PROVE  (c \in DOMAIN task /\ task'[c] = task[c]) \/ CallGenuine(c, task[c])'
    <3>1. c \in DOMAIN task /\ (task'[c] = task[c] \/ (task'[c] = t /\ c[1] = n /\ c[2] \in Peers(n)))
      BY <1>2 DEF Enqueue
    <3>2. c[2] \in Peers(n) => c[2] # n
      BY DEF Peers
    <3>3. task'[c] = t /\ c[1] = n /\ c[2] # n => CallGenuine(c, task[c])'
      BY <1>2 DEF CallGenuine
    <3> QED
      BY <3>1, <3>2, <3>3
  <2>2. CallsGenuine'
    BY <1>2, <2>1, CallsKept
  <2> QED
    BY <1>2, <2>2, UnrelatedStep
<1>3. CASE SendRequestVotes(n)
  <2> DEFINE args(t) == [type |-> "RequestVoteArgs", term |-> main[n].term, candidateId |-> n,
                         lastLogIndex |-> main[n].lastLogIndex, lastLogTerm |-> t]
  <2>1. \A t : args(t).type = "RequestVoteArgs" /\ args(t).candidateId = n
    OBVIOUS
  <2>2. (\E t \in RacyLastLogTerm(n) : Enqueue(n, args(t))) /\ UNCHANGED <<raftVars, disk, votes, leaders, late>>
    BY <1>3 DEF SendRequestVotes
  <2> HIDE DEF args
  <2> QED
    BY <1>2, <2>1, <2>2
<1>4. CASE SendAppendEntriesToPeers(n)
  <2>1. Enqueue(n, Queued) /\ UNCHANGED <<raftVars, disk, votes, leaders, late>>
    BY <1>4 DEF SendAppendEntriesToPeers
  <2>2. Queued.type = "queued"
    BY DEF Queued
  <2> QED
    BY <1>2, <2>1, <2>2
<1>5. ASSUME UNCHANGED <<raftVars, disk, votes, leaders, task, late>>
      PROVE  HistoryInv' /\ (\A m \in Server : NodeInv(m)') /\ CallsGenuine'
  <2>1. CallsGenuine'
    BY <1>5, CallsKept
  <2> QED
    BY <1>5, <2>1, UnrelatedStep
<1>6. CASE CheckElectionTimeout(n) \/ ReadState(n) \/ ReadTerm(n) \/ ReadLastLogIndex(n) \/ ApplyCommittedEntries(n)
  BY <1>5, <1>6 DEF CheckElectionTimeout, ReadState, ReadTerm, ReadLastLogIndex, ApplyCommittedEntries
<1> QED
  BY <1>1, <1>3, <1>4, <1>6 DEF MainStep

\* The steps of a call keep ElectionInv.
LEMMA CallStepElection ==
    ASSUME TypeOK, HistoryInv, \A n \in Server : NodeInv(n), CallsGenuine,
           NEW c \in DOMAIN task, CallStep(c)
    PROVE  HistoryInv' /\ (\A m \in Server : NodeInv(m)') /\ CallsGenuine'
<1> DEFINE n == c[1]
           p == c[2]
<1>1. n \in Server /\ p \in Server /\ task \in [Server \X Server \X Slot -> Task]
  BY DEF TypeOK, ProcessTypeOK
<1>2. CallGenuine(c, task[c])
  BY DEF CallsGenuine
<1>3. ASSUME NEW t, task' = [task EXCEPT ![c] = t], late' = late,
             votes \subseteq votes', leaders \subseteq leaders', CallGenuine(c, task[c])'
      PROVE  CallsGenuine'
  BY <1>3, CallsKept
<1>4. ASSUME task' = [task EXCEPT ![c] = Idle], late' = late, votes \subseteq votes', leaders \subseteq leaders'
      PROVE  CallsGenuine'
  <2>1. task'[c] = Idle
    BY <1>1, <1>4
  <2>2. CallGenuine(c, task[c])'
    BY <2>1 DEF CallGenuine, Idle
  <2> QED
    BY <1>3, <1>4, <2>2
<1>5. currentTerm[n] \in Nat
  BY <1>1 DEF TypeOK, PersistentTypeOK
<1>6. CASE CreateAppendEntries(c)
  <2> DEFINE args == CreateAppendEntriesArgs(n, p)
  <2>1. UNCHANGED <<raftVars, disk, votes, leaders, late>> /\ task' = [task EXCEPT ![c] = args] /\ n # p
    BY <1>2, <1>6 DEF CreateAppendEntries, CallGenuine, Queued
  <2>2. args.type = "AppendEntriesArgs"
    BY DEF CreateAppendEntriesArgs, CreateArgs, DefaultArgs
  <2>3. GenuineAppend(args, p)
    <3>1. CASE state[n] = "LEADER"
      <4>1. args.leaderId = n /\ args.term = currentTerm[n]
        BY <3>1 DEF CreateAppendEntriesArgs, CreateArgs
      <4>2. Won(n, currentTerm[n])
        BY <1>1, <3>1 DEF NodeInv, RoleBacked
      <4> HIDE DEF args
      <4> QED
        BY <1>1, <2>1, <4>1, <4>2 DEF GenuineAppend
    <3>2. CASE state[n] # "LEADER"
      <4>1. args.leaderId = DefaultId /\ args.term = 0
        BY <3>2 DEF CreateAppendEntriesArgs, DefaultArgs
      <4> HIDE DEF args
      <4> QED
        BY <4>1, IdsDistinct DEF GenuineAppend
    <3> QED
      BY <3>1, <3>2
  <2> HIDE DEF args
  <2>4. CallGenuine(c, task[c])'
    <3>1. task'[c] = args
      BY <1>1, <2>1
    <3>2. GenuineAppend(task[c], p)'
      BY <2>1, <2>3, <3>1 DEF GenuineAppend, Won
    <3> QED
      BY <2>1, <2>2, <3>1, <3>2 DEF CallGenuine
  <2>5. CallsGenuine'
    BY <1>3, <2>1, <2>4
  <2> QED
    BY <2>1, <2>5, UnrelatedStep
<1>7. CASE DeliverRequestVote(c)
  <2> DEFINE reply == RequestVoteReplyTo(p, task[c])
  <2>1. /\ task[c] \in RequestVoteArgs /\ RequestVoteStep(p, task[c])
        /\ task' = [task EXCEPT ![c] = reply] /\ late' = late
    BY <1>7 DEF DeliverRequestVote, Answer
  <2>2. task[c].type = "RequestVoteArgs" /\ task[c].term \in Nat /\ currentTerm[p] \in Nat
    BY <1>1, <2>1 DEF RequestVoteArgs, TypeOK, PersistentTypeOK
  <2>3. /\ HistoryInv' /\ \A m \in Server : NodeInv(m)'
        /\ votes \subseteq votes' /\ leaders' = leaders
        /\ VoteGranted(p, task[c]) => \E u \in votes' : u.term = task[c].term /\ u.voter = p /\ u.candidate = task[c].candidateId
    BY <1>1, <2>1, RequestVoteElection DEF Voted
  <2>4. /\ reply.type = "RequestVoteReply"
        /\ reply.voteGranted = VoteGranted(p, task[c])
        /\ reply.term = Max({currentTerm[p], task[c].term})
    BY DEF RequestVoteReplyTo
  <2>5. VoteGranted(p, task[c]) => reply.term = task[c].term
    BY <2>2, <2>4, MaxOfTwo DEF VoteGranted
  <2> HIDE DEF reply
  <2>6. CallGenuine(c, task[c])'
    <3>1. task'[c] = reply
      BY <1>1, <2>1
    <3>2. task[c].candidateId = n /\ n # p
      BY <1>2, <2>2 DEF CallGenuine
    <3> QED
      BY <2>3, <2>4, <2>5, <3>1, <3>2 DEF CallGenuine, Voted
  <2>7. CallsGenuine'
    BY <1>3, <2>1, <2>3, <2>6
  <2> QED
    BY <2>3, <2>7
<1>8. CASE DeliverAppendEntries(c)
  <2> DEFINE reply == AppendEntriesReplyTo(p, task[c])
  <2>1. /\ task[c] \in AppendEntriesArgs /\ AppendEntriesStep(p, task[c])
        /\ task' = [task EXCEPT ![c] = reply] /\ late' = late
    BY <1>8 DEF DeliverAppendEntries, Answer
  <2>2. task[c].type = "AppendEntriesArgs"
    BY <2>1 DEF AppendEntriesArgs
  <2>3. GenuineAppend(task[c], p) /\ n # p
    BY <1>2, <2>2 DEF CallGenuine
  <2>4. HistoryInv' /\ (\A m \in Server : NodeInv(m)') /\ UNCHANGED <<votes, leaders>>
    BY <1>1, <2>1, <2>3, AppendEntriesElection
  <2>5. reply.type = "AppendEntriesReply"
    BY DEF AppendEntriesReplyTo, ConsistencyReply, AppendReply
  <2> HIDE DEF reply
  <2>6. CallGenuine(c, task[c])'
    <3>1. task'[c] = reply
      BY <1>1, <2>1
    <3> QED
      BY <2>3, <2>5, <3>1 DEF CallGenuine
  <2>7. CallsGenuine'
    BY <1>3, <2>1, <2>4, <2>6
  <2> QED
    BY <2>4, <2>7
<1>9. CASE HandleVoteResponse(c)
  <2> DEFINE reply == task[c]
  <2>1. /\ reply.type = "RequestVoteReply" /\ reply.term \in Nat
        /\ task' = [task EXCEPT ![c] = Idle] /\ UNCHANGED <<late, votes>>
    BY <1>9 DEF HandleVoteResponse, RequestVoteReply
  <2>2. CASE UNCHANGED <<raftVars, disk, leaders>>
    BY <1>4, <2>1, <2>2, UnrelatedStep
  <2>3. CASE reply.term > currentTerm[n] /\ StepDown(n, reply.term) /\ UNCHANGED leaders
    BY <1>1, <1>4, <2>1, <2>3, StepDownElection
  <2>4. CASE /\ ~IgnoreVoteResponse(n, reply) /\ reply.term <= currentTerm[n]
             /\ CountVote(n, p) /\ UNCHANGED disk
    <3>1. state[n] = "CANDIDATE" /\ ~(reply.term < currentElectionTerm[n]) /\ reply.voteGranted
      BY <2>4 DEF IgnoreVoteResponse
    <3>2. reply.term = currentTerm[n]
      <4>1. currentElectionTerm[n] = currentTerm[n]
        BY <1>1, <1>5, <3>1 DEF NodeInv, RoleBacked
      <4>2. currentTerm[n] \in Nat
        BY <1>1, <1>5 DEF TypeOK, PersistentTypeOK
      <4> QED
        BY <2>1, <2>4, <3>1, <4>1, <4>2
    <3>3. Voted(p, currentTerm[n], n)
      BY <1>2, <2>1, <3>1, <3>2 DEF CallGenuine
    <3>4. HistoryInv' /\ (\A m \in Server : NodeInv(m)') /\ leaders \subseteq leaders'
      BY <1>1, <2>1, <2>4, <3>1, <3>3, CountVoteElection
    <3> QED
      BY <1>4, <2>1, <3>4
  <2> QED
    BY <1>9, <2>2, <2>3, <2>4 DEF HandleVoteResponse
<1>10. CASE HandleAppendEntriesResponse(c)
  <2> DEFINE reply == task[c]
  <2>1. /\ reply.term \in Nat /\ task' = [task EXCEPT ![c] = Idle] /\ UNCHANGED <<late, votes, leaders>>
    BY <1>10 DEF HandleAppendEntriesResponse, AppendEntriesReply
  <2>2. CASE UNCHANGED <<raftVars, disk>>
    BY <1>4, <2>1, <2>2, UnrelatedStep
  <2>3. CASE reply.term > currentTerm[n] /\ StepDown(n, reply.term)
    BY <1>1, <1>4, <2>1, <2>3, StepDownElection
  <2> QED
    BY <1>10, <2>2, <2>3 DEF HandleAppendEntriesResponse
<1>11. CASE LoseCall(c)
  BY <1>4, <1>11, UnrelatedStep DEF LoseCall
<1>12. CASE TimeoutCall(c)
  <2>1. /\ UNCHANGED <<raftVars, disk, votes, leaders>>
        /\ task' = [task EXCEPT ![c] = Idle]
        /\ late' = late \cup {[to |-> p, args |-> task[c]]}
    BY <1>12 DEF TimeoutCall
  <2>2. ASSUME NEW d \in DOMAIN task'
        PROVE  (d \in DOMAIN task /\ task'[d] = task[d]) \/ CallGenuine(d, task[d])'
    BY <1>1, <2>1 DEF CallGenuine, Idle
  <2>3. task[c].type = "AppendEntriesArgs" => GenuineAppend(task[c], p)
    BY <1>2 DEF CallGenuine
  <2>4. \A args, to : GenuineAppend(args, to)' <=> GenuineAppend(args, to)
    BY <2>1 DEF GenuineAppend, Won
  <2>5. CallsGenuine'
    BY <2>1, <2>2, <2>3, <2>4, CallsKept
  <2> QED
    BY <2>1, <2>5, UnrelatedStep
<1> QED
  BY <1>6, <1>7, <1>8, <1>9, <1>10, <1>11, <1>12 DEF CallStep

\* Late requests, client commands, the persistence thread and restarts keep
\* ElectionInv.
LEMMA OtherStepElection ==
    ASSUME TypeOK, HistoryInv, \A n \in Server : NodeInv(n), CallsGenuine,
           \/ \E m \in late : DeliverLate(m)
           \/ \E n \in Server, cmd \in Command : AppendLogEntry(n, cmd)
           \/ \E n \in Server : PersistThread(n)
           \/ \E n \in Server : Restart(n)
    PROVE  HistoryInv' /\ (\A m \in Server : NodeInv(m)') /\ CallsGenuine'
<1>1. CASE \E m \in late : DeliverLate(m)
  <2> PICK m \in late : DeliverLate(m)
    BY <1>1
  <2>1. m.to \in Server /\ UNCHANGED task /\ late' \subseteq late
    BY DEF TypeOK, ProcessTypeOK, DeliverLate, Discard
  <2>2. CASE m.args \in RequestVoteArgs /\ RequestVoteStep(m.to, m.args)
    <3>1. HistoryInv' /\ (\A n \in Server : NodeInv(n)') /\ votes \subseteq votes' /\ leaders' = leaders
      BY <2>1, <2>2, RequestVoteElection
    <3> QED
      BY <2>1, <3>1, CallsKept
  <2>3. CASE m.args \in AppendEntriesArgs /\ AppendEntriesStep(m.to, m.args)
    <3>1. GenuineAppend(m.args, m.to)
      BY <2>3 DEF CallsGenuine, AppendEntriesArgs
    <3>2. HistoryInv' /\ (\A n \in Server : NodeInv(n)') /\ UNCHANGED <<votes, leaders>>
      BY <2>1, <2>3, <3>1, AppendEntriesElection
    <3> QED
      BY <2>1, <3>2, CallsKept
  <2> QED
    BY <2>2, <2>3 DEF DeliverLate
<1>2. CASE \E n \in Server, cmd \in Command : AppendLogEntry(n, cmd)
  <2>1. UNCHANGED <<raftVars, disk, votes, leaders, task, late>>
    BY <1>2 DEF AppendLogEntry
  <2>2. CallsGenuine'
    BY <2>1, CallsKept
  <2> QED
    BY <2>1, <2>2, UnrelatedStep
<1>3. CASE \E n \in Server : PersistThread(n)
  <2> PICK n \in Server : PersistThread(n)
    BY <1>3
  <2>1. UNCHANGED <<raftVars, votes, leaders, task, late>>
    BY DEF PersistThread
  <2>2. disk[n].term = currentTerm[n] /\ disk[n].votedFor = votedFor[n]
    BY DEF NodeInv
  <2>3. \A m \in Server : disk'[m].term = disk[m].term /\ disk'[m].votedFor = disk[m].votedFor
    BY <2>1, <2>2 DEF PersistThread, PersistState, TypeOK, PersistentTypeOK
  <2>4. CallsGenuine'
    BY <2>1, CallsKept
  <2> QED
    BY <2>1, <2>3, <2>4, UnrelatedStep
<1>4. CASE \E n \in Server : Restart(n)
  <2> PICK n \in Server : Restart(n)
    BY <1>4
  <2>1. HistoryInv' /\ (\A m \in Server : NodeInv(m)') /\ UNCHANGED <<votes, leaders>>
    BY RestartElection
  <2>2. ASSUME NEW c \in DOMAIN task'
        PROVE  (c \in DOMAIN task /\ task'[c] = task[c]) \/ CallGenuine(c, task[c])'
    BY DEF Restart, CallGenuine, Idle
  <2>3. CallsGenuine'
    BY <2>1, <2>2, CallsKept DEF Restart
  <2> QED
    BY <2>1, <2>3
<1> QED
  BY <1>1, <1>2, <1>3, <1>4

\* ElectionInv holds in the initial state and is kept by every step.
THEOREM ElectionInvariant == Spec => []ElectionInv
<1>1. Init => ElectionInv
  <2> SUFFICES ASSUME Init PROVE ElectionInv
    OBVIOUS
  <2>1. votes = {} /\ leaders = {} /\ late = {}
    BY DEF Init
  <2>2. TermsReached /\ VotesRemembered /\ SecondVoteAfterElection /\ LeadersKeepMajority
    BY <2>1 DEF TermsReached, VotesRemembered, SecondVoteAfterElection, LeadersKeepMajority
  <2>3. RolesBacked /\ TermAndVoteDurable /\ LeaderHintIsElected
    BY IdsDistinct DEF Init, RolesBacked, RoleBacked, TermAndVoteDurable, LeaderHintIsElected
  <2>4. CallsGenuine
    BY DEF Init, CallsGenuine, CallGenuine, Idle
  <2> QED
    BY <2>2, <2>3, <2>4 DEF ElectionInv
<1>2. TypeOK /\ TypeOK' /\ ElectionInv /\ [Next]_vars => ElectionInv'
  <2> SUFFICES ASSUME TypeOK, TypeOK', ElectionInv, [Next]_vars PROVE ElectionInv'
    OBVIOUS
  <2>1. HistoryInv /\ (\A n \in Server : NodeInv(n)) /\ CallsGenuine
    BY ElectionInvParts DEF TypeOK, NodesInv
  <2>2. HistoryInv' /\ (\A n \in Server : NodeInv(n)') /\ CallsGenuine'
    <3>1. CASE Next
      BY <2>1, <3>1, MainStepElection, CallStepElection, OtherStepElection DEF Next
    <3>2. CASE UNCHANGED vars
      BY <2>1, <3>2, UnrelatedStep, CallsKept
    <3> QED
      BY <3>1, <3>2
  <2>3. HistoryTypeOK' /\ NodesInv'
    BY <2>2 DEF TypeOK, NodesInv
  <2> QED
    BY <2>2, <2>3, ElectionInvParts, PTL
<1> QED
  BY <1>1, <1>2, TypeCorrect, PTL DEF Spec

\* At most one node wins a term, for any number of nodes, calls under way, late
\* requests and crashes, although handleAppendEntries lets nodes vote twice.
THEOREM ElectionSafe == Spec => []ElectionSafety
<1>1. TypeOK /\ ElectionInv => ElectionSafety
  BY OneLeader DEF TypeOK, ElectionInv
<1> QED
  BY <1>1, TypeCorrect, ElectionInvariant, PTL

\* A crash never takes back a term or a vote; a second vote in a term comes too
\* late to matter; clients are redirected only to nodes that won the term.
THEOREM VotesSafe == Spec => [](TermAndVoteDurable /\ SecondVoteAfterElection /\ LeaderHintIsElected)
<1>1. ElectionInv => TermAndVoteDurable /\ SecondVoteAfterElection /\ LeaderHintIsElected
  BY DEF ElectionInv
<1> QED
  BY <1>1, ElectionInvariant, PTL

\* An AppendEntries request that a node accepts in its own term does not find it
\* LEADER: the sender is the only winner of that term.
LEMMA AppendToLeader ==
    ASSUME TypeOK, ElectionInv, NEW p \in Server, state[p] = "LEADER",
           NEW args \in AppendEntriesArgs, GenuineAppend(args, p), args.term >= currentTerm[p]
    PROVE  args.term > currentTerm[p]
<1>1. args.term \in Nat /\ currentTerm[p] \in Nat
  BY DEF TypeOK, PersistentTypeOK, AppendEntriesArgs
<1>2. Won(p, currentTerm[p]) /\ currentTerm[p] > 0
  BY DEF ElectionInv, RolesBacked, RoleBacked
<1>3. ElectionSafety
  BY OneLeader DEF ElectionInv, TypeOK
<1>4. args.term # currentTerm[p]
  BY <1>1, <1>2, <1>3 DEF GenuineAppend, Won, ElectionSafety
<1> QED
  BY <1>1, <1>4

\* Nothing but a newer term or a crash ends a leadership: no message of the
\* leader's own term, however late, turns it into a follower
\* (handleAppendEntries, rule 2).
THEOREM LeadershipEnds == Spec => LeaderEndsWithTerm
<1> DEFINE Stays(n) == state[n] = "LEADER" /\ state'[n] # "LEADER" /\ crashes' = crashes =>
                         currentTerm'[n] > currentTerm[n]
<1>1. ASSUME TypeOK, ElectionInv, [Next]_vars
      PROVE  [\A n \in Server : Stays(n)]_vars
  <2> SUFFICES ASSUME Next, NEW n \in Server, state[n] = "LEADER", state'[n] # "LEADER", crashes' = crashes
               PROVE  currentTerm'[n] > currentTerm[n]
    BY <1>1
  <2>1. /\ currentTerm \in [Server -> Nat] /\ state \in [Server -> {"FOLLOWER", "CANDIDATE", "LEADER"}]
        /\ crashes \in Nat
    BY <1>1 DEF TypeOK, PersistentTypeOK, RoleTypeOK, ProcessTypeOK
  <2>2. ASSUME NEW m \in Server, MainStep(m) PROVE currentTerm'[n] > currentTerm[n]
    <3>1. StartElection(m)
      BY <2>2 DEF MainStep, CheckElectionTimeout, ReadState, ReadTerm, ReadLastLogIndex, SendRequestVotes,
                  SendAppendEntriesToPeers, ApplyCommittedEntries
    <3> QED
      BY <2>1, <3>1 DEF StartElection
  <2>3. ASSUME NEW p \in Server, NEW args \in RequestVoteArgs, RequestVoteStep(p, args)
        PROVE  currentTerm'[n] > currentTerm[n]
    BY <2>1, <2>3 DEF RequestVoteStep, HandleRequestVote
  <2>4. ASSUME NEW p \in Server, NEW args \in AppendEntriesArgs, GenuineAppend(args, p), AppendEntriesStep(p, args)
        PROVE  currentTerm'[n] > currentTerm[n]
    <3>1. args.term >= currentTerm[p] /\ AcceptLeader(p, args)
      BY <2>4 DEF AppendEntriesStep, HandleAppendEntries
    <3>2. n = p
      BY <2>1, <3>1 DEF AcceptLeader
    <3>3. args.term > currentTerm[p]
      BY <1>1, <2>4, <3>1, <3>2, AppendToLeader
    <3> QED
      BY <2>1, <3>1, <3>2, <3>3 DEF AcceptLeader
  <2>5. ASSUME NEW m \in Server, NEW t, t > currentTerm[m], StepDown(m, t)
        PROVE  currentTerm'[n] > currentTerm[n]
    BY <2>1, <2>5 DEF StepDown
  <2>6. ASSUME NEW c \in DOMAIN task, CallStep(c) PROVE currentTerm'[n] > currentTerm[n]
    <3>1. c[1] \in Server /\ c[2] \in Server /\ CallGenuine(c, task[c])
      BY <1>1, <2>6 DEF TypeOK, ProcessTypeOK, ElectionInv, CallsGenuine
    <3>2. CASE DeliverRequestVote(c)
      BY <2>3, <3>1, <3>2 DEF DeliverRequestVote
    <3>3. CASE DeliverAppendEntries(c)
      <4>1. task[c] \in AppendEntriesArgs /\ AppendEntriesStep(c[2], task[c])
        BY <3>3 DEF DeliverAppendEntries
      <4>2. GenuineAppend(task[c], c[2])
        BY <3>1, <4>1 DEF CallGenuine, AppendEntriesArgs
      <4> QED
        BY <2>4, <3>1, <4>1, <4>2
    <3>4. CASE HandleVoteResponse(c)
      <4>1. ~CountVote(c[1], c[2])
        BY <2>1, <3>4 DEF CountVote, BecomeLeader
      <4> QED
        BY <2>5, <3>1, <3>4, <4>1 DEF HandleVoteResponse
    <3>5. CASE HandleAppendEntriesResponse(c)
      BY <2>5, <3>1, <3>5 DEF HandleAppendEntriesResponse
    <3>6. CASE CreateAppendEntries(c) \/ LoseCall(c) \/ TimeoutCall(c)
      BY <3>6 DEF CreateAppendEntries, LoseCall, TimeoutCall
    <3> QED
      BY <2>6, <3>2, <3>3, <3>4, <3>5, <3>6 DEF CallStep
  <2>7. ASSUME NEW m \in late, DeliverLate(m) PROVE currentTerm'[n] > currentTerm[n]
    <3>1. m.to \in Server
      BY <1>1 DEF TypeOK, ProcessTypeOK
    <3>2. m.args \in AppendEntriesArgs => GenuineAppend(m.args, m.to)
      BY <1>1 DEF ElectionInv, CallsGenuine, AppendEntriesArgs
    <3> QED
      BY <2>3, <2>4, <2>7, <3>1, <3>2 DEF DeliverLate
  <2>8. ASSUME NEW m \in Server,
               (\E cmd \in Command : AppendLogEntry(m, cmd)) \/ PersistThread(m) \/ Restart(m)
        PROVE  FALSE
    <3>1. ~Restart(m)
      <4>1. Restart(m) => crashes' = crashes + 1
        BY DEF Restart
      <4> QED
        BY <2>1, <4>1
    <3>2. (\E cmd \in Command : AppendLogEntry(m, cmd)) \/ PersistThread(m) => state' = state
      BY DEF AppendLogEntry, PersistThread
    <3> QED
      BY <2>8, <3>1, <3>2
  <2> QED
    BY <2>2, <2>6, <2>7, <2>8 DEF Next
<1>2. TypeOK /\ ElectionInv /\ [Next]_vars => [\A n \in Server : Stays(n)]_vars
  BY <1>1
<1>3. LeaderEndsWithTerm <=> [][\A n \in Server : Stays(n)]_vars
  BY DEF LeaderEndsWithTerm
<1> HIDE DEF Stays
<1> QED
  BY <1>2, <1>3, TypeCorrect, ElectionInvariant, PTL DEF Spec
-----------------------------------------------------------------------------
(***************************************************************************)
(* Replication                                                             *)
(*                                                                         *)
(* Log matching of RaftNode for every cluster, and what its vote requests  *)
(* say of the candidate's log.                                             *)
(*                                                                         *)
(* The invariant speaks of the set H of all logs that any node has ever    *)
(* had, of which the state keeps only some: a log may be cut or lost in a  *)
(* crash while a request that was taken from it is still under way.  So    *)
(* what is shown to be invariant is that there is such a set.  It grows    *)
(* with appendLogEntry alone: handleAppendEntries only ever replaces a log *)
(* by another one of H (MergeYieldsOneOfBoth).                             *)
(***************************************************************************)

SortedByTerm(l) == \A i, j \in 1..Len(l) : i <= j => l[i].term <= l[j].term
UpToTerm(l, t) == \A i \in 1..Len(l) : l[i].term <= t

\* Logs that explain each other, whose entries are in the order of their terms
\* and come from winners of these terms.
LogsOfWinners(H) ==
    /\ H \subseteq Seq(Entry) /\ <<>> \in H
    /\ \A k, l \in H : Explains(k, l)
    /\ \A g \in H : SortedByTerm(g)
    /\ \A g \in H : \A i \in 1..Len(g) : g[i].term > 0 /\ \E w \in Server : Won(w, g[i].term)

\* What a node has in memory and on disk is one of the logs, and of no later
\* term than the node.
LogsOfNode(H, n) ==
    /\ log[n] \in H /\ UpToTerm(log[n], currentTerm[n])
    /\ disk[n].log \in H /\ UpToTerm(disk[n].log, currentTerm[n])

\* A leader has every entry of its term that there is.
OwnsTerm(H, n) ==
    \A g \in H : \A i \in 1..Len(g) :
        g[i].term = currentTerm[n] => i <= Len(log[n]) /\ log[n][i].term = currentTerm[n]

\* AppendEntries requests that may still be executed.
Appends == {a \in {task[c] : c \in DOMAIN task} \cup {m.args : m \in late} : a.type = "AppendEntriesArgs"}

\* g is the log of the leader of the request's term at the time of the request:
\* it does not contradict any log with entries of that term, and the leader, if
\* it is still in office, has only added to it.
SentFrom(H, args, g) ==
    /\ Cut(args, g)
    /\ UpToTerm(g, args.term)
    /\ \A h \in H : \A j \in 1..Len(h), x \in 1..Len(g) : h[j].term = args.term /\ x <= j => h[x] = g[x]
    /\ \A n \in Server : state[n] = "LEADER" /\ currentTerm[n] = args.term => StartsWith(log[n], g)

LogsInv(H) ==
    /\ LogsOfWinners(H)
    /\ \A n \in Server : LogsOfNode(H, n)
    /\ \A n \in Server : state[n] = "LEADER" => OwnsTerm(H, n)
    /\ \A a \in Appends : \E g \in H : SentFrom(H, a, g)

\* Every node's log, and every request under way, comes from one set of logs
\* that explain each other.
LogsExplained == \E H \in SUBSET Seq(Entry) : LogsInv(H)
-----------------------------------------------------------------------------
\* Winners stay winners.
LEMMA WinnersStay ==
    ASSUME NEW H, LogsOfWinners(H), leaders \subseteq leaders'
    PROVE  LogsOfWinners(H)'
<1>1. \A w, t : Won(w, t) => Won(w, t)'
  BY DEF Won
<1> QED
  BY <1>1 DEF LogsOfWinners

\* A step that makes no leader and appends nothing keeps the invariant.
LEMMA LogsKept ==
    ASSUME NEW H, LogsInv(H), leaders \subseteq leaders',
           \A n \in Server : LogsOfNode(H, n)',
           \A n \in Server : state'[n] = "LEADER" =>
               state[n] = "LEADER" /\ currentTerm'[n] = currentTerm[n] /\ log'[n] = log[n],
           \A a \in Appends' : a \in Appends \/ \E g \in H : SentFrom(H, a, g)'
    PROVE  LogsInv(H)'
<1>1. LogsOfWinners(H)'
  BY WinnersStay DEF LogsInv
<1>2. ASSUME NEW n \in Server, state'[n] = "LEADER" PROVE OwnsTerm(H, n)'
  BY <1>2 DEF LogsInv, OwnsTerm
<1>3. ASSUME NEW a \in Appends' PROVE \E g \in H : SentFrom(H, a, g)'
  <2>1. CASE a \in Appends
    <3>1. PICK g \in H : SentFrom(H, a, g)
      BY <2>1 DEF LogsInv
    <3>2. SentFrom(H, a, g)'
      BY <3>1 DEF SentFrom
    <3> QED
      BY <3>2
  <2> QED
    BY <1>3, <2>1
<1> QED
  BY <1>1, <1>2, <1>3 DEF LogsInv

\* The same for a step that touches no log at all, but may save one.
LEMMA LogsUntouched ==
    ASSUME NEW H, LogsInv(H), TypeOK, TypeOK', leaders \subseteq leaders', log' = log,
           \A n \in Server : disk'[n].log \in {disk[n].log, log[n]},
           \A n \in Server : currentTerm[n] <= currentTerm'[n],
           \A n \in Server : state'[n] = "LEADER" => state[n] = "LEADER" /\ currentTerm'[n] = currentTerm[n],
           Appends' \subseteq Appends
    PROVE  LogsInv(H)'
<1>1. ASSUME NEW n \in Server PROVE LogsOfNode(H, n)'
  <2>1. LogsOfNode(H, n)
    BY DEF LogsInv
  <2>2. currentTerm[n] \in Nat /\ currentTerm'[n] \in Nat /\ log[n] \in Seq(Entry) /\ disk[n].log \in Seq(Entry)
    BY DEF TypeOK, PersistentTypeOK, Disk
  <2>3. ASSUME NEW l \in Seq(Entry), UpToTerm(l, currentTerm[n]) PROVE UpToTerm(l, currentTerm'[n])
    <3>1. \A i \in 1..Len(l) : l[i].term \in Nat
      BY TermsOfLog
    <3> QED
      BY <2>2, <2>3, <3>1 DEF UpToTerm
  <2>4. log'[n] \in H /\ UpToTerm(log'[n], currentTerm'[n])
    BY <2>1, <2>2, <2>3 DEF LogsOfNode
  <2>5. disk'[n].log \in H /\ UpToTerm(disk'[n].log, currentTerm'[n])
    BY <2>1, <2>2, <2>3 DEF LogsOfNode
  <2> QED
    BY <2>4, <2>5 DEF LogsOfNode
<1> QED
  BY <1>1, LogsKept

\* Steps that create no AppendEntries request; a deadline only moves one.
LEMMA NoNewAppends ==
    ASSUME DOMAIN task' = DOMAIN task,
           \A c \in DOMAIN task : task'[c] = task[c] \/ task'[c].type # "AppendEntriesArgs",
           \A m \in late' : m \in late \/ \E c \in DOMAIN task : m.args = task[c]
    PROVE  Appends' \subseteq Appends
  BY DEF Appends

\* The same when a single call changes.
LEMMA NoNewAppendsOfCall ==
    ASSUME TypeOK, NEW c \in DOMAIN task, NEW t, task' = [task EXCEPT ![c] = t],
           t.type # "AppendEntriesArgs", late' \subseteq late
    PROVE  Appends' \subseteq Appends
<1>1. DOMAIN task' = DOMAIN task /\ task'[c] = t /\ \A d \in DOMAIN task : d # c => task'[d] = task[d]
  BY DEF TypeOK, ProcessTypeOK
<1> QED
  BY <1>1, NoNewAppends

\* handleRequestVote changes no log.
LEMMA RequestVoteLogs ==
    ASSUME NEW H, LogsInv(H), TypeOK, TypeOK', NEW p \in Server, NEW args \in RequestVoteArgs,
           RequestVoteStep(p, args), Appends' \subseteq Appends
    PROVE  LogsInv(H)'
<1>1. /\ currentTerm \in [Server -> Nat] /\ state \in [Server -> {"FOLLOWER", "CANDIDATE", "LEADER"}]
      /\ disk \in [Server -> Disk] /\ args.term \in Nat
  BY DEF TypeOK, PersistentTypeOK, RoleTypeOK, RequestVoteArgs
<1>2. log' = log /\ leaders' = leaders
  BY DEF RequestVoteStep
<1>3. \A n \in Server : disk'[n].log \in {disk[n].log, log[n]}
  BY <1>1, <1>2 DEF RequestVoteStep, HandleRequestVote, PersistState
<1>4. \A n \in Server : currentTerm[n] <= currentTerm'[n]
  BY <1>1 DEF RequestVoteStep, HandleRequestVote
<1>5. \A n \in Server : state'[n] = "LEADER" => state[n] = "LEADER" /\ currentTerm'[n] = currentTerm[n]
  BY <1>1 DEF RequestVoteStep, HandleRequestVote
<1> QED
  BY <1>2, <1>3, <1>4, <1>5, LogsUntouched

\* Where the consistency check of handleAppendEntries succeeds, the node and the
\* sender have the same entry at prevLogIndex.
LEMMA ConsistentPrev ==
    ASSUME NEW l \in Seq(Entry), NEW g \in Seq(Entry), \A i \in 1..Len(l) : l[i].term > 0,
           NEW args \in AppendEntriesArgs, Cut(args, g), LogConsistent(l, args)
    PROVE  /\ args.prevLogIndex \in Nat /\ args.prevLogIndex <= Len(l)
           /\ args.prevLogIndex <= Len(g)
           /\ args.prevLogIndex > 0 => l[args.prevLogIndex].term = g[args.prevLogIndex].term
<1>1. args.prevLogIndex \in Nat /\ args.prevLogIndex <= Len(l)
  BY DEF AppendEntriesArgs, LogConsistent, PrevMissing
<1>2. CASE args.prevLogIndex = 0
  BY <1>1, <1>2
<1>3. CASE args.prevLogIndex > 0
  <2>1. l[args.prevLogIndex].term = args.prevLogTerm /\ l[args.prevLogIndex].term > 0
    BY <1>1, <1>3 DEF LogConsistent, PrevMismatch
  <2> QED
    BY <1>1, <1>3, <2>1 DEF Cut
<1> QED
  BY <1>1, <1>2, <1>3

\* The log that handleAppendEntries leaves is the old one, if it has all of the
\* sender's, or else the sender's.
LEMMA MergedLog ==
    ASSUME NEW H, LogsOfWinners(H), NEW l \in H, NEW g \in H, NEW args \in AppendEntriesArgs,
           Cut(args, g), LogConsistent(l, args)
    PROVE  MergeEntries(l, args.prevLogIndex, args.entries) = IF StartsWith(l, g) THEN l ELSE g
<1>1. l \in Seq(Entry) /\ g \in Seq(Entry) /\ Explains(g, l) /\ \A i \in 1..Len(l) : l[i].term > 0
  BY DEF LogsOfWinners
<1>2. /\ args.prevLogIndex \in Nat /\ args.prevLogIndex <= Len(l) /\ args.prevLogIndex <= Len(g)
      /\ args.prevLogIndex > 0 => l[args.prevLogIndex].term = g[args.prevLogIndex].term
  BY <1>1, ConsistentPrev
<1>3. args.entries = SubSeq(g, args.prevLogIndex + 1, Len(g))
  BY DEF Cut
<1> QED
  BY <1>1, <1>2, <1>3, MergeYieldsOneOfBoth

\* handleAppendEntries replaces a log by one of the same set.
LEMMA AppendEntriesLogs ==
    ASSUME NEW H, LogsInv(H), TypeOK, TypeOK', NEW p \in Server, NEW args \in AppendEntriesArgs,
           NEW g \in H, SentFrom(H, args, g), AppendEntriesStep(p, args), Appends' \subseteq Appends
    PROVE  LogsInv(H)'
<1>1. /\ currentTerm \in [Server -> Nat] /\ state \in [Server -> {"FOLLOWER", "CANDIDATE", "LEADER"}]
      /\ disk \in [Server -> Disk] /\ log \in [Server -> Seq(Entry)] /\ args.term \in Nat
  BY DEF TypeOK, PersistentTypeOK, RoleTypeOK, AppendEntriesArgs
<1>2. leaders' = leaders
  BY DEF AppendEntriesStep
<1>3. CASE UNCHANGED <<raftVars, log, disk>>
  <2>1. UNCHANGED <<currentTerm, state, log, disk>>
    BY <1>3 DEF raftVars
  <2>2. \A n \in Server : currentTerm[n] <= currentTerm'[n]
    BY <1>1, <2>1
  <2> QED
    BY <1>2, <2>1, <2>2, LogsUntouched, Zenon
<1>4. CASE args.term >= currentTerm[p] /\ AcceptLeader(p, args) /\ PersistState(p)
           /\ (log' = log \/ /\ LogConsistent(log[p], args)
                             /\ log' = [log EXCEPT ![p] = MergeEntries(log[p], args.prevLogIndex, args.entries)])
  <2>1. /\ currentTerm' = [currentTerm EXCEPT ![p] = args.term] /\ state'[p] = "FOLLOWER"
        /\ \A n \in Server \ {p} : state'[n] = state[n]
    BY <1>1, <1>4 DEF AcceptLeader
  <2>2. disk' = [disk EXCEPT ![p] = [term |-> currentTerm'[p], votedFor |-> votedFor'[p], log |-> log'[p]]]
    BY <1>4 DEF PersistState
  <2>3. log'[p] \in {log[p], g} /\ \A n \in Server \ {p} : log'[n] = log[n]
    <3>1. LogsOfWinners(H) /\ log[p] \in H /\ Cut(args, g)
      BY DEF LogsInv, LogsOfNode, SentFrom
    <3>2. LogConsistent(log[p], args) => MergeEntries(log[p], args.prevLogIndex, args.entries) \in {log[p], g}
      BY <3>1, MergedLog
    <3> QED
      BY <1>1, <1>4, <3>2
  <2>4. LogsOfNode(H, p)'
    <3>1. UpToTerm(log[p], args.term)
      <4>1. UpToTerm(log[p], currentTerm[p]) /\ \A i \in 1..Len(log[p]) : log[p][i].term \in Nat
        BY <1>1, TermsOfLog DEF LogsInv, LogsOfNode
      <4> QED
        BY <1>1, <1>4, <4>1 DEF UpToTerm
    <3>2. log[p] \in H /\ UpToTerm(g, args.term) /\ currentTerm'[p] = args.term /\ disk'[p].log = log'[p]
      BY <1>1, <2>1, <2>2 DEF LogsInv, LogsOfNode, SentFrom
    <3> QED
      BY <2>3, <3>1, <3>2 DEF LogsOfNode
  <2>5. ASSUME NEW n \in Server \ {p} PROVE LogsOfNode(H, n)'
    <3>1. LogsOfNode(H, n) /\ log'[n] = log[n] /\ disk'[n] = disk[n] /\ currentTerm'[n] = currentTerm[n]
      BY <1>1, <2>1, <2>2, <2>3 DEF LogsInv
    <3> QED
      BY <3>1 DEF LogsOfNode
  <2>6. \A n \in Server : LogsOfNode(H, n)'
    BY <2>4, <2>5
  <2>7. ASSUME NEW n \in Server, state'[n] = "LEADER"
        PROVE  state[n] = "LEADER" /\ currentTerm'[n] = currentTerm[n] /\ log'[n] = log[n]
    BY <1>1, <2>1, <2>3, <2>7
  <2> QED
    BY <1>2, <2>6, <2>7, LogsKept
<1> QED
  BY <1>3, <1>4 DEF AppendEntriesStep, HandleAppendEntries

\* Two leaders are of two terms.
LEMMA LeadersDiffer ==
    ASSUME TypeOK, ElectionInv, NEW m \in Server, NEW n \in Server,
           state[m] = "LEADER", state[n] = "LEADER", currentTerm[m] = currentTerm[n]
    PROVE  m = n
<1>1. ElectionSafety
  BY OneLeader DEF ElectionInv, TypeOK
<1>2. Won(m, currentTerm[m]) /\ Won(n, currentTerm[n])
  BY DEF ElectionInv, RolesBacked, RoleBacked
<1> QED
  BY <1>1, <1>2 DEF Won, ElectionSafety

\* A term with a log entry or an AppendEntries request has had its election.
LEMMA TermsOfNewLeader ==
    ASSUME TypeOK, TypeOK', ElectionInv, ElectionInv', NEW H, LogsInv(H), NEW n \in Server,
           state[n] = "CANDIDATE", BecomeLeader(n)
    PROVE  /\ \A g \in H : \A i \in 1..Len(g) : g[i].term # currentTerm[n]
           /\ \A a \in Appends : a.term # currentTerm[n]
<1>1. ~Won(n, currentTerm[n]) /\ currentTerm[n] > 0
  BY DEF ElectionInv, RolesBacked, RoleBacked
<1>2. ElectionSafety'
  BY OneLeader, PTL DEF ElectionInv, TypeOK
<1>3. ASSUME NEW w, Won(w, currentTerm[n]) PROVE FALSE
  <2>1. PICK l \in leaders : l.term = currentTerm[n] /\ l.leader = w
    BY <1>3 DEF Won
  <2>2. l \in leaders' /\ [term |-> currentTerm[n], leader |-> n] \in leaders'
    BY <2>1 DEF BecomeLeader
  <2>3. w = n
    BY <1>2, <2>1, <2>2 DEF ElectionSafety
  <2> QED
    BY <1>1, <1>3, <2>3
<1>4. ASSUME NEW g \in H, NEW i \in 1..Len(g) PROVE g[i].term # currentTerm[n]
  BY <1>3 DEF LogsInv, LogsOfWinners
<1>5. ASSUME NEW a \in Appends PROVE a.term # currentTerm[n]
  <2>1. \E to : GenuineAppend(a, to)
    BY DEF ElectionInv, CallsGenuine, CallGenuine, Appends
  <2> QED
    BY <1>1, <1>3, <2>1 DEF GenuineAppend
<1> QED
  BY <1>4, <1>5

\* becomeLeaderInternal: the new leader has all entries of its term, there being
\* none.
LEMMA BecomeLeaderLogs ==
    ASSUME TypeOK, TypeOK', ElectionInv, ElectionInv', NEW H, LogsInv(H), NEW n \in Server,
           state[n] = "CANDIDATE", BecomeLeader(n), UNCHANGED <<log, disk>>, Appends' \subseteq Appends
    PROVE  LogsInv(H)'
<1>1. /\ currentTerm' = currentTerm /\ leaders \subseteq leaders'
      /\ \A m \in Server \ {n} : state'[m] = state[m]
  BY DEF BecomeLeader, TypeOK, RoleTypeOK
<1>2. /\ \A g \in H : \A i \in 1..Len(g) : g[i].term # currentTerm[n]
      /\ \A a \in Appends : a.term # currentTerm[n]
  BY TermsOfNewLeader
<1>3. LogsOfWinners(H)'
  BY <1>1, WinnersStay DEF LogsInv
<1>4. \A m \in Server : LogsOfNode(H, m)'
  BY <1>1 DEF LogsInv, LogsOfNode
<1>5. ASSUME NEW m \in Server, state'[m] = "LEADER" PROVE OwnsTerm(H, m)'
  BY <1>1, <1>2, <1>5 DEF LogsInv, OwnsTerm
<1>6. ASSUME NEW a \in Appends' PROVE \E g \in H : SentFrom(H, a, g)'
  <2>1. a \in Appends /\ a.term # currentTerm[n]
    BY <1>2
  <2>2. PICK g \in H : SentFrom(H, a, g)
    BY <2>1 DEF LogsInv
  <2>3. SentFrom(H, a, g)'
    BY <1>1, <2>1, <2>2 DEF SentFrom
  <2> QED
    BY <2>3
<1> QED
  BY <1>3, <1>4, <1>5, <1>6 DEF LogsInv

\* A request that is cut from the leader's log, in the leader's term.
LEMMA SentByLeader ==
    ASSUME TypeOK, ElectionInv, NEW H, LogsInv(H), NEW n \in Server, state[n] = "LEADER",
           NEW args, args.term = currentTerm[n], Cut(args, log[n])
    PROVE  SentFrom(H, args, log[n])
<1>1. log[n] \in Seq(Entry) /\ currentTerm[n] \in Nat
  BY DEF TypeOK, PersistentTypeOK
<1>2. UpToTerm(log[n], args.term)
  BY DEF LogsInv, LogsOfNode
<1>3. ASSUME NEW h \in H, NEW j \in 1..Len(h), NEW x \in 1..Len(log[n]), h[j].term = args.term, x <= j
      PROVE  h[x] = log[n][x]
  <2>1. j <= Len(log[n]) /\ log[n][j].term = currentTerm[n]
    BY <1>3 DEF LogsInv, OwnsTerm
  <2>2. log[n] \in H /\ Explains(h, log[n]) /\ h \in Seq(Entry)
    BY DEF LogsInv, LogsOfWinners, LogsOfNode
  <2>3. \A y \in 1..j : log[n][y] = h[y]
    BY <1>1, <1>3, <2>1, <2>2 DEF Explains
  <2> QED
    BY <1>1, <1>3, <2>2, <2>3
<1>4. ASSUME NEW m \in Server, state[m] = "LEADER", currentTerm[m] = args.term
      PROVE  StartsWith(log[m], log[n])
  <2>1. m = n
    BY <1>4, LeadersDiffer
  <2> QED
    BY <1>1, <2>1 DEF StartsWith
<1> QED
  BY <1>2, <1>3, <1>4 DEF SentFrom

\* createAppendEntriesArgs: the request is cut from the leader's log.
LEMMA CreateArgsCut ==
    ASSUME TypeOK, NEW n \in Server, NEW p \in Server, state[n] = "LEADER"
    PROVE  /\ CreateAppendEntriesArgs(n, p).term = currentTerm[n]
           /\ CreateAppendEntriesArgs(n, p).leaderCommit = commitIndex[n]
           /\ Cut(CreateAppendEntriesArgs(n, p), log[n])
<1> DEFINE args == CreateAppendEntriesArgs(n, p)
<1>1. /\ args.term = currentTerm[n] /\ args.prevLogIndex = nextIndex[n][p] - 1
      /\ args.prevLogTerm = IF nextIndex[n][p] - 1 \in 1..Len(log[n]) THEN log[n][nextIndex[n][p] - 1].term ELSE 0
      /\ args.entries = SubSeq(log[n], nextIndex[n][p], Len(log[n]))
      /\ args.leaderCommit = commitIndex[n]
  BY DEF CreateAppendEntriesArgs, CreateArgs
<1> HIDE DEF args
<1>2. nextIndex[n][p] - 1 + 1 = nextIndex[n][p]
  BY DEF TypeOK, IndexTypeOK
<1>3. Cut(args, log[n])
  BY <1>1, <1>2 DEF Cut
<1> QED
  BY <1>1, <1>3 DEF args

\* The same, or the default arguments, which are cut from an empty log.
LEMMA CreateAppendLogs ==
    ASSUME TypeOK, ElectionInv, NEW H, LogsInv(H), NEW n \in Server, NEW p \in Server
    PROVE  /\ state[n] = "LEADER" => SentFrom(H, CreateAppendEntriesArgs(n, p), log[n])
           /\ state[n] # "LEADER" => SentFrom(H, CreateAppendEntriesArgs(n, p), <<>>)
<1>1. CASE state[n] = "LEADER"
  BY <1>1, CreateArgsCut, SentByLeader
<1>2. CASE state[n] # "LEADER"
  <2>1. CreateAppendEntriesArgs(n, p) = DefaultArgs
    BY <1>2 DEF CreateAppendEntriesArgs
  <2>2. Cut(DefaultArgs, <<>>)
    BY DEF Cut, DefaultArgs
  <2>3. \A m \in Server : StartsWith(log[m], <<>>)
    BY DEF StartsWith, TypeOK, PersistentTypeOK
  <2> QED
    BY <1>2, <2>1, <2>2, <2>3 DEF SentFrom, UpToTerm
<1> QED
  BY <1>1, <1>2

\* A log with one more entry, of the node's term, fits the logs there are: the
\* leader had every entry of its term.
LEMMA AppendedLogFits ==
    ASSUME TypeOK, ElectionInv, NEW H, LogsInv(H), NEW n \in Server, state[n] = "LEADER",
           NEW cmd \in Command
    PROVE  LogsOfWinners(H \cup {Append(log[n], [term |-> currentTerm[n], command |-> cmd])})
<1> DEFINE e == [term |-> currentTerm[n], command |-> cmd]
           new == Append(log[n], e)
           len == Len(log[n])
<1>1. log[n] \in Seq(Entry) /\ currentTerm[n] \in Nat /\ len \in Nat /\ e \in Entry /\ e.term = currentTerm[n]
  <2>1. log[n] \in Seq(Entry) /\ currentTerm[n] \in Nat
    BY DEF TypeOK, PersistentTypeOK
  <2> QED
    BY <2>1 DEF Entry
<1>2. /\ new \in Seq(Entry) /\ Len(new) = len + 1 /\ new[len + 1] = e
      /\ \A i \in 1..len : new[i] = log[n][i]
  BY <1>1, AppendProperties
<1> HIDE DEF e, new, len
<1>3. /\ LogsOfWinners(H) /\ log[n] \in H /\ UpToTerm(log[n], currentTerm[n]) /\ OwnsTerm(H, n)
  BY DEF LogsInv, LogsOfNode
<1>4. Won(n, currentTerm[n]) /\ currentTerm[n] > 0
  BY DEF ElectionInv, RolesBacked, RoleBacked
<1>5. \A h \in H : h \in Seq(Entry) /\ Explains(h, log[n]) /\ Explains(log[n], h)
  BY <1>3 DEF LogsOfWinners
<1>6. ASSUME NEW h \in H PROVE Explains(h, new) /\ Explains(new, h)
  <2>1. ASSUME NEW i \in 1..Len(new), NEW j \in 1..Len(h), i <= j, new[i].term = h[j].term
        PROVE  \A x \in 1..i : new[x] = h[x]
    <3>1. i # len + 1
      BY <1>1, <1>2, <1>3, <1>5, <2>1 DEF OwnsTerm, len
    <3>2. i \in 1..len
      BY <1>1, <1>2, <3>1
    <3>3. \A x \in 1..i : log[n][x] = h[x]
      BY <1>2, <1>5, <2>1, <3>2 DEF Explains, len
    <3> QED
      BY <1>1, <1>2, <3>2, <3>3
  <2>2. ASSUME NEW i \in 1..Len(h), NEW j \in 1..Len(new), i <= j, h[i].term = new[j].term
        PROVE  \A x \in 1..i : h[x] = new[x]
    <3>1. \E k \in 1..len : i <= k /\ h[i].term = log[n][k].term
      <4>1. CASE j = len + 1
        <5>1. h[i].term = currentTerm[n]
          BY <1>1, <1>2, <2>2, <4>1
        <5>2. i <= len /\ log[n][i].term = currentTerm[n]
          BY <1>3, <5>1 DEF OwnsTerm, len
        <5> QED
          BY <1>5, <5>1, <5>2
      <4>2. CASE j \in 1..len
        BY <1>2, <2>2, <4>2
      <4> QED
        BY <1>1, <1>2, <4>1, <4>2
    <3>2. PICK k \in 1..len : i <= k /\ h[i].term = log[n][k].term
      BY <3>1
    <3>3. \A x \in 1..i : h[x] = log[n][x]
      BY <1>5, <3>2 DEF Explains, len
    <3>4. i \in Nat /\ i <= len
      BY <1>1, <1>5, <3>2
    <3> QED
      BY <1>1, <1>2, <3>3, <3>4
  <2> QED
    BY <2>1, <2>2 DEF Explains
<1>7. Explains(new, new)
  BY <1>2 DEF Explains
<1>8. SortedByTerm(new)
  <2> SUFFICES ASSUME NEW i \in 1..Len(new), NEW j \in 1..Len(new), i <= j PROVE new[i].term <= new[j].term
    BY DEF SortedByTerm
  <2>1. \A x \in 1..len : log[n][x].term \in Nat
    BY <1>1, TermsOfLog DEF len
  <2>2. CASE j = len + 1
    BY <1>1, <1>2, <1>3, <2>1, <2>2 DEF UpToTerm, len
  <2>3. CASE j \in 1..len
    <3>1. i \in 1..len
      BY <1>1, <1>2, <2>3
    <3>2. log[n][i].term <= log[n][j].term
      BY <1>3, <2>3, <3>1 DEF LogsOfWinners, SortedByTerm, len
    <3> QED
      BY <1>2, <2>3, <3>1, <3>2
  <2> QED
    BY <1>1, <1>2, <2>2, <2>3
<1>9. ASSUME NEW i \in 1..Len(new) PROVE new[i].term > 0 /\ \E w \in Server : Won(w, new[i].term)
  <2>1. CASE i = len + 1
    BY <1>1, <1>2, <1>4, <2>1
  <2>2. CASE i \in 1..len
    BY <1>2, <1>3, <2>2 DEF LogsOfWinners, len
  <2> QED
    BY <1>1, <1>2, <2>1, <2>2
<1>10. LogsOfWinners(H \cup {new})
  BY <1>2, <1>3, <1>6, <1>7, <1>8, <1>9 DEF LogsOfWinners
<1> QED
  BY <1>10 DEF new, e

\* A request that was sent before appendLogEntry fits the new log too.
LEMMA SentFromAppended ==
    ASSUME TypeOK, NEW H, LogsInv(H), NEW n \in Server, NEW cmd \in Command, AppendLogEntry(n, cmd),
           NEW K, K = H \cup {log'[n]}, NEW a, NEW g \in H, SentFrom(H, a, g)
    PROVE  SentFrom(K, a, g)'
<1> DEFINE e == [term |-> currentTerm[n], command |-> cmd]
           len == Len(log[n])
<1>1. log[n] \in Seq(Entry) /\ len \in Nat /\ e.term = currentTerm[n] /\ g \in Seq(Entry)
  BY DEF TypeOK, PersistentTypeOK, LogsInv, LogsOfWinners
<1>2. /\ UNCHANGED <<currentTerm, state>> /\ state[n] = "LEADER"
      /\ log'[n] = Append(log[n], e) /\ \A m \in Server \ {n} : log'[m] = log[m]
  BY DEF AppendLogEntry, TypeOK, PersistentTypeOK
<1>3. /\ Len(log'[n]) = len + 1 /\ log'[n][len + 1] = e
      /\ \A i \in 1..len : log'[n][i] = log[n][i]
  BY <1>1, <1>2
<1> HIDE DEF e, len
<1>4. log[n] \in H
  BY DEF LogsInv, LogsOfNode
<1>5. ASSUME NEW h \in K, NEW j \in 1..Len(h), NEW x \in 1..Len(g), h[j].term = a.term, x <= j
      PROVE  h[x] = g[x]
  <2>1. CASE h \in H
    BY <1>5, <2>1 DEF SentFrom
  <2>2. CASE h = log'[n] /\ j \in 1..len
    <3>1. x \in 1..len /\ log[n][j].term = a.term
      BY <1>1, <1>3, <1>5, <2>2
    <3>2. log[n][x] = g[x]
      BY <1>4, <1>5, <2>2, <3>1 DEF SentFrom, len
    <3> QED
      BY <1>3, <2>2, <3>1, <3>2
  <2>3. CASE h = log'[n] /\ j = len + 1
    <3>1. StartsWith(log[n], g)
      BY <1>1, <1>2, <1>3, <1>5, <2>3 DEF SentFrom
    <3>2. x \in 1..len /\ g[x] = log[n][x]
      BY <1>1, <3>1 DEF StartsWith, len
    <3> QED
      BY <1>3, <2>3, <3>2
  <2> QED
    BY <1>1, <1>3, <1>5, <2>1, <2>2, <2>3
<1>6. ASSUME NEW m \in Server, state'[m] = "LEADER", currentTerm'[m] = a.term
      PROVE  StartsWith(log'[m], g)
  <2>1. StartsWith(log[m], g)
    BY <1>2, <1>6 DEF SentFrom
  <2>2. CASE m # n
    BY <1>2, <2>1, <2>2
  <2>3. CASE m = n
    BY <1>1, <1>3, <2>1, <2>3 DEF StartsWith, len
  <2> QED
    BY <2>2, <2>3
<1> QED
  BY <1>5, <1>6 DEF SentFrom

\* appendLogEntry adds one log.
LEMMA AppendLogEntryLogs ==
    ASSUME TypeOK, TypeOK', ElectionInv, NEW H, LogsInv(H), NEW n \in Server, NEW cmd \in Command,
           AppendLogEntry(n, cmd), NEW K, K = H \cup {log'[n]}
    PROVE  LogsInv(K)'
<1> DEFINE e == [term |-> currentTerm[n], command |-> cmd]
           len == Len(log[n])
<1>1. log[n] \in Seq(Entry) /\ currentTerm \in [Server -> Nat] /\ len \in Nat /\ e \in Entry /\ e.term = currentTerm[n]
  <2>1. log[n] \in Seq(Entry) /\ currentTerm \in [Server -> Nat]
    BY DEF TypeOK, PersistentTypeOK
  <2> QED
    BY <2>1 DEF Entry
<1>2. /\ UNCHANGED <<currentTerm, state, disk, task, late, leaders>> /\ state[n] = "LEADER"
      /\ log'[n] = Append(log[n], e) /\ \A m \in Server \ {n} : log'[m] = log[m]
  BY DEF AppendLogEntry, TypeOK, PersistentTypeOK
<1>3. /\ log'[n] \in Seq(Entry) /\ Len(log'[n]) = len + 1 /\ log'[n][len + 1] = e
      /\ \A i \in 1..len : log'[n][i] = log[n][i]
  BY <1>1, <1>2, AppendProperties
<1>4. log'[n] = Append(log[n], [term |-> currentTerm[n], command |-> cmd])
  BY <1>2
<1> HIDE DEF e, len
<1>5. log[n] \in H /\ OwnsTerm(H, n) /\ UpToTerm(log[n], currentTerm[n])
  BY <1>2 DEF LogsInv, LogsOfNode
<1>6. LogsOfWinners(K)'
  <2>1. LogsOfWinners(K)
    BY <1>2, <1>4, AppendedLogFits
  <2> QED
    BY <1>2, <2>1, WinnersStay
<1>7. ASSUME NEW m \in Server PROVE LogsOfNode(K, m)'
  <2>1. LogsOfNode(H, m)
    BY DEF LogsInv
  <2>2. UpToTerm(log'[n], currentTerm[n])
    <3>1. \A i \in 1..len : log[n][i].term <= currentTerm[n]
      BY <1>5 DEF UpToTerm, len
    <3>2. \A i \in 1..Len(log'[n]) : i = len + 1 \/ i \in 1..len
      BY <1>1, <1>3
    <3> QED
      BY <1>1, <1>3, <3>1, <3>2 DEF UpToTerm
  <2> QED
    BY <1>2, <2>1, <2>2 DEF LogsOfNode
<1>8. ASSUME NEW m \in Server, state'[m] = "LEADER", NEW g \in K, NEW i \in 1..Len(g), g[i].term = currentTerm'[m]
      PROVE  i <= Len(log'[m]) /\ log'[m][i].term = currentTerm'[m]
  <2>1. \A k \in H : \A j \in 1..Len(k) : k[j].term = currentTerm[m] =>
            j <= Len(log[m]) /\ log[m][j].term = currentTerm[m]
    BY <1>2, <1>8 DEF LogsInv, OwnsTerm
  <2>2. CASE m = n
    <3>1. CASE g \in H
      <4>1. i \in 1..len /\ log[n][i].term = currentTerm[n]
        <5>1. g \in Seq(Entry)
          BY <3>1 DEF LogsInv, LogsOfWinners
        <5> QED
          BY <1>1, <1>2, <1>8, <2>1, <2>2, <3>1, <5>1 DEF len
      <4> QED
        BY <1>1, <1>2, <1>3, <2>2, <4>1
    <3>2. CASE g = log'[n]
      BY <1>3, <1>8, <2>2, <3>2
    <3> QED
      BY <3>1, <3>2
  <2>3. CASE m # n
    <3>1. currentTerm[m] # currentTerm[n]
      BY <1>2, <1>8, <2>3, LeadersDiffer
    <3>2. CASE g \in H
      BY <1>2, <1>8, <2>1, <2>3, <3>2
    <3>3. CASE g = log'[n]
      <4>1. i \in 1..len
        BY <1>1, <1>2, <1>3, <1>8, <3>1, <3>3
      <4> QED
        BY <1>2, <1>3, <1>5, <1>8, <2>1, <2>3, <3>3, <4>1 DEF len
    <3> QED
      BY <3>2, <3>3
  <2> QED
    BY <2>2, <2>3
<1>9. ASSUME NEW a \in Appends' PROVE \E g \in K : SentFrom(K, a, g)'
  <2>1. a \in Appends
    BY <1>2 DEF Appends
  <2>2. PICK g \in H : SentFrom(H, a, g)
    BY <2>1 DEF LogsInv
  <2>3. SentFrom(K, a, g)'
    BY <2>2, SentFromAppended
  <2> QED
    BY <2>3
<1>10. \A m \in Server : state'[m] = "LEADER" => OwnsTerm(K, m)'
  BY <1>8 DEF OwnsTerm
<1> QED
  BY <1>6, <1>7, <1>9, <1>10 DEF LogsInv
-----------------------------------------------------------------------------
(* Every step *)

\* enqueue adds no AppendEntries request: their arguments are built later.
LEMMA EnqueueNoAppends ==
    ASSUME TypeOK, NEW n \in Server, NEW t, Enqueue(n, t), t.type # "AppendEntriesArgs", late' = late
    PROVE  Appends' \subseteq Appends
<1>1. DOMAIN task' = DOMAIN task /\ \A c \in DOMAIN task : task'[c] = task[c] \/ task'[c] = t
  BY DEF Enqueue
<1> QED
  BY <1>1, NoNewAppends

\* The main thread changes no log; startElection ends a leadership.
LEMMA MainStepLogs ==
    ASSUME TypeOK, TypeOK', NEW H, LogsInv(H), NEW n \in Server, MainStep(n)
    PROVE  LogsInv(H)'
<1>1. /\ currentTerm \in [Server -> Nat] /\ state \in [Server -> {"FOLLOWER", "CANDIDATE", "LEADER"}]
      /\ disk \in [Server -> Disk]
  BY DEF TypeOK, PersistentTypeOK, RoleTypeOK
<1>2. log' = log /\ leaders' = leaders /\ late' = late
  BY DEF MainStep, CheckElectionTimeout, StartElection, ReadState, ReadTerm, ReadLastLogIndex, SendRequestVotes,
         SendAppendEntriesToPeers, ApplyCommittedEntries
<1>3. Appends' \subseteq Appends
  <2>1. CASE SendRequestVotes(n)
    <3>1. PICK t : Enqueue(n, [type |-> "RequestVoteArgs", term |-> main[n].term, candidateId |-> n,
                               lastLogIndex |-> main[n].lastLogIndex, lastLogTerm |-> t])
      BY <2>1 DEF SendRequestVotes
    <3> QED
      BY <1>2, <3>1, EnqueueNoAppends
  <2>2. CASE SendAppendEntriesToPeers(n)
    <3>1. Enqueue(n, Queued) /\ Queued.type # "AppendEntriesArgs"
      BY <2>2 DEF SendAppendEntriesToPeers, Queued
    <3> QED
      BY <1>2, <3>1, EnqueueNoAppends
  <2>3. CASE task' = task
    BY <1>2, <2>3 DEF Appends
  <2> QED
    BY <2>1, <2>2, <2>3
       DEF MainStep, CheckElectionTimeout, StartElection, ReadState, ReadTerm, ReadLastLogIndex, ApplyCommittedEntries
<1>4. CASE StartElection(n)
  <2>1. \A m \in Server : disk'[m].log \in {disk[m].log, log[m]}
    BY <1>1, <1>2, <1>4 DEF StartElection, PersistState
  <2>2. \A m \in Server : currentTerm[m] <= currentTerm'[m]
    BY <1>1, <1>4 DEF StartElection
  <2>3. \A m \in Server : state'[m] = "LEADER" => state[m] = "LEADER" /\ currentTerm'[m] = currentTerm[m]
    BY <1>1, <1>4 DEF StartElection
  <2> QED
    BY <1>2, <1>3, <2>1, <2>2, <2>3, LogsUntouched
<1>5. CASE UNCHANGED <<currentTerm, state, disk>>
  BY <1>1, <1>2, <1>3, <1>5, LogsUntouched
<1> QED
  BY <1>4, <1>5 DEF MainStep, CheckElectionTimeout, ReadState, ReadTerm, ReadLastLogIndex, SendRequestVotes,
                    SendAppendEntriesToPeers, ApplyCommittedEntries

\* A node that learns of a newer term keeps its log.
LEMMA StepDownLogs ==
    ASSUME TypeOK, TypeOK', NEW H, LogsInv(H), NEW n \in Server, NEW t \in Nat, t > currentTerm[n],
           StepDown(n, t), leaders' = leaders, Appends' \subseteq Appends
    PROVE  LogsInv(H)'
<1>1. /\ currentTerm \in [Server -> Nat] /\ state \in [Server -> {"FOLLOWER", "CANDIDATE", "LEADER"}]
      /\ disk \in [Server -> Disk]
  BY DEF TypeOK, PersistentTypeOK, RoleTypeOK
<1>2. log' = log /\ \A m \in Server : disk'[m].log \in {disk[m].log, log[m]}
  BY <1>1 DEF StepDown, PersistState
<1>3. \A m \in Server : currentTerm[m] <= currentTerm'[m]
  BY <1>1 DEF StepDown
<1>4. \A m \in Server : state'[m] = "LEADER" => state[m] = "LEADER" /\ currentTerm'[m] = currentTerm[m]
  BY <1>1 DEF StepDown
<1> QED
  BY <1>2, <1>3, <1>4, LogsUntouched

\* A worker of the RPC pool, or the peer it calls.
LEMMA CallStepLogs ==
    ASSUME TypeOK, TypeOK', ElectionInv, ElectionInv', NEW H, LogsInv(H), NEW c \in DOMAIN task, CallStep(c)
    PROVE  LogsInv(H)'
<1> DEFINE n == c[1]
           p == c[2]
<1>1. c \in Server \X Server \X Slot /\ n \in Server /\ p \in Server /\ task[c] \in Task
      /\ task \in [Server \X Server \X Slot -> Task]
  BY DEF TypeOK, ProcessTypeOK
<1>2. ASSUME NEW t, task' = [task EXCEPT ![c] = t], t.type # "AppendEntriesArgs", late' = late
      PROVE  Appends' \subseteq Appends
  BY <1>2, NoNewAppendsOfCall
<1>3. Idle.type # "AppendEntriesArgs"
  BY DEF Idle
<1>4. ASSUME UNCHANGED <<currentTerm, state, log, disk, leaders>>, Appends' \subseteq Appends
      PROVE  LogsInv(H)'
  <2>1. \A m \in Server : currentTerm[m] <= currentTerm'[m]
    BY <1>4 DEF TypeOK, PersistentTypeOK
  <2> QED
    BY <1>4, <2>1, LogsUntouched
<1>5. CASE CreateAppendEntries(c)
  <2> DEFINE args == CreateAppendEntriesArgs(n, p)
  <2>1. /\ task' = [task EXCEPT ![c] = args]
        /\ UNCHANGED <<currentTerm, state, log, disk, late, leaders>>
    BY <1>5 DEF CreateAppendEntries
  <2>2. \A g, a : SentFrom(H, a, g)' <=> SentFrom(H, a, g)
    BY <2>1 DEF SentFrom
  <2>3. \E g \in H : SentFrom(H, args, g)
    <3>1. log[n] \in H /\ <<>> \in H
      BY <1>1 DEF LogsInv, LogsOfWinners, LogsOfNode
    <3> QED
      BY <1>1, <3>1, CreateAppendLogs
  <2> HIDE DEF args
  <2>4. \A a \in Appends' : a \in Appends \/ a = args
    BY <1>1, <2>1 DEF Appends
  <2>5. \A m \in Server : LogsOfNode(H, m)'
    BY <2>1 DEF LogsInv, LogsOfNode
  <2> QED
    BY <2>1, <2>2, <2>3, <2>4, <2>5, LogsKept
<1>6. CASE DeliverRequestVote(c)
  <2>1. /\ task[c] \in RequestVoteArgs /\ RequestVoteStep(p, task[c])
        /\ task' = [task EXCEPT ![c] = RequestVoteReplyTo(p, task[c])] /\ late' = late
        /\ RequestVoteReplyTo(p, task[c]).type # "AppendEntriesArgs"
    BY <1>6 DEF DeliverRequestVote, Answer, RequestVoteReplyTo
  <2> QED
    BY <1>1, <1>2, <2>1, RequestVoteLogs
<1>7. CASE DeliverAppendEntries(c)
  <2>1. /\ task[c] \in AppendEntriesArgs /\ AppendEntriesStep(p, task[c])
        /\ task' = [task EXCEPT ![c] = AppendEntriesReplyTo(p, task[c])] /\ late' = late
    BY <1>7 DEF DeliverAppendEntries, Answer
  <2>2. AppendEntriesReplyTo(p, task[c]).type # "AppendEntriesArgs"
    BY DEF AppendEntriesReplyTo, ConsistencyReply, AppendReply
  <2>3. task[c] \in Appends
    BY <2>1 DEF Appends, AppendEntriesArgs
  <2>4. PICK g \in H : SentFrom(H, task[c], g)
    BY <2>3 DEF LogsInv
  <2> QED
    BY <1>1, <1>2, <2>1, <2>2, <2>4, AppendEntriesLogs
<1>8. CASE HandleVoteResponse(c)
  <2>1. /\ task[c].term \in Nat /\ task' = [task EXCEPT ![c] = Idle] /\ late' = late
    BY <1>8 DEF HandleVoteResponse, RequestVoteReply
  <2>2. Appends' \subseteq Appends
    BY <1>2, <1>3, <2>1
  <2>3. CASE UNCHANGED <<raftVars, log, disk, leaders>>
    BY <1>4, <2>2, <2>3
  <2>4. CASE task[c].term > currentTerm[n] /\ StepDown(n, task[c].term) /\ UNCHANGED leaders
    BY <1>1, <2>1, <2>2, <2>4, StepDownLogs
  <2>5. CASE ~IgnoreVoteResponse(n, task[c]) /\ CountVote(n, p) /\ UNCHANGED <<log, disk>>
    <3>1. CASE BecomeLeader(n)
      <4>1. state[n] = "CANDIDATE"
        BY <2>5 DEF IgnoreVoteResponse
      <4> QED
        BY <1>1, <2>2, <2>5, <3>1, <4>1, BecomeLeaderLogs
    <3>2. CASE UNCHANGED <<currentTerm, state, leaders>>
      BY <1>4, <2>2, <2>5, <3>2
    <3> QED
      BY <2>5, <3>1, <3>2 DEF CountVote
  <2> QED
    BY <1>8, <2>3, <2>4, <2>5 DEF HandleVoteResponse
<1>9. CASE HandleAppendEntriesResponse(c)
  <2>1. /\ task[c].term \in Nat /\ task' = [task EXCEPT ![c] = Idle] /\ UNCHANGED <<late, leaders>>
    BY <1>9 DEF HandleAppendEntriesResponse, AppendEntriesReply
  <2>2. Appends' \subseteq Appends
    BY <1>2, <1>3, <2>1
  <2>3. CASE UNCHANGED <<raftVars, log, disk>>
    BY <1>4, <2>1, <2>2, <2>3
  <2>4. CASE task[c].term > currentTerm[n] /\ StepDown(n, task[c].term)
    BY <1>1, <2>1, <2>2, <2>4, StepDownLogs
  <2> QED
    BY <1>9, <2>3, <2>4 DEF HandleAppendEntriesResponse
<1>10. CASE LoseCall(c)
  BY <1>2, <1>3, <1>4, <1>10 DEF LoseCall
<1>11. CASE TimeoutCall(c)
  <2>1. /\ UNCHANGED <<currentTerm, state, log, disk, leaders>>
        /\ task' = [task EXCEPT ![c] = Idle] /\ late' = late \cup {[to |-> p, args |-> task[c]]}
    BY <1>11 DEF TimeoutCall
  <2>2. /\ DOMAIN task' = DOMAIN task /\ task'[c] = Idle
        /\ \A d \in DOMAIN task : d # c => task'[d] = task[d]
    BY <1>1, <2>1
  <2>3. Appends' \subseteq Appends
    BY <1>3, <2>1, <2>2, NoNewAppends
  <2> QED
    BY <1>4, <2>1, <2>3
<1> QED
  BY <1>5, <1>6, <1>7, <1>8, <1>9, <1>10, <1>11 DEF CallStep

\* Late requests, the persistence thread and restarts.
LEMMA OtherStepLogs ==
    ASSUME TypeOK, TypeOK', ElectionInv, NEW H, LogsInv(H),
           \/ \E m \in late : DeliverLate(m)
           \/ \E n \in Server : PersistThread(n)
           \/ \E n \in Server : Restart(n)
    PROVE  LogsInv(H)'
<1>1. /\ currentTerm \in [Server -> Nat] /\ state \in [Server -> {"FOLLOWER", "CANDIDATE", "LEADER"}]
      /\ disk \in [Server -> Disk] /\ log \in [Server -> Seq(Entry)]
  BY DEF TypeOK, PersistentTypeOK, RoleTypeOK
<1>2. CASE \E m \in late : DeliverLate(m)
  <2> PICK m \in late : DeliverLate(m)
    BY <1>2
  <2>1. m.to \in Server /\ task' = task /\ late' \subseteq late
    BY DEF TypeOK, ProcessTypeOK, DeliverLate, Discard
  <2>2. Appends' \subseteq Appends
    BY <2>1 DEF Appends
  <2>3. CASE m.args \in RequestVoteArgs /\ RequestVoteStep(m.to, m.args)
    BY <2>1, <2>2, <2>3, RequestVoteLogs
  <2>4. CASE m.args \in AppendEntriesArgs /\ AppendEntriesStep(m.to, m.args)
    <3>1. m.args \in Appends
      BY <2>4 DEF Appends, AppendEntriesArgs
    <3>2. PICK g \in H : SentFrom(H, m.args, g)
      BY <3>1 DEF LogsInv
    <3> QED
      BY <2>1, <2>2, <2>4, <3>2, AppendEntriesLogs
  <2> QED
    BY <2>3, <2>4 DEF DeliverLate
<1>3. CASE \E n \in Server : PersistThread(n)
  <2> PICK n \in Server : PersistThread(n)
    BY <1>3
  <2>1. UNCHANGED <<currentTerm, state, log, task, late, leaders>>
    BY DEF PersistThread
  <2>2. \A m \in Server : disk'[m].log \in {disk[m].log, log[m]}
    BY <1>1, <2>1 DEF PersistThread, PersistState
  <2>3. Appends' \subseteq Appends
    BY <2>1 DEF Appends
  <2>4. \A m \in Server : currentTerm[m] <= currentTerm'[m]
    BY <1>1, <2>1
  <2> QED
    BY <2>1, <2>2, <2>3, <2>4, LogsUntouched
<1>4. CASE \E n \in Server : Restart(n)
  <2> PICK n \in Server : Restart(n)
    BY <1>4
  <2>1. /\ UNCHANGED <<disk, late, leaders>> /\ state'[n] = "FOLLOWER"
        /\ currentTerm' = [currentTerm EXCEPT ![n] = disk[n].term] /\ log' = [log EXCEPT ![n] = disk[n].log]
        /\ \A m \in Server \ {n} : state'[m] = state[m]
        /\ task' = [c \in DOMAIN task |-> IF c[1] = n THEN Idle ELSE task[c]]
    BY <1>1 DEF Restart
  <2>2. currentTerm' = currentTerm
    BY <1>1, <2>1 DEF ElectionInv, TermAndVoteDurable
  <2>3. \A m \in Server : LogsOfNode(H, m)'
    BY <1>1, <2>1, <2>2 DEF LogsInv, LogsOfNode
  <2>4. Appends' \subseteq Appends
    BY <2>1 DEF Appends, Idle
  <2> QED
    BY <1>1, <2>1, <2>2, <2>3, <2>4, LogsKept
<1> QED
  BY <1>2, <1>3, <1>4

\* Nothing but appendLogEntry makes a log that was not there before.
LEMMA OnlyAppendAddsLogs ==
    ASSUME TypeOK, TypeOK', ElectionInv, ElectionInv', NEW H, LogsInv(H), [Next]_vars,
           ~\E n \in Server, cmd \in Command : AppendLogEntry(n, cmd)
    PROVE  LogsInv(H)'
<1>1. CASE UNCHANGED vars
  <2>1. Appends' \subseteq Appends
    BY <1>1 DEF Appends
  <2>2. \A n \in Server : currentTerm[n] <= currentTerm'[n]
    BY <1>1 DEF TypeOK, PersistentTypeOK
  <2> QED
    BY <1>1, <2>1, <2>2, LogsUntouched
<1> QED
  BY <1>1, MainStepLogs, CallStepLogs, OtherStepLogs DEF Next

\* The logs the next state is explained by: those there were, and the ones the
\* nodes have now.
LEMMA NextLogs ==
    ASSUME TypeOK, TypeOK', ElectionInv, ElectionInv', NEW H, LogsInv(H), [Next]_vars,
           NEW K, K = H \cup {log'[n] : n \in Server}
    PROVE  LogsInv(K)'
<1>1. CASE \E n \in Server, cmd \in Command : AppendLogEntry(n, cmd)
  <2> PICK n \in Server, cmd \in Command : AppendLogEntry(n, cmd)
    BY <1>1
  <2>1. \A m \in Server \ {n} : log'[m] \in H
    BY DEF AppendLogEntry, LogsInv, LogsOfNode, TypeOK, PersistentTypeOK
  <2>2. K = H \cup {log'[n]}
    BY <2>1
  <2> QED
    BY <2>2, AppendLogEntryLogs
<1>2. CASE ~\E n \in Server, cmd \in Command : AppendLogEntry(n, cmd)
  <2>1. LogsInv(H)'
    BY <1>2, OnlyAppendAddsLogs
  <2>2. \A n \in Server : log'[n] \in H
    BY <2>1 DEF LogsInv, LogsOfNode
  <2>3. K = H
    BY <2>2
  <2> QED
    BY <2>1, <2>3
<1> QED
  BY <1>1, <1>2

\* In the beginning there is only the empty log.
LEMMA InitLogs == Init => LogsInv({<<>>})
<1> SUFFICES ASSUME Init PROVE LogsInv({<<>>})
  OBVIOUS
<1>1. LogsOfWinners({<<>>})
  BY DEF LogsOfWinners, Explains, SortedByTerm
<1>2. \A n \in Server : LogsOfNode({<<>>}, n) /\ state[n] # "LEADER"
  BY DEF Init, LogsOfNode, UpToTerm
<1>3. Appends = {}
  BY DEF Init, Appends, Idle
<1> QED
  BY <1>1, <1>2, <1>3 DEF LogsInv

\* At any time one set of logs that explain each other accounts for every log
\* and every AppendEntries request, across late requests and crashes that lose
\* entries.
THEOREM LogsExplainedAlways == Spec => []LogsExplained
<1>1. Init => LogsExplained
  <2>1. {<<>>} \in SUBSET Seq(Entry)
    OBVIOUS
  <2> QED
    BY <2>1, InitLogs DEF LogsExplained
<1>2. TypeOK /\ TypeOK' /\ ElectionInv /\ ElectionInv' /\ LogsExplained /\ [Next]_vars => LogsExplained'
  <2> SUFFICES ASSUME TypeOK, TypeOK', ElectionInv, ElectionInv', LogsExplained, [Next]_vars
               PROVE  LogsExplained'
    OBVIOUS
  <2>1. PICK H \in SUBSET Seq(Entry) : LogsInv(H)
    BY DEF LogsExplained
  <2>2. PICK K : K = H \cup {log'[n] : n \in Server}
    OBVIOUS
  <2>3. LogsInv(K)'
    BY <2>1, <2>2, NextLogs
  <2>4. K \in SUBSET Seq(Entry)
    BY <2>3 DEF LogsInv, LogsOfWinners
  <2> QED
    BY <2>3, <2>4 DEF LogsExplained
<1> QED
  BY <1>1, <1>2, TypeCorrect, ElectionInvariant, PTL DEF Spec

\* Two logs with an entry of one term agree up to the smaller of the two
\* indexes, for any number of nodes, and however client commands overlap with
\* calls under way or crashes lose what was not saved.
THEOREM LogsMatchAlways == Spec => []LogMatching
<1>1. TypeOK /\ LogsExplained => LogMatching
  <2> SUFFICES ASSUME TypeOK, NEW H, LogsInv(H), NEW m \in Server, NEW n \in Server,
                      NEW i \in DOMAIN log[m], NEW j \in DOMAIN log[n], i <= j, log[m][i].term = log[n][j].term
               PROVE  SubSeq(log[m], 1, i) = SubSeq(log[n], 1, i)
    BY DEF LogMatching, LogsExplained
  <2>1. log[m] \in Seq(Entry) /\ log[n] \in Seq(Entry)
    BY DEF TypeOK, PersistentTypeOK
  <2>2. Explains(log[n], log[m])
    BY DEF LogsInv, LogsOfNode, LogsOfWinners
  <2>3. i \in 1..Len(log[m]) /\ i \in 1..Len(log[n]) /\ j \in 1..Len(log[n])
    BY <2>1
  <2>4. \A x \in 1..i : log[m][x] = log[n][x]
    BY <2>2, <2>3 DEF Explains
  <2> QED
    BY <2>1, <2>3, <2>4, SamePrefix
<1> QED
  BY <1>1, TypeCorrect, LogsExplainedAlways, PTL
-----------------------------------------------------------------------------
(* Vote requests carry the candidate's log *)

Requests == {a \in {task[c] : c \in DOMAIN task} \cup {m.args : m \in late} : a.type = "RequestVoteArgs"}

\* A request is of a term its candidate has reached; while the candidate is one
\* in that term, the request describes its log.
RequestMatches(a) ==
    LET c == a.candidateId
    IN  /\ a.term <= currentTerm[c]
        /\ state[c] = "CANDIDATE" /\ a.term = currentTerm[c] =>
              a.lastLogIndex = Len(log[c]) /\ a.lastLogTerm = LastTerm(log[c])

\* The same for a request that sendRequestVotesToPeers is putting together.
LocalsMatch(n) ==
    /\ main[n].pc \in {"haveTerm", "haveIndex"} => main[n].term <= currentTerm[n]
    /\ main[n].pc = "haveIndex" /\ LogIsStable(n) => main[n].lastLogIndex = Len(log[n])

RequestsInv ==
    /\ \A n \in Server : LocalsMatch(n)
    /\ \A a \in Requests : RequestMatches(a)
    /\ \A u \in votes : u.term <= currentTerm[u.candidate]

\* Terms never decrease, and a node that remains a candidate keeps its log.
CandidatesKeepLog ==
    /\ \A n \in Server : currentTerm[n] <= currentTerm'[n]
    /\ \A n \in Server : state'[n] = "CANDIDATE" /\ currentTerm'[n] = currentTerm[n] =>
           state[n] = "CANDIDATE" /\ log'[n] = log[n]

\* handleRequestVote.
LEMMA RequestVoteKeepsLog ==
    ASSUME TypeOK, NEW p \in Server, NEW args \in RequestVoteArgs, RequestVoteStep(p, args)
    PROVE  CandidatesKeepLog
<1>1. /\ currentTerm \in [Server -> Nat] /\ state \in [Server -> {"FOLLOWER", "CANDIDATE", "LEADER"}]
      /\ args.term \in Nat
  BY DEF TypeOK, PersistentTypeOK, RoleTypeOK, RequestVoteArgs
<1> QED
  BY <1>1 DEF RequestVoteStep, HandleRequestVote, CandidatesKeepLog

\* handleAppendEntries: whoever writes its log is a follower afterwards.
LEMMA AppendEntriesKeepsLog ==
    ASSUME TypeOK, NEW p \in Server, NEW args \in AppendEntriesArgs, AppendEntriesStep(p, args)
    PROVE  CandidatesKeepLog
<1>1. /\ currentTerm \in [Server -> Nat] /\ state \in [Server -> {"FOLLOWER", "CANDIDATE", "LEADER"}]
      /\ args.term \in Nat /\ log \in [Server -> Seq(Entry)]
  BY DEF TypeOK, PersistentTypeOK, RoleTypeOK, AppendEntriesArgs
<1>2. CASE UNCHANGED <<raftVars, log>>
  BY <1>1, <1>2 DEF CandidatesKeepLog
<1>3. CASE args.term >= currentTerm[p] /\ AcceptLeader(p, args) /\ \A n \in Server \ {p} : log'[n] = log[n]
  BY <1>1, <1>3 DEF AcceptLeader, CandidatesKeepLog
<1> QED
  BY <1>1, <1>2, <1>3 DEF AppendEntriesStep, HandleAppendEntries

\* A node that learns of a newer term.
LEMMA StepDownKeepsLog ==
    ASSUME TypeOK, NEW n \in Server, NEW t \in Nat, t > currentTerm[n], StepDown(n, t)
    PROVE  CandidatesKeepLog
<1>1. /\ currentTerm \in [Server -> Nat] /\ state \in [Server -> {"FOLLOWER", "CANDIDATE", "LEADER"}]
  BY DEF TypeOK, PersistentTypeOK, RoleTypeOK
<1> QED
  BY <1>1 DEF StepDown, CandidatesKeepLog

\* Every step.
LEMMA NextKeepsLog ==
    ASSUME TypeOK, ElectionInv, [Next]_vars
    PROVE  CandidatesKeepLog
<1>1. /\ currentTerm \in [Server -> Nat] /\ state \in [Server -> {"FOLLOWER", "CANDIDATE", "LEADER"}]
      /\ log \in [Server -> Seq(Entry)]
  BY DEF TypeOK, PersistentTypeOK, RoleTypeOK
<1>2. CASE UNCHANGED <<currentTerm, state, log>>
  BY <1>1, <1>2 DEF CandidatesKeepLog
<1>3. ASSUME NEW n \in Server, MainStep(n) PROVE CandidatesKeepLog
  <2>1. CASE StartElection(n)
    BY <1>1, <2>1 DEF StartElection, CandidatesKeepLog
  <2> QED
    BY <1>2, <1>3, <2>1 DEF MainStep, CheckElectionTimeout, ReadState, ReadTerm, ReadLastLogIndex, SendRequestVotes,
                            SendAppendEntriesToPeers, ApplyCommittedEntries
<1>4. ASSUME NEW c \in DOMAIN task, CallStep(c) PROVE CandidatesKeepLog
  <2>1. c[1] \in Server /\ c[2] \in Server
    BY <1>4 DEF TypeOK, ProcessTypeOK
  <2>2. CASE DeliverRequestVote(c)
    BY <2>1, <2>2, RequestVoteKeepsLog DEF DeliverRequestVote
  <2>3. CASE DeliverAppendEntries(c)
    BY <2>1, <2>3, AppendEntriesKeepsLog DEF DeliverAppendEntries
  <2>4. CASE HandleVoteResponse(c)
    <3>1. task[c].term \in Nat
      BY <2>4 DEF HandleVoteResponse, RequestVoteReply
    <3>2. CASE task[c].term > currentTerm[c[1]] /\ StepDown(c[1], task[c].term)
      BY <2>1, <3>1, <3>2, StepDownKeepsLog
    <3>3. CASE CountVote(c[1], c[2]) /\ UNCHANGED log
      BY <1>1, <2>1, <3>3 DEF CountVote, BecomeLeader, CandidatesKeepLog
    <3> QED
      BY <1>2, <2>4, <3>2, <3>3 DEF HandleVoteResponse
  <2>5. CASE HandleAppendEntriesResponse(c)
    <3>1. task[c].term \in Nat
      BY <2>5 DEF HandleAppendEntriesResponse, AppendEntriesReply
    <3>2. CASE task[c].term > currentTerm[c[1]] /\ StepDown(c[1], task[c].term)
      BY <2>1, <3>1, <3>2, StepDownKeepsLog
    <3> QED
      BY <1>2, <2>5, <3>2 DEF HandleAppendEntriesResponse
  <2> QED
    BY <1>2, <1>4, <2>2, <2>3, <2>4, <2>5 DEF CallStep, CreateAppendEntries, LoseCall, TimeoutCall
<1>5. ASSUME NEW m \in late, DeliverLate(m) PROVE CandidatesKeepLog
  <2>1. m.to \in Server
    BY DEF TypeOK, ProcessTypeOK
  <2> QED
    BY <1>5, <2>1, RequestVoteKeepsLog, AppendEntriesKeepsLog DEF DeliverLate
<1>6. ASSUME NEW n \in Server, NEW cmd \in Command, AppendLogEntry(n, cmd) PROVE CandidatesKeepLog
  BY <1>1, <1>6 DEF AppendLogEntry, CandidatesKeepLog
<1>7. ASSUME NEW n \in Server, Restart(n) PROVE CandidatesKeepLog
  <2>1. currentTerm' = currentTerm
    BY <1>1, <1>7 DEF Restart, ElectionInv, TermAndVoteDurable
  <2> QED
    BY <1>1, <1>7, <2>1 DEF Restart, CandidatesKeepLog
<1>8. ASSUME NEW n \in Server, PersistThread(n) PROVE CandidatesKeepLog
  BY <1>2, <1>8 DEF PersistThread
<1> QED
  BY <1>2, <1>3, <1>4, <1>5, <1>6, <1>7, <1>8 DEF Next

\* What was in order stays so; it is enough to look at what is new.
LEMMA RequestsKept ==
    ASSUME TypeOK, TypeOK', RequestsInv, CandidatesKeepLog,
           \A n \in Server : main'[n] = main[n] \/ LocalsMatch(n)',
           \A a \in Requests' : a \in Requests \/ RequestMatches(a)',
           \A u \in votes' : u \in votes \/ u.term <= currentTerm'[u.candidate]
    PROVE  RequestsInv'
<1>1. /\ currentTerm \in [Server -> Nat] /\ currentTerm' \in [Server -> Nat]
      /\ \A n \in Server : main[n].term \in Nat
      /\ \A u \in votes : u.term \in Nat /\ u.candidate \in Server
      /\ \A a \in Requests : a.term \in Nat /\ a.candidateId \in Server
  <2>1. \A a \in Requests : a \in RequestVoteArgs
    <3>1. \A t \in Task : t.type = "RequestVoteArgs" => t \in RequestVoteArgs
      BY DEF Task, Idle, Queued, Request, Reply, AppendEntriesArgs, RequestVoteReply, AppendEntriesReply
    <3>2. \A m \in late : m.args \in Task
      BY DEF TypeOK, ProcessTypeOK, Task
    <3>3. \A c \in DOMAIN task : task[c] \in Task
      BY DEF TypeOK, ProcessTypeOK
    <3> QED
      BY <3>1, <3>2, <3>3 DEF Requests
  <2> QED
    BY <2>1 DEF TypeOK, PersistentTypeOK, ProcessTypeOK, HistoryTypeOK, Vote, RequestVoteArgs
<1>2. ASSUME NEW n \in Server PROVE LocalsMatch(n)'
  <2>1. LocalsMatch(n) /\ main[n].term \in Nat
    BY <1>1 DEF RequestsInv
  <2>2. currentTerm[n] \in Nat /\ currentTerm'[n] \in Nat /\ currentTerm[n] <= currentTerm'[n]
    BY <1>1 DEF CandidatesKeepLog
  <2>3. CASE main'[n] = main[n]
    BY <2>1, <2>2, <2>3 DEF LocalsMatch, LogIsStable, CandidatesKeepLog
  <2> QED
    BY <2>3
<1>3. ASSUME NEW a \in Requests PROVE RequestMatches(a)'
  <2>1. RequestMatches(a) /\ a.term \in Nat /\ a.candidateId \in Server
    BY <1>1 DEF RequestsInv
  <2>2. currentTerm[a.candidateId] \in Nat /\ currentTerm'[a.candidateId] \in Nat
        /\ currentTerm[a.candidateId] <= currentTerm'[a.candidateId]
    BY <1>1, <2>1 DEF CandidatesKeepLog
  <2> QED
    BY <2>1, <2>2 DEF RequestMatches, CandidatesKeepLog
<1>4. ASSUME NEW u \in votes PROVE u.term <= currentTerm'[u.candidate]
  <2>1. u.term <= currentTerm[u.candidate] /\ currentTerm[u.candidate] <= currentTerm'[u.candidate]
    BY <1>1 DEF RequestsInv, CandidatesKeepLog
  <2> QED
    BY <1>1, <2>1
<1> QED
  BY <1>2, <1>3, <1>4 DEF RequestsInv

\* enqueue puts nothing but its argument into the pool.
LEMMA EnqueueRequests ==
    ASSUME NEW n \in Server, NEW t, Enqueue(n, t), late' = late
    PROVE  \A a \in Requests' : a \in Requests \/ (a = t /\ t.type = "RequestVoteArgs")
<1>1. DOMAIN task' = DOMAIN task /\ \A c \in DOMAIN task : task'[c] = task[c] \/ task'[c] = t
  BY DEF Enqueue
<1> QED
  BY <1>1 DEF Requests

\* The main thread reads its term and its log while other threads run.
LEMMA MainStepRequests ==
    ASSUME TypeOK, TypeOK', RequestsInv, CandidatesKeepLog, NEW n \in Server, MainStep(n)
    PROVE  RequestsInv'
<1>1. /\ currentTerm \in [Server -> Nat] /\ main \in [Server -> [pc : MainPC, term : Nat, lastLogIndex : Nat]]
      /\ \A m \in Server : LocalsMatch(m)
  BY DEF TypeOK, PersistentTypeOK, ProcessTypeOK, RequestsInv
<1>2. ASSUME main'[n].pc \notin {"haveTerm", "haveIndex"} PROVE LocalsMatch(n)'
  BY <1>2 DEF LocalsMatch
<1>3. late' = late
  BY DEF MainStep, CheckElectionTimeout, StartElection, ReadState, ReadTerm, ReadLastLogIndex, SendRequestVotes,
         SendAppendEntriesToPeers, ApplyCommittedEntries
<1>4. ASSUME task' = task PROVE Requests' = Requests
  BY <1>3, <1>4 DEF Requests
<1>5. CASE CheckElectionTimeout(n) \/ ReadState(n)
  <2>1. main'[n].pc \notin {"haveTerm", "haveIndex"} /\ \A m \in Server \ {n} : main'[m] = main[m]
    BY <1>1, <1>5 DEF CheckElectionTimeout, ReadState, AtLoop
  <2>2. task' = task /\ votes' = votes
    BY <1>5 DEF CheckElectionTimeout, ReadState
  <2> QED
    BY <1>2, <1>4, <2>1, <2>2, RequestsKept
<1>6. CASE StartElection(n)
  <2>1. main'[n].pc \notin {"haveTerm", "haveIndex"} /\ \A m \in Server \ {n} : main'[m] = main[m]
    BY <1>1, <1>6 DEF StartElection
  <2> DEFINE new == [term |-> currentTerm[n] + 1, voter |-> n, candidate |-> n]
  <2>2. task' = task /\ votes' = votes \cup {new}
    BY <1>6 DEF StartElection
  <2>3. new.term <= currentTerm'[new.candidate]
    BY <1>1, <1>6 DEF StartElection
  <2> HIDE DEF new
  <2> QED
    BY <1>2, <1>4, <2>1, <2>2, <2>3, RequestsKept
<1>7. CASE ReadTerm(n)
  <2>1. /\ main'[n].term = currentTerm[n] /\ main'[n].pc = "haveTerm"
        /\ \A m \in Server \ {n} : main'[m] = main[m]
        /\ UNCHANGED <<task, votes, currentTerm>>
    BY <1>1, <1>7 DEF ReadTerm
  <2>2. LocalsMatch(n)'
    BY <1>1, <2>1 DEF LocalsMatch
  <2> QED
    BY <1>4, <2>1, <2>2, RequestsKept
<1>8. CASE ReadLastLogIndex(n)
  <2>1. PICK i \in RacyLastLogIndex(n) : main' = [main EXCEPT ![n] = [@ EXCEPT !.pc = "haveIndex", !.lastLogIndex = i]]
    BY <1>8 DEF ReadLastLogIndex
  <2>2. /\ main'[n].term = main[n].term /\ main'[n].lastLogIndex = i /\ main[n].pc = "haveTerm"
        /\ \A m \in Server \ {n} : main'[m] = main[m]
        /\ UNCHANGED <<task, votes, currentTerm, state, log>>
    BY <1>1, <1>8, <2>1 DEF ReadLastLogIndex
  <2>3. LogIsStable(n)' => i = Len(log'[n])
    BY <2>1, <2>2 DEF RacyLastLogIndex, LogIsStable
  <2>4. LocalsMatch(n)'
    BY <1>1, <2>2, <2>3 DEF LocalsMatch
  <2> QED
    BY <1>4, <2>2, <2>4, RequestsKept
<1>9. CASE SendRequestVotes(n)
  <2>1. PICK t \in RacyLastLogTerm(n) :
            Enqueue(n, [type |-> "RequestVoteArgs", term |-> main[n].term, candidateId |-> n,
                        lastLogIndex |-> main[n].lastLogIndex, lastLogTerm |-> t])
    BY <1>9 DEF SendRequestVotes
  <2> PICK a : a = [type |-> "RequestVoteArgs", term |-> main[n].term, candidateId |-> n,
                    lastLogIndex |-> main[n].lastLogIndex, lastLogTerm |-> t]
    OBVIOUS
  <2>2. /\ a.term = main[n].term /\ a.candidateId = n /\ a.lastLogIndex = main[n].lastLogIndex /\ a.lastLogTerm = t
    OBVIOUS
  <2>3. \A b \in Requests' : b \in Requests \/ b = a
    BY <1>3, <2>1, EnqueueRequests
  <2>4. /\ main[n].pc = "haveIndex" /\ main'[n].pc \notin {"haveTerm", "haveIndex"}
        /\ \A m \in Server \ {n} : main'[m] = main[m]
        /\ UNCHANGED <<votes, currentTerm, state, log>>
    BY <1>1, <1>9 DEF SendRequestVotes, AtLoop
  <2>5. RequestMatches(a)'
    <3>1. main[n].term <= currentTerm[n] /\ (LogIsStable(n) => main[n].lastLogIndex = Len(log[n]))
      BY <1>1, <2>4 DEF LocalsMatch
    <3>2. LogIsStable(n) => t = LastTerm(log[n])
      BY <2>1 DEF RacyLastLogTerm
    <3> QED
      BY <2>2, <2>4, <3>1, <3>2 DEF RequestMatches, LogIsStable
  <2> QED
    BY <1>2, <2>3, <2>4, <2>5, RequestsKept
<1>10. CASE SendAppendEntriesToPeers(n)
  <2>1. Enqueue(n, Queued) /\ UNCHANGED <<main, votes>> /\ Queued.type # "RequestVoteArgs"
    BY <1>10 DEF SendAppendEntriesToPeers, Queued
  <2>2. Requests' \subseteq Requests
    BY <1>3, <2>1, EnqueueRequests
  <2> QED
    BY <2>1, <2>2, RequestsKept
<1>11. CASE ApplyCommittedEntries(n)
  <2>1. UNCHANGED <<main, votes, task>>
    BY <1>11 DEF ApplyCommittedEntries
  <2> QED
    BY <1>4, <2>1, RequestsKept
<1> QED
  BY <1>5, <1>6, <1>7, <1>8, <1>9, <1>10, <1>11 DEF MainStep

\* handleRequestVote: the vote is for a candidate of a term it has reached.
LEMMA RequestVoteRequests ==
    ASSUME TypeOK, TypeOK', RequestsInv, CandidatesKeepLog, NEW p \in Server, NEW args \in RequestVoteArgs,
           args \in Requests, RequestVoteStep(p, args), Requests' \subseteq Requests
    PROVE  RequestsInv'
<1>1. /\ args.term \in Nat /\ args.candidateId \in Server
      /\ currentTerm \in [Server -> Nat] /\ currentTerm' \in [Server -> Nat]
  BY DEF TypeOK, PersistentTypeOK, RequestVoteArgs
<1>2. args.term <= currentTerm'[args.candidateId]
  <2>1. args.term <= currentTerm[args.candidateId]
    BY DEF RequestsInv, RequestMatches
  <2>2. currentTerm[args.candidateId] <= currentTerm'[args.candidateId]
    BY <1>1 DEF CandidatesKeepLog
  <2> QED
    BY <1>1, <2>1, <2>2
<1>3. \A u \in votes' : u \in votes \/ (u.term = args.term /\ u.candidate = args.candidateId)
  BY DEF RequestVoteStep, HandleRequestVote
<1>4. main' = main
  BY DEF RequestVoteStep
<1> QED
  BY <1>2, <1>3, <1>4, RequestsKept

\* Every step keeps the requests in order.
LEMMA NextRequests ==
    ASSUME TypeOK, TypeOK', ElectionInv, RequestsInv, [Next]_vars
    PROVE  RequestsInv'
<1>1. CandidatesKeepLog
  BY NextKeepsLog
<1>2. ASSUME main' = main, votes' = votes, Requests' \subseteq Requests PROVE RequestsInv'
  BY <1>1, <1>2, RequestsKept
<1>3. ASSUME NEW c \in DOMAIN task, CallStep(c) PROVE RequestsInv'
  <2>1. c[1] \in Server /\ c[2] \in Server /\ task \in [Server \X Server \X Slot -> Task]
    BY DEF TypeOK, ProcessTypeOK
  <2>2. ASSUME NEW t, task' = [task EXCEPT ![c] = t], t.type # "RequestVoteArgs", late' = late
        PROVE  Requests' \subseteq Requests
    BY <2>1, <2>2 DEF Requests
  <2>3. Idle.type # "RequestVoteArgs"
    BY DEF Idle
  <2>4. CASE CreateAppendEntries(c)
    <3>1. CreateAppendEntriesArgs(c[1], c[2]).type # "RequestVoteArgs"
      BY DEF CreateAppendEntriesArgs, CreateArgs, DefaultArgs
    <3> QED
      BY <1>2, <2>2, <2>4, <3>1 DEF CreateAppendEntries
  <2>5. CASE DeliverRequestVote(c)
    <3>1. /\ task[c] \in RequestVoteArgs /\ RequestVoteStep(c[2], task[c])
          /\ task' = [task EXCEPT ![c] = RequestVoteReplyTo(c[2], task[c])] /\ late' = late
          /\ RequestVoteReplyTo(c[2], task[c]).type # "RequestVoteArgs"
      BY <2>5 DEF DeliverRequestVote, Answer, RequestVoteReplyTo
    <3>2. task[c] \in Requests
      BY <3>1 DEF Requests, RequestVoteArgs
    <3> QED
      BY <1>1, <2>1, <2>2, <3>1, <3>2, RequestVoteRequests
  <2>6. CASE DeliverAppendEntries(c)
    <3>1. AppendEntriesReplyTo(c[2], task[c]).type # "RequestVoteArgs"
      BY DEF AppendEntriesReplyTo, ConsistencyReply, AppendReply
    <3> QED
      BY <1>2, <2>2, <2>6, <3>1 DEF DeliverAppendEntries, Answer, AppendEntriesStep
  <2>7. CASE HandleVoteResponse(c) \/ HandleAppendEntriesResponse(c) \/ LoseCall(c)
    <3>1. task' = [task EXCEPT ![c] = Idle] /\ UNCHANGED <<late, main, votes>>
      BY <2>7 DEF HandleVoteResponse, HandleAppendEntriesResponse, LoseCall
    <3> QED
      BY <1>2, <2>2, <2>3, <3>1
  <2>8. CASE TimeoutCall(c)
    <3>1. /\ UNCHANGED <<main, votes>>
          /\ task' = [task EXCEPT ![c] = Idle] /\ late' = late \cup {[to |-> c[2], args |-> task[c]]}
      BY <2>8 DEF TimeoutCall
    <3>2. Requests' \subseteq Requests
      BY <2>1, <2>3, <3>1 DEF Requests
    <3> QED
      BY <1>2, <3>1, <3>2
  <2> QED
    BY <1>3, <2>4, <2>5, <2>6, <2>7, <2>8 DEF CallStep
<1>4. ASSUME NEW m \in late, DeliverLate(m) PROVE RequestsInv'
  <2>1. m.to \in Server /\ task' = task /\ late' \subseteq late
    BY <1>4 DEF TypeOK, ProcessTypeOK, DeliverLate, Discard
  <2>2. Requests' \subseteq Requests
    BY <2>1 DEF Requests
  <2>3. CASE m.args \in RequestVoteArgs /\ RequestVoteStep(m.to, m.args)
    <3>1. m.args \in Requests
      BY <2>3 DEF Requests, RequestVoteArgs
    <3> QED
      BY <1>1, <2>1, <2>2, <2>3, <3>1, RequestVoteRequests
  <2>4. CASE m.args \in AppendEntriesArgs /\ AppendEntriesStep(m.to, m.args)
    BY <1>2, <2>2, <2>4 DEF AppendEntriesStep
  <2> QED
    BY <1>4, <2>3, <2>4 DEF DeliverLate
<1>5. ASSUME NEW n \in Server, NEW cmd \in Command, AppendLogEntry(n, cmd) PROVE RequestsInv'
  BY <1>2, <1>5 DEF AppendLogEntry, Requests
<1>6. ASSUME NEW n \in Server, PersistThread(n) PROVE RequestsInv'
  BY <1>2, <1>6 DEF PersistThread, Requests
<1>7. ASSUME NEW n \in Server, Restart(n) PROVE RequestsInv'
  <2>1. /\ UNCHANGED <<late, votes>> /\ main' = [main EXCEPT ![n] = AtLoop]
        /\ task' = [c \in DOMAIN task |-> IF c[1] = n THEN Idle ELSE task[c]]
    BY <1>7 DEF Restart
  <2>2. Requests' \subseteq Requests
    BY <2>1 DEF Requests, Idle
  <2>3. main'[n] = AtLoop /\ \A m \in Server \ {n} : main'[m] = main[m]
    BY <2>1 DEF TypeOK, ProcessTypeOK
  <2>4. LocalsMatch(n)'
    BY <2>3 DEF LocalsMatch, AtLoop
  <2> QED
    BY <1>1, <2>1, <2>2, <2>3, <2>4, RequestsKept
<1>8. CASE UNCHANGED vars
  BY <1>2, <1>8 DEF Requests
<1> QED
  BY <1>1, <1>3, <1>4, <1>5, <1>6, <1>7, <1>8, MainStepRequests DEF Next

\* No vote request is of a term its candidate has not reached, and those that
\* count describe the candidate's log.
THEOREM RequestsInvariant == Spec => []RequestsInv
<1>1. Init => RequestsInv
  BY DEF Init, RequestsInv, LocalsMatch, AtLoop, Requests, Idle
<1>2. TypeOK /\ TypeOK' /\ ElectionInv /\ RequestsInv /\ [Next]_vars => RequestsInv'
  BY NextRequests
<1> QED
  BY <1>1, <1>2, TypeCorrect, ElectionInvariant, PTL DEF Spec

\* The requests that can win the current election carry the candidate's log as
\* it is, although sendRequestVotesToPeers reads it without mutex_ while other
\* threads run.
THEOREM VoteRequestsMatch == Spec => []VoteRequestsMatchLog
<1>1. RequestsInv => VoteRequestsMatchLog
  <2> SUFFICES ASSUME RequestsInv, NEW m \in InFlight, m.args \in RequestVoteArgs
               PROVE  RequestMatches(m.args)
    BY DEF VoteRequestsMatchLog, RequestMatches
  <2>1. m.args \in Requests
    BY DEF InFlight, Requests, RequestVoteArgs
  <2> QED
    BY <2>1 DEF RequestsInv
<1> QED
  BY <1>1, RequestsInvariant, PTL
-----------------------------------------------------------------------------
(***************************************************************************)
(* Commitment                                                              *)
(*                                                                         *)
(* Commitment in RaftNode for every cluster and every behaviour, up to the *)
(* first of two events that the history lapses records: a command is       *)
(* appended while an AppendEntries call of the leader is answered, or a    *)
(* crash loses an entry.  (handleAppendEntriesResponse credits a peer with *)
(* the leader's log as it is, appendLogEntry does not wait for the disk;   *)
(* after either event committed entries may be replaced.)                  *)
(*                                                                         *)
(* Like the set H of logs, the set A of acknowledgements is one that the   *)
(* state does not keep: <<q, t, i>> is in A when q, in term t, has had an  *)
(* entry of term t at index i.                                             *)
(***************************************************************************)

HasAt(l, t, i) == i \in 1..Len(l) /\ l[i].term = t
Proposed(H, t, i) == \E h \in H : HasAt(h, t, i)

\* A majority has acknowledged the entry of term t at index i; or may still do.
Chosen(A, t, i) ==
    \E Q \in SUBSET Server : Cardinality(Q) >= Majority /\ \A q \in Q : <<q, t, i>> \in A
Choosable(A, t, i) ==
    \E Q \in SUBSET Server :
        Cardinality(Q) >= Majority /\ \A q \in Q : <<q, t, i>> \in A \/ currentTerm[q] <= t

\* Log g has every entry of a term before s that is chosen or can still be.
Complete(H, A, g, s) ==
    \A t, i \in Nat : t < s /\ Proposed(H, t, i) /\ Choosable(A, t, i) => HasAt(g, t, i)

\* The first c entries of l precede an entry that was chosen in a term up to s.
Settled(A, l, c, s) ==
    c > 0 => \E t, i \in Nat : t <= s /\ c <= i /\ Chosen(A, t, i) /\ HasAt(l, t, i)
-----------------------------------------------------------------------------
(* The invariant *)

\* Acknowledgements are of real entries and of terms the node has reached, the
\* node's own term is covered, and no node drops what can still be chosen.
AcksInv(H, A) ==
    /\ A \subseteq Server \X Nat \X Nat
    /\ \A q \in Server, t, i \in Nat : <<q, t, i>> \in A =>
          /\ t <= currentTerm[q]
          /\ Proposed(H, t, i)
          /\ Choosable(A, t, i) => HasAt(log[q], t, i)
    /\ \A q \in Server, i \in Nat :
          HasAt(log[q], currentTerm[q], i) => <<q, currentTerm[q], i>> \in A

\* Whoever has an entry of term s has every entry chosen before s; a leader
\* does even without one.
CompleteInv(H, A) ==
    /\ \A g \in H : \A j \in 1..Len(g) : Complete(H, A, g, g[j].term)
    /\ \A n \in Server : state[n] = "LEADER" => Complete(H, A, log[n], currentTerm[n])

\* A candidate has what its voters had acknowledged before they voted.
VotersInv(A) ==
    \A u \in votes : state[u.candidate] = "CANDIDATE" /\ u.term = currentTerm[u.candidate] =>
        \A t, i \in Nat : t < u.term /\ <<u.voter, t, i>> \in A /\ Choosable(A, t, i) =>
            HasAt(log[u.candidate], t, i)

\* A leader with entries of its term counts only peers that have acknowledged
\* them: its calls are of this term, and carry its log as it is.
LeaderInv(A, n) ==
    /\ \A p \in Server : matchIndex[n][p] <= Len(log[n])
    /\ \A i \in Nat : HasAt(log[n], currentTerm[n], i) =>
          /\ \A p \in Peers(n) : matchIndex[n][p] >= i => <<p, currentTerm[n], i>> \in A
          /\ \A c \in DOMAIN task : c[1] = n =>
                /\ task[c].type = "AppendEntriesArgs" => task[c].term = currentTerm[n] /\ Cut(task[c], log[n])
                /\ task[c].type = "AppendEntriesReply" =>
                      (task[c].success => <<c[2], currentTerm[n], i>> \in A)

SentInv(H, A) ==
    \A a \in Appends : \E g \in H :
        SentFrom(H, a, g) /\ Complete(H, A, g, a.term) /\ Settled(A, g, a.leaderCommit, a.term)

\* What a node regards as committed is settled, and it has applied no more.
NodeCommitInv(A, n) ==
    /\ Settled(A, log[n], commitIndex[n], currentTerm[n])
    /\ lastApplied[n] <= commitIndex[n]
    /\ applied[n] = SubSeq(log[n], 1, lastApplied[n])

DecidedInv(H, A) ==
    \A d \in decided : d.index > 0 /\ \E h \in H : Has(h, d) /\ \E t, i \in Nat :
        d.index <= i /\ Chosen(A, t, i) /\ HasAt(h, t, i)

CommitInv(H, A) ==
    /\ AcksInv(H, A)
    /\ CompleteInv(H, A)
    /\ VotersInv(A)
    /\ \A n \in Server : state[n] = "LEADER" => LeaderInv(A, n)
    /\ SentInv(H, A)
    /\ \A n \in Server : NodeCommitInv(A, n)
    /\ DecidedInv(H, A)
-----------------------------------------------------------------------------
(* Steps, and what they cannot undo *)

\* What the nodes acknowledge as they are.
Acked == {x \in Server \X Nat \X Nat : x[2] = currentTerm[x[1]] /\ HasAt(log[x[1]], x[2], x[3])}

\* A step up to which nothing has undermined commitment, with the logs and
\* acknowledgements before and after it.
CommitStep(H, A, K, B) ==
    /\ lapses' = {}
    /\ TypeOK /\ TypeOK' /\ ElectionInv /\ ElectionInv' /\ RequestsInv
    /\ LogsInv(H) /\ CommitInv(H, A)
    /\ [Next]_vars
    /\ K = H \cup {log'[n] : n \in Server}
    /\ B = A \cup Acked'

\* The history of lapses only grows, and has the two events.
LEMMA LapsesGrow ==
    ASSUME [Next]_vars
    PROVE  /\ lapses \subseteq lapses'
           /\ lapses' = {} => /\ \A n \in Server, cmd \in Command : AppendLogEntry(n, cmd) => Creditable(n) = {}
                             /\ \A n \in Server : Restart(n) => disk[n].log = log[n]
<1>1. CASE lapses' = lapses
  BY <1>1 DEF AppendLogEntry, Restart, Lapse
<1>2. ASSUME NEW n \in Server, MainStep(n) PROVE lapses' = lapses
  BY <1>2 DEF MainStep, CheckElectionTimeout, StartElection, ReadState, ReadTerm, ReadLastLogIndex, SendRequestVotes,
              SendAppendEntriesToPeers, ApplyCommittedEntries, commitVars
<1>3. ASSUME NEW n \in Server, NEW args, AppendEntriesStep(n, args) PROVE lapses' = lapses
  BY <1>3 DEF AppendEntriesStep, HandleAppendEntries, FollowerCommit, commitVars
<1>4. ASSUME NEW c \in DOMAIN task, CallStep(c) PROVE lapses' = lapses
  <2>1. CASE DeliverAppendEntries(c)
    BY <2>1 DEF DeliverAppendEntries, AppendEntriesStep, HandleAppendEntries, FollowerCommit, commitVars
  <2>2. CASE HandleAppendEntriesResponse(c)
    BY <2>2 DEF HandleAppendEntriesResponse, commitVars
  <2>3. CASE ~DeliverAppendEntries(c) /\ ~HandleAppendEntriesResponse(c)
    BY <1>4, <2>3 DEF CallStep, CreateAppendEntries, DeliverRequestVote, RequestVoteStep, HandleVoteResponse, LoseCall,
                      TimeoutCall, commitVars
  <2> QED
    BY <2>1, <2>2, <2>3
<1>5. ASSUME NEW m \in late, DeliverLate(m) PROVE lapses' = lapses
  BY <1>5 DEF DeliverLate, RequestVoteStep, AppendEntriesStep, HandleAppendEntries, FollowerCommit, commitVars
<1>6. ASSUME NEW n \in Server, (\E cmd \in Command : AppendLogEntry(n, cmd)) \/ Restart(n)
      PROVE  /\ lapses \subseteq lapses'
             /\ lapses' = {} => /\ \A m \in Server, cmd \in Command : AppendLogEntry(m, cmd) => Creditable(m) = {}
                               /\ \A m \in Server : Restart(m) => disk[m].log = log[m]
  BY <1>6 DEF AppendLogEntry, Restart, Lapse
<1>7. ASSUME NEW n \in Server, PersistThread(n) PROVE lapses' = lapses
  BY <1>7 DEF PersistThread, commitVars
<1>8. CASE UNCHANGED vars
  BY <1>1, <1>8 DEF vars, commitVars
<1> QED
  BY <1>1, <1>2, <1>4, <1>5, <1>6, <1>7, <1>8 DEF Next

\* A longer log has what a shorter one had.
LEMMA HasAtPrefix ==
    ASSUME NEW l \in Seq(Entry), NEW k \in Seq(Entry), StartsWith(l, k), NEW t, NEW i, HasAt(k, t, i)
    PROVE  HasAt(l, t, i)
  BY DEF HasAt, StartsWith

\* Two logs with one entry agree up to it.
LEMMA AgreeUpTo ==
    ASSUME NEW k \in Seq(Entry), NEW l \in Seq(Entry), Explains(l, k), NEW t, NEW i, HasAt(k, t, i), HasAt(l, t, i)
    PROVE  \A x \in 1..i : k[x] = l[x]
  BY DEF Explains, HasAt

\* Acknowledgements are added one term at a time, so an entry that a majority
\* can no longer choose stays so.
LEMMA ChoosableShrinks ==
    ASSUME NEW H, NEW A, NEW K, NEW B, CommitStep(H, A, K, B), NEW t \in Nat, NEW i \in Nat
    PROVE  /\ Choosable(B, t, i)' => Choosable(A, t, i)
           /\ Chosen(A, t, i) => Chosen(B, t, i)
           /\ Chosen(B, t, i) => Choosable(B, t, i)'
<1>1. \A q \in Server : /\ currentTerm[q] <= currentTerm'[q]
                        /\ currentTerm[q] \in Nat /\ currentTerm'[q] \in Nat
  BY NextKeepsLog DEF CommitStep, CandidatesKeepLog, TypeOK, PersistentTypeOK
<1>2. ASSUME NEW q \in Server, <<q, t, i>> \in B \/ currentTerm'[q] <= t
      PROVE  <<q, t, i>> \in A \/ currentTerm[q] <= t
  <2>1. CASE <<q, t, i>> \in Acked'
    <3>1. t = currentTerm'[q]
      BY <2>1 DEF Acked
    <3> QED
      BY <1>1, <3>1
  <2> QED
    BY <1>1, <1>2, <2>1 DEF CommitStep
<1>3. Choosable(B, t, i)' => Choosable(A, t, i)
  BY <1>2 DEF Choosable
<1> QED
  BY <1>3 DEF Chosen, Choosable, CommitStep

\* What can still be chosen of a term before that of an elected node has been
\* acknowledged by somebody who voted for it.
LEMMA AckedByVoter ==
    ASSUME TypeOK, ElectionInv, NEW w, NEW s \in Nat, Won(w, s), NEW A,
           NEW t \in Nat, NEW i \in Nat, t < s, Choosable(A, t, i)
    PROVE  \E u \in votes : u.term = s /\ u.candidate = w /\ u.voter \in Server /\ <<u.voter, t, i>> \in A
<1>1. PICK Q \in SUBSET Server :
          Cardinality(Q) >= Majority /\ \A q \in Q : <<q, t, i>> \in A \/ currentTerm[q] <= t
  BY DEF Choosable
<1>2. Cardinality(LoyalVoters(w, s)) >= Majority /\ LoyalVoters(w, s) \in SUBSET Server
  BY DEF Won, ElectionInv, LeadersKeepMajority, LoyalVoters
<1>3. PICK v \in Q : v \in LoyalVoters(w, s)
  BY <1>1, <1>2, MajoritiesMeet
<1>4. PICK u \in votes : u.term = s /\ u.voter = v /\ u.candidate = w
  BY <1>3 DEF LoyalVoters, Voted
<1>5. s <= currentTerm[v] /\ currentTerm[v] \in Nat
  BY <1>4 DEF ElectionInv, TermsReached, TypeOK, PersistentTypeOK
<1>6. <<v, t, i>> \in A
  BY <1>1, <1>3, <1>5
<1> QED
  BY <1>4, <1>6

\* Once a term is won, no entry of an earlier term becomes due.
LEMMA CompleteKept ==
    ASSUME NEW H, NEW A, NEW K, NEW B, CommitStep(H, A, K, B), NEW g, NEW s \in Nat,
           \E w : Won(w, s), Complete(H, A, g, s)
    PROVE  Complete(K, B, g, s)'
<1> SUFFICES ASSUME NEW t \in Nat, NEW i \in Nat, t < s, Choosable(B, t, i)' PROVE HasAt(g, t, i)
  BY DEF Complete
<1>1. Choosable(A, t, i)
  BY ChoosableShrinks
<1>2. PICK v \in Server : <<v, t, i>> \in A
  <2>1. PICK w : Won(w, s)
    OBVIOUS
  <2>2. TypeOK /\ ElectionInv
    BY DEF CommitStep
  <2>3. PICK u \in votes : u.voter \in Server /\ <<u.voter, t, i>> \in A
    BY <1>1, <2>1, <2>2, AckedByVoter
  <2> QED
    BY <2>3
<1>3. Proposed(H, t, i)
  BY <1>2 DEF CommitStep, CommitInv, AcksInv
<1> QED
  BY <1>1, <1>3 DEF Complete

\* A leader stays what it is, appends one entry, or has just been elected.
LEMMA LeaderStep ==
    ASSUME TypeOK, ElectionInv, [Next]_vars, NEW n \in Server, state'[n] = "LEADER"
    PROVE  /\ currentTerm'[n] = currentTerm[n]
           /\ \/ state[n] = "LEADER" /\ log'[n] = log[n]
              \/ state[n] = "LEADER" /\ \E cmd \in Command : AppendLogEntry(n, cmd)
              \/ state[n] = "CANDIDATE" /\ BecomeLeader(n) /\ UNCHANGED <<log, votes>>
<1>1. /\ currentTerm \in [Server -> Nat] /\ state \in [Server -> {"FOLLOWER", "CANDIDATE", "LEADER"}]
      /\ log \in [Server -> Seq(Entry)]
  BY DEF TypeOK, PersistentTypeOK, RoleTypeOK
<1> DEFINE Same == state[n] = "LEADER" /\ log'[n] = log[n] /\ currentTerm'[n] = currentTerm[n]
<1>2. CASE UNCHANGED <<currentTerm, state, log>>
  BY <1>2
<1>3. ASSUME NEW m \in Server, MainStep(m) PROVE Same
  <2>1. CASE StartElection(m)
    BY <1>1, <2>1 DEF StartElection
  <2> QED
    BY <1>2, <1>3, <2>1 DEF MainStep, CheckElectionTimeout, ReadState, ReadTerm, ReadLastLogIndex, SendRequestVotes,
                            SendAppendEntriesToPeers, ApplyCommittedEntries
<1>4. ASSUME NEW p \in Server, NEW args, RequestVoteStep(p, args) PROVE Same
  BY <1>1, <1>4 DEF RequestVoteStep, HandleRequestVote
<1>5. ASSUME NEW p \in Server, NEW args, AppendEntriesStep(p, args) PROVE Same
  BY <1>1, <1>5 DEF AppendEntriesStep, HandleAppendEntries, AcceptLeader
<1>6. ASSUME NEW m \in Server, NEW t, StepDown(m, t) PROVE Same
  BY <1>1, <1>6 DEF StepDown
<1>7. ASSUME NEW m \in Server, BecomeLeader(m), UNCHANGED <<log, votes>>, state[m] = "CANDIDATE"
      PROVE  /\ currentTerm'[n] = currentTerm[n]
             /\ \/ state[n] = "LEADER" /\ log'[n] = log[n]
                \/ state[n] = "CANDIDATE" /\ BecomeLeader(n) /\ UNCHANGED <<log, votes>>
  BY <1>1, <1>7 DEF BecomeLeader
<1>8. ASSUME NEW c \in DOMAIN task, CallStep(c)
      PROVE  Same \/ /\ currentTerm'[n] = currentTerm[n] /\ state[n] = "CANDIDATE"
                     /\ BecomeLeader(n) /\ UNCHANGED <<log, votes>>
  <2>1. c[1] \in Server /\ c[2] \in Server
    BY <1>8 DEF TypeOK, ProcessTypeOK
  <2>2. CASE DeliverRequestVote(c) \/ DeliverAppendEntries(c)
    BY <1>4, <1>5, <2>1, <2>2 DEF DeliverRequestVote, DeliverAppendEntries
  <2>3. CASE HandleVoteResponse(c)
    <3>1. CASE \E t : StepDown(c[1], t)
      BY <1>6, <2>1, <3>1
    <3>2. CASE ~IgnoreVoteResponse(c[1], task[c]) /\ CountVote(c[1], c[2]) /\ UNCHANGED log
      <4>1. state[c[1]] = "CANDIDATE" /\ votes' = votes
        BY <2>3, <3>2 DEF IgnoreVoteResponse, HandleVoteResponse
      <4>2. CASE BecomeLeader(c[1])
        BY <1>7, <2>1, <3>2, <4>1, <4>2
      <4> QED
        BY <1>2, <3>2, <4>2 DEF CountVote
    <3> QED
      BY <1>2, <2>3, <3>1, <3>2 DEF HandleVoteResponse
  <2>4. CASE HandleAppendEntriesResponse(c)
    BY <1>2, <1>6, <2>1, <2>4 DEF HandleAppendEntriesResponse
  <2> QED
    BY <1>2, <1>8, <2>2, <2>3, <2>4 DEF CallStep, CreateAppendEntries, LoseCall, TimeoutCall
<1>9. ASSUME NEW m \in late, DeliverLate(m) PROVE Same
  <2>1. m.to \in Server
    BY <1>9 DEF TypeOK, ProcessTypeOK
  <2> QED
    BY <1>4, <1>5, <1>9, <2>1 DEF DeliverLate
<1>10. ASSUME NEW m \in Server, NEW cmd \in Command, AppendLogEntry(m, cmd)
       PROVE  Same \/ (state[n] = "LEADER" /\ AppendLogEntry(n, cmd) /\ currentTerm'[n] = currentTerm[n])
  BY <1>1, <1>10 DEF AppendLogEntry
<1>11. ASSUME NEW m \in Server, PersistThread(m) \/ Restart(m) PROVE Same
  BY <1>1, <1>11 DEF PersistThread, Restart
<1> QED
  BY <1>2, <1>3, <1>8, <1>9, <1>10, <1>11 DEF Next

\* Where the logs of the next state come from.
LEMMA LogsOfStep ==
    ASSUME NEW H, NEW A, NEW K, NEW B, CommitStep(H, A, K, B)
    PROVE  /\ LogsInv(K)' /\ H \subseteq K /\ A \subseteq B
           /\ \A n \in Server : log'[n] \in K
           /\ \A n \in Server, cmd \in Command : AppendLogEntry(n, cmd) => K = H \cup {log'[n]}
           /\ K # H => \E n \in Server, cmd \in Command : AppendLogEntry(n, cmd)
<1>1. LogsInv(K)'
  BY NextLogs DEF CommitStep
<1>2. ASSUME NEW n \in Server, NEW cmd \in Command, AppendLogEntry(n, cmd) PROVE K = H \cup {log'[n]}
  <2>1. \A m \in Server \ {n} : log'[m] \in H
    BY <1>2 DEF AppendLogEntry, CommitStep, LogsInv, LogsOfNode, TypeOK, PersistentTypeOK
  <2> QED
    BY <2>1 DEF CommitStep
<1>3. ASSUME ~\E n \in Server, cmd \in Command : AppendLogEntry(n, cmd) PROVE K = H
  <2>1. LogsInv(H)'
    BY <1>3, OnlyAppendAddsLogs DEF CommitStep
  <2>2. \A n \in Server : log'[n] \in H
    BY <2>1 DEF LogsInv, LogsOfNode
  <2> QED
    BY <2>2 DEF CommitStep
<1> QED
  BY <1>1, <1>2, <1>3 DEF CommitStep

\* appendLogEntry makes a log longer.
LEMMA AppendedLog ==
    ASSUME TypeOK, NEW n \in Server, NEW cmd \in Command, AppendLogEntry(n, cmd)
    PROVE  /\ state[n] = "LEADER" /\ UNCHANGED <<currentTerm, state>>
           /\ log[n] \in Seq(Entry) /\ log'[n] \in Seq(Entry) /\ StartsWith(log'[n], log[n])
           /\ Len(log'[n]) = Len(log[n]) + 1 /\ log'[n][Len(log[n]) + 1].term = currentTerm[n]
           /\ \A m \in Server \ {n} : log'[m] = log[m]
<1> DEFINE e == [term |-> currentTerm[n], command |-> cmd]
<1>1. log[n] \in Seq(Entry) /\ e \in Entry /\ e.term = currentTerm[n]
  <2>1. log[n] \in Seq(Entry) /\ currentTerm[n] \in Nat
    BY DEF TypeOK, PersistentTypeOK
  <2> QED
    BY <2>1 DEF Entry
<1>2. /\ UNCHANGED <<currentTerm, state>> /\ state[n] = "LEADER"
      /\ log'[n] = Append(log[n], e) /\ \A m \in Server \ {n} : log'[m] = log[m]
  BY DEF AppendLogEntry, TypeOK, PersistentTypeOK
<1>3. /\ log'[n] \in Seq(Entry) /\ Len(log'[n]) = Len(log[n]) + 1 /\ log'[n][Len(log[n]) + 1] = e
      /\ \A i \in 1..Len(log[n]) : log'[n][i] = log[n][i]
  BY <1>1, <1>2, AppendProperties
<1>4. StartsWith(log'[n], log[n])
  BY <1>1, <1>3 DEF StartsWith
<1> QED
  BY <1>1, <1>2, <1>3, <1>4

\* Leader completeness: what an elected node has, it has for every entry that
\* can still be chosen in an earlier term.
LEMMA CompleteInvKept ==
    ASSUME NEW H, NEW A, NEW K, NEW B, CommitStep(H, A, K, B)
    PROVE  CompleteInv(K, B)'
<1>1. /\ TypeOK /\ TypeOK' /\ ElectionInv /\ ElectionInv' /\ LogsInv(H) /\ [Next]_vars
      /\ CompleteInv(H, A) /\ VotersInv(A)
  BY DEF CommitStep, CommitInv
<1>2. \A n \in Server : currentTerm[n] \in Nat /\ log[n] \in Seq(Entry) /\ log'[n] \in Seq(Entry) /\ log[n] \in H
  BY <1>1 DEF TypeOK, PersistentTypeOK, LogsInv, LogsOfNode
<1>3. ASSUME NEW g \in H, NEW j \in 1..Len(g) PROVE Complete(K, B, g, g[j].term)'
  <2>1. g[j].term \in Nat /\ \E w : Won(w, g[j].term)
    <3>1. g \in Seq(Entry) /\ \E w : Won(w, g[j].term)
      BY <1>1 DEF LogsInv, LogsOfWinners
    <3> QED
      BY <3>1, TermsOfLog
  <2>2. Complete(H, A, g, g[j].term)
    BY <1>1 DEF CompleteInv
  <2> QED
    BY <2>1, <2>2, CompleteKept
<1>5. ASSUME NEW n \in Server, state[n] = "LEADER", NEW g, g = log[n], NEW s, s = currentTerm[n]
      PROVE  Complete(K, B, g, s)'
  <2>1. Won(n, s) /\ Complete(H, A, g, s) /\ s \in Nat
    BY <1>1, <1>2, <1>5 DEF CompleteInv, ElectionInv, RolesBacked, RoleBacked
  <2> QED
    BY <2>1, CompleteKept
<1>6. ASSUME NEW g \in K, NEW j \in 1..Len(g) PROVE Complete(K, B, g, g[j].term)'
  <2>1. CASE g \in H
    BY <1>3, <2>1
  <2>2. CASE g \notin H
    <3>1. PICK n \in Server, cmd \in Command : AppendLogEntry(n, cmd)
      BY <2>2, LogsOfStep
    <3>2. PICK k : k = log[n]
      OBVIOUS
    <3>3. /\ g = log'[n] /\ StartsWith(g, k) /\ Len(g) = Len(k) + 1 /\ g[Len(k) + 1].term = currentTerm[n]
          /\ state[n] = "LEADER" /\ k \in H /\ k \in Seq(Entry) /\ g \in Seq(Entry)
      <4>1. K = H \cup {log'[n]}
        BY <3>1, LogsOfStep
      <4> QED
        BY <1>1, <1>2, <2>2, <3>1, <3>2, <4>1, AppendedLog
    <3>4. CASE j = Len(k) + 1
      <4>1. PICK s : s = currentTerm[n]
        OBVIOUS
      <4>2. Complete(K, B, k, s)' /\ g[j].term = s
        BY <1>5, <3>2, <3>3, <3>4, <4>1
      <4>3. Complete(K, B, g, s)'
        BY <3>3, <4>2, HasAtPrefix DEF Complete
      <4> QED
        BY <4>2, <4>3
    <3>5. CASE j \in 1..Len(k)
      <4>1. Complete(K, B, k, k[j].term)' /\ k[j] = g[j]
        BY <1>3, <3>3, <3>5 DEF StartsWith
      <4> QED
        BY <3>3, <4>1, HasAtPrefix DEF Complete
    <3> QED
      BY <3>3, <3>4, <3>5
  <2> QED
    BY <2>1, <2>2
<1>7. ASSUME NEW n \in Server, state'[n] = "LEADER" PROVE Complete(K, B, log[n], currentTerm[n])'
  <2>1. PICK s, k : s = currentTerm[n] /\ k = log[n]
    OBVIOUS
  <2>2. s \in Nat /\ k \in Seq(Entry) /\ currentTerm'[n] = s
    BY <1>1, <1>2, <1>7, <2>1, LeaderStep
  <2>3. CASE state[n] = "LEADER"
    <3>1. Complete(K, B, k, s)'
      BY <1>5, <2>1, <2>3
    <3>2. StartsWith(log'[n], k)
      <4>1. CASE log'[n] = k
        BY <2>2, <4>1 DEF StartsWith
      <4>2. CASE \E cmd \in Command : AppendLogEntry(n, cmd)
        BY <1>1, <2>1, <4>2, AppendedLog
      <4> QED
        BY <1>1, <1>7, <2>1, <2>3, <4>1, <4>2, LeaderStep
    <3> QED
      BY <1>2, <2>2, <3>1, <3>2, HasAtPrefix DEF Complete
  <2>4. CASE state[n] = "CANDIDATE" /\ BecomeLeader(n) /\ UNCHANGED <<log, votes>>
    <3> SUFFICES ASSUME NEW t \in Nat, NEW i \in Nat, t < s, Choosable(B, t, i)' PROVE HasAt(k, t, i)
      BY <2>1, <2>2, <2>4 DEF Complete
    <3>1. Choosable(A, t, i)
      BY ChoosableShrinks
    <3>2. PICK Q \in SUBSET Server :
              Cardinality(Q) >= Majority /\ \A q \in Q : <<q, t, i>> \in A \/ currentTerm[q] <= t
      BY <3>1 DEF Choosable
    <3>3. Cardinality(LoyalVoters(n, s)') >= Majority /\ LoyalVoters(n, s)' \in SUBSET Server
      BY <1>1, <1>7, <2>2 DEF ElectionInv, RolesBacked, RoleBacked, Won, LeadersKeepMajority, LoyalVoters
    <3>4. PICK v \in Q : v \in LoyalVoters(n, s)'
      BY <3>2, <3>3, MajoritiesMeet
    <3>5. PICK u \in votes : u.term = s /\ u.voter = v /\ u.candidate = n
      BY <2>4, <3>4 DEF LoyalVoters, Voted
    <3>6. s <= currentTerm[v]
      BY <1>1, <3>5 DEF ElectionInv, TermsReached
    <3>7. <<v, t, i>> \in A
      BY <1>2, <2>2, <3>2, <3>4, <3>6
    <3> QED
      BY <1>1, <2>1, <2>4, <3>1, <3>5, <3>7 DEF VotersInv
  <2> QED
    BY <1>1, <1>7, <2>3, <2>4, LeaderStep
<1> QED
  BY <1>6, <1>7 DEF CompleteInv
-----------------------------------------------------------------------------
(* What can still be chosen is never dropped *)

\* A log into which a request is merged keeps what can be chosen in the terms up
\* to the request's.
LEMMA MergeKeepsChosen ==
    ASSUME NEW H, NEW A, LogsOfWinners(H), NEW l \in H, NEW g \in H, NEW a, SentFrom(H, a, g),
           a.term \in Nat, Complete(H, A, g, a.term), NEW t \in Nat, NEW i \in Nat, t <= a.term,
           Choosable(A, t, i), HasAt(l, t, i), ~StartsWith(l, g)
    PROVE  HasAt(g, t, i)
<1>1. CASE t < a.term
  BY <1>1 DEF Complete, Proposed
<1>2. CASE t = a.term
  <2>1. l \in Seq(Entry) /\ g \in Seq(Entry) /\ i \in 1..Len(l) /\ l[i].term = a.term
    BY <1>2 DEF LogsOfWinners, HasAt
  <2>2. \A x \in 1..Len(g) : x <= i => l[x] = g[x]
    BY <2>1 DEF SentFrom
  <2>3. i <= Len(g)
    BY <2>1, <2>2 DEF StartsWith
  <2> QED
    BY <1>2, <2>1, <2>2, <2>3 DEF HasAt
<1> QED
  BY <1>1, <1>2

\* What handleAppendEntries does, in terms of the sender's log g.
LEMMA AppendEntriesEffect ==
    ASSUME TypeOK, NEW H, NEW A, LogsInv(H), SentInv(H, A), NEW p \in Server,
           NEW args \in AppendEntriesArgs, args \in Appends, AppendEntriesStep(p, args)
    PROVE  \E g \in H :
              /\ SentFrom(H, args, g) /\ Complete(H, A, g, args.term)
              /\ Settled(A, g, args.leaderCommit, args.term)
              /\ \A m \in Server \ {p} : log'[m] = log[m] /\ currentTerm'[m] = currentTerm[m] /\ state'[m] = state[m]
              /\ \/ args.term < currentTerm[p] /\ UNCHANGED <<raftVars, log, commitVars>>
                 \/ /\ args.term >= currentTerm[p] /\ currentTerm'[p] = args.term /\ state'[p] = "FOLLOWER"
                    /\ \/ ~LogConsistent(log[p], args) /\ UNCHANGED <<log, commitVars>>
                       \/ /\ LogConsistent(log[p], args)
                          /\ log'[p] = IF StartsWith(log[p], g) THEN log[p] ELSE g
                          /\ FollowerCommit(p, args, log'[p])
<1>1. PICK g \in H :
          SentFrom(H, args, g) /\ Complete(H, A, g, args.term) /\ Settled(A, g, args.leaderCommit, args.term)
  BY DEF SentInv
<1>2. /\ currentTerm \in [Server -> Nat] /\ state \in [Server -> {"FOLLOWER", "CANDIDATE", "LEADER"}]
      /\ log \in [Server -> Seq(Entry)]
  BY DEF TypeOK, PersistentTypeOK, RoleTypeOK
<1>3. CASE args.term < currentTerm[p] /\ UNCHANGED <<raftVars, log, commitVars>>
  BY <1>1, <1>3
<1>4. CASE /\ args.term >= currentTerm[p] /\ AcceptLeader(p, args)
           /\ ~LogConsistent(log[p], args) /\ UNCHANGED <<log, commitVars>>
  <2>1. /\ currentTerm'[p] = args.term /\ state'[p] = "FOLLOWER"
        /\ \A m \in Server \ {p} : currentTerm'[m] = currentTerm[m] /\ state'[m] = state[m]
    BY <1>2, <1>4 DEF AcceptLeader
  <2> QED
    BY <1>1, <1>4, <2>1
<1>5. CASE /\ args.term >= currentTerm[p] /\ AcceptLeader(p, args) /\ LogConsistent(log[p], args)
           /\ log' = [log EXCEPT ![p] = MergeEntries(log[p], args.prevLogIndex, args.entries)]
           /\ FollowerCommit(p, args, MergeEntries(log[p], args.prevLogIndex, args.entries))
  <2>1. /\ currentTerm'[p] = args.term /\ state'[p] = "FOLLOWER"
        /\ \A m \in Server \ {p} : currentTerm'[m] = currentTerm[m] /\ state'[m] = state[m]
    BY <1>2, <1>5 DEF AcceptLeader
  <2>2. MergeEntries(log[p], args.prevLogIndex, args.entries) = IF StartsWith(log[p], g) THEN log[p] ELSE g
    <3>1. LogsOfWinners(H) /\ log[p] \in H /\ Cut(args, g)
      BY <1>1 DEF LogsInv, LogsOfNode, SentFrom
    <3> QED
      BY <1>5, <3>1, MergedLog
  <2>3. log'[p] = MergeEntries(log[p], args.prevLogIndex, args.entries) /\ \A m \in Server \ {p} : log'[m] = log[m]
    BY <1>2, <1>5
  <2> QED
    BY <1>1, <1>5, <2>1, <2>2, <2>3
<1> QED
  BY <1>3, <1>4, <1>5 DEF AppendEntriesStep, HandleAppendEntries

\* No node drops an entry that can be chosen in a term it has reached.
LogsKeep(A) ==
    \A q \in Server, t, i \in Nat :
        t <= currentTerm[q] /\ Choosable(A, t, i) /\ HasAt(log[q], t, i) => HasAt(log'[q], t, i)

\* handleAppendEntries erases only what cannot be chosen any more.
LEMMA AppendEntriesKeepsChosen ==
    ASSUME TypeOK, NEW H, NEW A, LogsInv(H), SentInv(H, A), NEW p \in Server,
           NEW args \in AppendEntriesArgs, args \in Appends, AppendEntriesStep(p, args)
    PROVE  LogsKeep(A)
<1>1. PICK g \in H :
          /\ SentFrom(H, args, g) /\ Complete(H, A, g, args.term)
          /\ \A m \in Server \ {p} : log'[m] = log[m]
          /\ \/ log' = log
             \/ args.term >= currentTerm[p] /\ log'[p] = IF StartsWith(log[p], g) THEN log[p] ELSE g
  BY AppendEntriesEffect
<1> SUFFICES ASSUME NEW t \in Nat, NEW i \in Nat, t <= currentTerm[p], Choosable(A, t, i), HasAt(log[p], t, i),
                    args.term >= currentTerm[p], ~StartsWith(log[p], g)
             PROVE  HasAt(g, t, i)
  BY <1>1 DEF LogsKeep
<1>2. LogsOfWinners(H) /\ log[p] \in H /\ args.term \in Nat /\ currentTerm[p] \in Nat
  BY DEF LogsInv, LogsOfNode, AppendEntriesArgs, TypeOK, PersistentTypeOK
<1>3. t <= args.term
  BY <1>2
<1> QED
  BY <1>1, <1>2, <1>3, MergeKeepsChosen

\* Nor does any other step erase what can be chosen.
LEMMA NextKeepsChosen ==
    ASSUME NEW H, NEW A, NEW K, NEW B, CommitStep(H, A, K, B)
    PROVE  LogsKeep(A)
<1>1. /\ TypeOK /\ ElectionInv /\ LogsInv(H) /\ SentInv(H, A) /\ [Next]_vars
      /\ \A n \in Server : Restart(n) => disk[n].log = log[n]
  BY LapsesGrow DEF CommitStep, CommitInv
<1>2. CASE log' = log
  BY <1>2 DEF LogsKeep
<1>3. ASSUME NEW n \in Server, MainStep(n) PROVE log' = log
  BY <1>3 DEF MainStep, CheckElectionTimeout, StartElection, ReadState, ReadTerm, ReadLastLogIndex, SendRequestVotes,
              SendAppendEntriesToPeers, ApplyCommittedEntries
<1>4. ASSUME NEW c \in DOMAIN task, CallStep(c) PROVE LogsKeep(A)
  <2>1. CASE DeliverAppendEntries(c)
    <3>1. task[c] \in AppendEntriesArgs /\ AppendEntriesStep(c[2], task[c]) /\ c[2] \in Server
      BY <1>1, <2>1 DEF DeliverAppendEntries, TypeOK, ProcessTypeOK
    <3>2. task[c] \in Appends
      BY <3>1 DEF Appends, AppendEntriesArgs
    <3> QED
      BY <1>1, <3>1, <3>2, AppendEntriesKeepsChosen
  <2>2. CASE ~DeliverAppendEntries(c)
    <3>1. log' = log
      BY <1>4, <2>2 DEF CallStep, CreateAppendEntries, DeliverRequestVote, RequestVoteStep, HandleVoteResponse,
                        HandleAppendEntriesResponse, StepDown, LoseCall, TimeoutCall
    <3> QED
      BY <1>2, <3>1
  <2> QED
    BY <2>1, <2>2
<1>5. ASSUME NEW m \in late, DeliverLate(m) PROVE LogsKeep(A)
  <2>1. m.to \in Server
    BY <1>1 DEF TypeOK, ProcessTypeOK
  <2>2. CASE m.args \in AppendEntriesArgs /\ AppendEntriesStep(m.to, m.args)
    <3>1. m.args \in Appends
      BY <2>2 DEF Appends, AppendEntriesArgs
    <3> QED
      BY <1>1, <2>1, <2>2, <3>1, AppendEntriesKeepsChosen
  <2>3. CASE RequestVoteStep(m.to, m.args)
    BY <1>2, <2>3 DEF RequestVoteStep
  <2> QED
    BY <1>5, <2>2, <2>3 DEF DeliverLate
<1>6. ASSUME NEW n \in Server, NEW cmd \in Command, AppendLogEntry(n, cmd) PROVE LogsKeep(A)
  <2>1. /\ log[n] \in Seq(Entry) /\ log'[n] \in Seq(Entry) /\ StartsWith(log'[n], log[n])
        /\ \A m \in Server \ {n} : log'[m] = log[m]
    BY <1>1, <1>6, AppendedLog
  <2> QED
    BY <2>1, HasAtPrefix DEF LogsKeep
<1>7. ASSUME NEW n \in Server, PersistThread(n) \/ Restart(n) PROVE log' = log
  <2>1. CASE Restart(n)
    <3>1. log' = [log EXCEPT ![n] = disk[n].log] /\ disk[n].log = log[n]
      BY <1>1, <2>1 DEF Restart
    <3> QED
      BY <1>1, <3>1 DEF TypeOK, PersistentTypeOK
  <2> QED
    BY <1>7, <2>1 DEF PersistThread
<1> QED
  BY <1>1, <1>2, <1>3, <1>4, <1>5, <1>6, <1>7 DEF Next

\* The acknowledgements stay in order.
LEMMA AcksInvKept ==
    ASSUME NEW H, NEW A, NEW K, NEW B, CommitStep(H, A, K, B)
    PROVE  AcksInv(K, B)'
<1>1. AcksInv(H, A) /\ B = A \cup Acked' /\ LogsKeep(A) /\ H \subseteq K /\ \A n \in Server : log'[n] \in K
  BY NextKeepsChosen, LogsOfStep DEF CommitStep, CommitInv
<1>2. \A q \in Server : currentTerm[q] \in Nat /\ currentTerm'[q] \in Nat /\ currentTerm[q] <= currentTerm'[q]
  BY NextKeepsLog DEF CommitStep, CandidatesKeepLog, TypeOK, PersistentTypeOK
<1>3. B \subseteq Server \X Nat \X Nat
  BY <1>1 DEF AcksInv, Acked
<1>4. ASSUME NEW q \in Server, NEW t \in Nat, NEW i \in Nat, <<q, t, i>> \in B
      PROVE  /\ t <= currentTerm'[q]
             /\ Proposed(K, t, i)
             /\ Choosable(B, t, i)' => HasAt(log'[q], t, i)
  <2>1. CASE <<q, t, i>> \in A
    <3>1. t <= currentTerm[q] /\ Proposed(H, t, i) /\ (Choosable(A, t, i) => HasAt(log[q], t, i))
      BY <1>1, <2>1 DEF AcksInv
    <3>2. Proposed(K, t, i)
      BY <1>1, <3>1 DEF Proposed
    <3>3. Choosable(B, t, i)' => Choosable(A, t, i)
      BY ChoosableShrinks
    <3> QED
      BY <1>1, <1>2, <3>1, <3>2, <3>3 DEF LogsKeep
  <2>2. CASE <<q, t, i>> \in Acked'
    <3>1. t = currentTerm'[q] /\ HasAt(log'[q], t, i)
      BY <2>2 DEF Acked
    <3> QED
      BY <1>1, <1>2, <3>1 DEF Proposed
  <2> QED
    BY <1>1, <1>4, <2>1, <2>2
<1>5. ASSUME NEW q \in Server, NEW i \in Nat, HasAt(log'[q], currentTerm'[q], i)
      PROVE  <<q, currentTerm'[q], i>> \in B
  <2>1. <<q, currentTerm'[q], i>> \in Acked'
    BY <1>2, <1>5 DEF Acked
  <2> QED
    BY <1>1, <2>1
<1> QED
  BY <1>3, <1>4, <1>5 DEF AcksInv
-----------------------------------------------------------------------------
(* Votes *)

\* isLogUpToDate: a log that is at least as new has what can be chosen.
LEMMA UpToDateHas ==
    ASSUME NEW H, NEW A, LogsOfWinners(H), CompleteInv(H, A), NEW k \in H, NEW l \in H,
           IsLogUpToDate(l, Len(k), LastTerm(k)),
           NEW t \in Nat, NEW i \in Nat, Choosable(A, t, i), HasAt(l, t, i)
    PROVE  HasAt(k, t, i)
<1>1. /\ k \in Seq(Entry) /\ l \in Seq(Entry) /\ i \in 1..Len(l) /\ l[i].term = t /\ SortedByTerm(l)
      /\ \A j \in 1..Len(l) : l[j].term > 0
  BY DEF LogsOfWinners, HasAt
<1>2. /\ \A j \in 1..Len(l) : l[j].term \in Nat
      /\ \A j \in 1..Len(k) : k[j].term \in Nat
  BY <1>1, TermsOfLog
<1>3. /\ Len(l) \in 1..Len(l) /\ LastTerm(l) = l[Len(l)].term /\ l[Len(l)].term \in Nat /\ l[Len(l)].term > 0
      /\ t <= l[Len(l)].term
  BY <1>1, <1>2 DEF LastTerm, SortedByTerm
<1>4. k # <<>> /\ Len(k) \in 1..Len(k) /\ LastTerm(k) = k[Len(k)].term
  <2>1. k # <<>>
    BY <1>3 DEF IsLogUpToDate, LastTerm
  <2> QED
    BY <1>1, <2>1 DEF LastTerm
<1>5. CASE k[Len(k)].term > t
  BY <1>4, <1>1, <1>5 DEF CompleteInv, Complete, Proposed
<1>6. CASE k[Len(k)].term = t
  <2>1. l[Len(l)].term = t /\ Len(k) >= Len(l)
    BY <1>2, <1>3, <1>4, <1>6 DEF IsLogUpToDate
  <2>2. \A x \in 1..Len(l) : l[x] = k[x]
    <3>1. Explains(k, l)
      BY DEF LogsOfWinners
    <3> QED
      BY <1>3, <1>4, <1>6, <2>1, <3>1 DEF Explains
  <2> QED
    BY <1>1, <1>4, <2>1, <2>2 DEF HasAt
<1> QED
  BY <1>2, <1>3, <1>4, <1>5, <1>6 DEF IsLogUpToDate

\* Where a vote comes from.
LEMMA NewVotes ==
    ASSUME TypeOK, [Next]_vars, NEW u \in votes', u \notin votes
    PROVE  \/ \E n \in Server : StartElection(n) /\ u.voter = n /\ u.candidate = n /\ u.term = currentTerm'[n]
           \/ \E p \in Server, args \in RequestVoteArgs :
                 /\ args \in Requests /\ VoteGranted(p, args) /\ RequestVoteStep(p, args)
                 /\ u.term = args.term /\ u.voter = p /\ u.candidate = args.candidateId
<1>1. currentTerm \in [Server -> Nat]
  BY DEF TypeOK, PersistentTypeOK
<1>2. ASSUME NEW n \in Server, MainStep(n)
      PROVE  StartElection(n) /\ u.voter = n /\ u.candidate = n /\ u.term = currentTerm'[n]
  <2>1. StartElection(n)
    BY <1>2 DEF MainStep, CheckElectionTimeout, ReadState, ReadTerm, ReadLastLogIndex, SendRequestVotes,
                SendAppendEntriesToPeers, ApplyCommittedEntries
  <2>2. u = [term |-> currentTerm[n] + 1, voter |-> n, candidate |-> n] /\ currentTerm'[n] = currentTerm[n] + 1
    BY <1>1, <2>1 DEF StartElection
  <2> QED
    BY <2>1, <2>2
<1>3. ASSUME NEW p \in Server, NEW args \in RequestVoteArgs, RequestVoteStep(p, args)
      PROVE  VoteGranted(p, args) /\ u.term = args.term /\ u.voter = p /\ u.candidate = args.candidateId
  <2>1. VoteGranted(p, args) /\ u = [term |-> args.term, voter |-> p, candidate |-> args.candidateId]
    BY <1>3 DEF RequestVoteStep, HandleRequestVote
  <2> QED
    BY <2>1
<1>4. ASSUME NEW c \in DOMAIN task, CallStep(c)
      PROVE  task[c] \in RequestVoteArgs /\ RequestVoteStep(c[2], task[c]) /\ c[2] \in Server
  <2>1. DeliverRequestVote(c)
    BY <1>4 DEF CallStep, CreateAppendEntries, DeliverAppendEntries, AppendEntriesStep, HandleVoteResponse,
                HandleAppendEntriesResponse, LoseCall, TimeoutCall
  <2> QED
    BY <2>1 DEF DeliverRequestVote, TypeOK, ProcessTypeOK
<1>5. ASSUME NEW m \in late, DeliverLate(m)
      PROVE  m.args \in RequestVoteArgs /\ RequestVoteStep(m.to, m.args) /\ m.to \in Server
  BY <1>5 DEF DeliverLate, AppendEntriesStep, TypeOK, ProcessTypeOK
<1>6. CASE \E n \in Server : MainStep(n)
  BY <1>2, <1>6
<1>7. CASE \E c \in DOMAIN task : CallStep(c)
  <2> PICK c \in DOMAIN task : CallStep(c)
    BY <1>7
  <2>1. task[c] \in Requests
    BY <1>4 DEF Requests, RequestVoteArgs
  <2> QED
    BY <1>3, <1>4, <2>1
<1>8. CASE \E m \in late : DeliverLate(m)
  <2> PICK m \in late : DeliverLate(m)
    BY <1>8
  <2>1. m.args \in Requests
    BY <1>5 DEF Requests, RequestVoteArgs
  <2> QED
    BY <1>3, <1>5, <2>1
<1> QED
  BY <1>6, <1>7, <1>8 DEF Next, AppendLogEntry, PersistThread, Restart

\* A candidate has what its voters had acknowledged.
LEMMA VotersInvKept ==
    ASSUME NEW H, NEW A, NEW K, NEW B, CommitStep(H, A, K, B)
    PROVE  VotersInv(B)'
<1>1. /\ TypeOK /\ TypeOK' /\ ElectionInv /\ ElectionInv' /\ LogsInv(H) /\ [Next]_vars /\ RequestsInv
      /\ VotersInv(A) /\ AcksInv(H, A) /\ CompleteInv(H, A) /\ B = A \cup Acked' /\ CandidatesKeepLog
  BY NextKeepsLog DEF CommitStep, CommitInv
<1> SUFFICES ASSUME NEW u \in votes', state'[u.candidate] = "CANDIDATE", u.term = currentTerm'[u.candidate],
                    NEW t \in Nat, NEW i \in Nat, t < u.term, <<u.voter, t, i>> \in B, Choosable(B, t, i)'
             PROVE  HasAt(log'[u.candidate], t, i)
  BY DEF VotersInv
<1>2. u.voter \in Server /\ u.candidate \in Server /\ u.term \in Nat
  BY <1>1 DEF TypeOK, HistoryTypeOK, Vote
<1>3. \A n \in Server : currentTerm[n] \in Nat /\ currentTerm'[n] \in Nat /\ currentTerm[n] <= currentTerm'[n]
  BY <1>1 DEF TypeOK, PersistentTypeOK, CandidatesKeepLog
<1>4. Choosable(A, t, i)
  BY ChoosableShrinks
<1>5. <<u.voter, t, i>> \in A
  <2>1. <<u.voter, t, i>> \in Acked' => t = currentTerm'[u.voter]
    BY DEF Acked
  <2>2. u.term <= currentTerm'[u.voter]
    BY <1>1 DEF ElectionInv, TermsReached
  <2> QED
    BY <1>1, <1>2, <1>3, <2>1, <2>2
<1>6. HasAt(log[u.voter], t, i)
  BY <1>1, <1>2, <1>4, <1>5 DEF AcksInv
<1>7. CASE u \in votes
  <2>1. u.term = currentTerm[u.candidate]
    <3>1. u.term <= currentTerm[u.candidate]
      BY <1>1, <1>7 DEF RequestsInv
    <3> QED
      BY <1>2, <1>3, <3>1
  <2>2. state[u.candidate] = "CANDIDATE" /\ log'[u.candidate] = log[u.candidate]
    BY <1>1, <1>2, <2>1 DEF CandidatesKeepLog
  <2> QED
    BY <1>1, <1>4, <1>5, <1>7, <2>1, <2>2 DEF VotersInv
<1>8. ASSUME NEW n \in Server, StartElection(n), u.voter = n, u.candidate = n
      PROVE  HasAt(log'[u.candidate], t, i)
  BY <1>6, <1>8 DEF StartElection
<1>9. ASSUME NEW p \in Server, NEW args \in RequestVoteArgs, args \in Requests, VoteGranted(p, args),
             RequestVoteStep(p, args), u.term = args.term, u.voter = p, u.candidate = args.candidateId
      PROVE  HasAt(log'[u.candidate], t, i)
  <2>1. /\ args.term <= currentTerm[u.candidate]
        /\ state[u.candidate] = "CANDIDATE" /\ args.term = currentTerm[u.candidate] =>
              args.lastLogIndex = Len(log[u.candidate]) /\ args.lastLogTerm = LastTerm(log[u.candidate])
    BY <1>1, <1>9 DEF RequestsInv, RequestMatches
  <2>2. args.term = currentTerm[u.candidate]
    <3>1. /\ currentTerm[u.candidate] \in Nat /\ currentTerm'[u.candidate] = args.term /\ args.term \in Nat
          /\ currentTerm[u.candidate] <= currentTerm'[u.candidate]
      BY <1>2, <1>3, <1>9
    <3> QED
      BY <2>1, <3>1
  <2>3. state[u.candidate] = "CANDIDATE" /\ log'[u.candidate] = log[u.candidate]
    BY <1>1, <1>2, <1>9, <2>2 DEF CandidatesKeepLog
  <2>4. IsLogUpToDate(log[p], Len(log[u.candidate]), LastTerm(log[u.candidate]))
    BY <1>9, <2>1, <2>2, <2>3 DEF VoteGranted
  <2>5. LogsOfWinners(H) /\ log[p] \in H /\ log[u.candidate] \in H
    BY <1>1, <1>2 DEF LogsInv, LogsOfNode
  <2>6. HasAt(log[u.candidate], t, i)
    BY <1>1, <1>4, <1>6, <1>9, <2>4, <2>5, UpToDateHas
  <2> QED
    BY <2>3, <2>6
<1> QED
  BY <1>1, <1>7, <1>8, <1>9, NewVotes
-----------------------------------------------------------------------------
(* AppendEntries requests *)

\* A request stays one that was sent from its log.
LEMMA SentFromKept ==
    ASSUME NEW H, NEW A, NEW K, NEW B, CommitStep(H, A, K, B),
           NEW a \in Appends, NEW g \in H, SentFrom(H, a, g)
    PROVE  SentFrom(K, a, g)'
<1>1. /\ TypeOK /\ TypeOK' /\ ElectionInv /\ ElectionInv' /\ LogsInv(H) /\ [Next]_vars
  BY DEF CommitStep
<1>2. CASE \E n \in Server, cmd \in Command : AppendLogEntry(n, cmd)
  <2> PICK n \in Server, cmd \in Command : AppendLogEntry(n, cmd)
    BY <1>2
  <2>1. K = H \cup {log'[n]}
    BY LogsOfStep
  <2> QED
    BY <1>1, <2>1, SentFromAppended
<1>3. CASE ~\E n \in Server, cmd \in Command : AppendLogEntry(n, cmd)
  <2>1. K = H
    BY <1>3, LogsOfStep
  <2>2. ASSUME NEW m \in Server, state'[m] = "LEADER", currentTerm'[m] = a.term PROVE StartsWith(log'[m], g)
    <3>1. currentTerm[m] = a.term
      BY <1>1, <2>2, LeaderStep
    <3>2. ~(state[m] = "CANDIDATE" /\ BecomeLeader(m))
      BY <1>1, <3>1, TermsOfNewLeader
    <3>3. state[m] = "LEADER" /\ log'[m] = log[m]
      BY <1>1, <1>3, <2>2, <3>2, LeaderStep
    <3> QED
      BY <3>1, <3>3 DEF SentFrom
  <2> QED
    BY <2>1, <2>2 DEF SentFrom
<1> QED
  BY <1>2, <1>3

\* How a call changes with respect to AppendEntries.
LEMMA TaskStep ==
    ASSUME TypeOK, [Next]_vars, NEW c \in DOMAIN task
    PROVE  \/ task'[c] = task[c]
           \/ task'[c].type \notin {"AppendEntriesArgs", "AppendEntriesReply"}
           \/ CreateAppendEntries(c)
           \/ DeliverAppendEntries(c)
<1>1. task \in [Server \X Server \X Slot -> Task]
  BY DEF TypeOK, ProcessTypeOK
<1>2. Idle.type = "idle" /\ Queued.type = "queued"
  BY DEF Idle, Queued
<1>3. CASE task' = task
  BY <1>3
<1>4. ASSUME NEW n \in Server, NEW t, Enqueue(n, t) PROVE task'[c] = task[c] \/ task'[c] = t
  BY <1>4 DEF Enqueue
<1>5. ASSUME NEW n \in Server, MainStep(n)
      PROVE  task'[c] = task[c] \/ task'[c].type \notin {"AppendEntriesArgs", "AppendEntriesReply"}
  <2>1. CASE SendRequestVotes(n)
    <3>1. PICK t : Enqueue(n, [type |-> "RequestVoteArgs", term |-> main[n].term, candidateId |-> n,
                               lastLogIndex |-> main[n].lastLogIndex, lastLogTerm |-> t])
      BY <2>1 DEF SendRequestVotes
    <3> QED
      BY <1>4, <3>1
  <2>2. CASE SendAppendEntriesToPeers(n)
    BY <1>2, <1>4, <2>2 DEF SendAppendEntriesToPeers
  <2> QED
    BY <1>3, <1>5, <2>1, <2>2
       DEF MainStep, CheckElectionTimeout, StartElection, ReadState, ReadTerm, ReadLastLogIndex, ApplyCommittedEntries
<1>6. ASSUME NEW d \in DOMAIN task, CallStep(d), ~CreateAppendEntries(d), ~DeliverAppendEntries(d)
      PROVE  task'[c] = task[c] \/ task'[c].type \notin {"AppendEntriesArgs", "AppendEntriesReply"}
  <2>1. \E t : task' = [task EXCEPT ![d] = t] /\ t.type \notin {"AppendEntriesArgs", "AppendEntriesReply"}
    <3>1. CASE DeliverRequestVote(d)
      <4>1. task' = [task EXCEPT ![d] = RequestVoteReplyTo(d[2], task[d])]
        BY <3>1 DEF DeliverRequestVote, Answer
      <4>2. RequestVoteReplyTo(d[2], task[d]).type = "RequestVoteReply"
        BY DEF RequestVoteReplyTo
      <4> QED
        BY <4>1, <4>2
    <3>2. CASE HandleVoteResponse(d) \/ HandleAppendEntriesResponse(d) \/ LoseCall(d) \/ TimeoutCall(d)
      BY <1>2, <3>2 DEF HandleVoteResponse, HandleAppendEntriesResponse, LoseCall, TimeoutCall
    <3> QED
      BY <1>6, <3>1, <3>2 DEF CallStep
  <2> QED
    BY <1>1, <2>1
<1>7. ASSUME NEW d \in DOMAIN task, d # c, CreateAppendEntries(d) \/ DeliverAppendEntries(d)
      PROVE  task'[c] = task[c]
  BY <1>1, <1>7 DEF CreateAppendEntries, DeliverAppendEntries, Answer
<1>8. ASSUME NEW d \in DOMAIN task, CallStep(d)
      PROVE  \/ task'[c] = task[c]
             \/ task'[c].type \notin {"AppendEntriesArgs", "AppendEntriesReply"}
             \/ CreateAppendEntries(c)
             \/ DeliverAppendEntries(c)
  BY <1>6, <1>7, <1>8
<1>9. ASSUME NEW n \in Server, Restart(n)
      PROVE  task'[c] = task[c] \/ task'[c].type \notin {"AppendEntriesArgs", "AppendEntriesReply"}
  BY <1>2, <1>9 DEF Restart
<1> QED
  BY <1>3, <1>5, <1>8, <1>9 DEF Next, DeliverLate, Discard, AppendLogEntry, PersistThread

\* Where an AppendEntries request comes from.
LEMMA NewAppends ==
    ASSUME TypeOK, [Next]_vars, NEW a \in Appends', a \notin Appends
    PROVE  \E c \in DOMAIN task : CreateAppendEntries(c) /\ a = CreateAppendEntriesArgs(c[1], c[2])
<1>1. task \in [Server \X Server \X Slot -> Task] /\ DOMAIN task' = DOMAIN task
  <2>1. task \in [Server \X Server \X Slot -> Task]
    BY DEF TypeOK, ProcessTypeOK
  <2>2. \A n, t : Enqueue(n, t) => DOMAIN task' = DOMAIN task
    BY DEF Enqueue
  <2> QED
    BY <2>1, <2>2 DEF Next, MainStep, CheckElectionTimeout, StartElection, ReadState, ReadTerm, ReadLastLogIndex,
         SendRequestVotes, SendAppendEntriesToPeers, ApplyCommittedEntries, CallStep, CreateAppendEntries,
         DeliverRequestVote, DeliverAppendEntries, Answer, HandleVoteResponse, HandleAppendEntriesResponse,
         LoseCall, TimeoutCall, DeliverLate, Discard, AppendLogEntry, PersistThread, Restart
<1>2. ASSUME NEW m \in late' PROVE m \in late \/ \E c \in DOMAIN task : m.args = task[c]
  <2>1. CASE late' \subseteq late
    BY <1>2, <2>1
  <2>2. ASSUME NEW c \in DOMAIN task, TimeoutCall(c) PROVE m \in late \/ m.args = task[c]
    BY <1>2, <2>2 DEF TimeoutCall
  <2>3. ASSUME NEW n \in Server, MainStep(n) PROVE late' = late
    BY <2>3 DEF MainStep, CheckElectionTimeout, StartElection, ReadState, ReadTerm, ReadLastLogIndex,
                SendRequestVotes, SendAppendEntriesToPeers, ApplyCommittedEntries
  <2>4. ASSUME NEW c \in DOMAIN task, CallStep(c), ~TimeoutCall(c) PROVE late' = late
    BY <2>4 DEF CallStep, CreateAppendEntries, DeliverRequestVote, DeliverAppendEntries, Answer,
                HandleVoteResponse, HandleAppendEntriesResponse, LoseCall
  <2>5. ASSUME NEW d \in late, DeliverLate(d) PROVE late' \subseteq late
    BY <2>5 DEF DeliverLate, Discard
  <2> QED
    BY <2>1, <2>2, <2>3, <2>4, <2>5 DEF Next, AppendLogEntry, PersistThread, Restart
<1>3. PICK c \in DOMAIN task : a = task'[c] /\ task'[c] # task[c] /\ task'[c].type = "AppendEntriesArgs"
  BY <1>1, <1>2 DEF Appends
<1>4. ~DeliverAppendEntries(c)
  <2>1. AppendEntriesReplyTo(c[2], task[c]).type = "AppendEntriesReply"
    BY DEF AppendEntriesReplyTo, ConsistencyReply, AppendReply
  <2> QED
    BY <1>1, <1>3, <2>1 DEF DeliverAppendEntries, Answer
<1>5. CreateAppendEntries(c)
  BY <1>3, <1>4, TaskStep
<1> QED
  BY <1>1, <1>3, <1>5 DEF CreateAppendEntries

\* The requests stay in order.
LEMMA SentInvKept ==
    ASSUME NEW H, NEW A, NEW K, NEW B, CommitStep(H, A, K, B)
    PROVE  SentInv(K, B)'
<1>1. /\ TypeOK /\ TypeOK' /\ ElectionInv /\ ElectionInv' /\ LogsInv(H) /\ [Next]_vars /\ SentInv(H, A)
      /\ CompleteInv(K, B)' /\ (\A n \in Server : NodeCommitInv(A, n)) /\ H \subseteq K
  BY CompleteInvKept, LogsOfStep DEF CommitStep, CommitInv
<1>2. ASSUME NEW g, NEW c, NEW s, Settled(A, g, c, s) PROVE Settled(B, g, c, s)
  BY <1>2, ChoosableShrinks DEF Settled
<1>3. ASSUME NEW a \in Appends
      PROVE  \E g \in K : SentFrom(K, a, g)' /\ Complete(K, B, g, a.term)' /\ Settled(B, g, a.leaderCommit, a.term)
  <2>1. PICK g \in H : SentFrom(H, a, g) /\ Complete(H, A, g, a.term) /\ Settled(A, g, a.leaderCommit, a.term)
    BY <1>1 DEF SentInv
  <2>2. SentFrom(K, a, g)'
    BY <2>1, SentFromKept
  <2>3. Complete(K, B, g, a.term)'
    <3>1. \E to : GenuineAppend(a, to)
      BY <1>1 DEF ElectionInv, CallsGenuine, CallGenuine, Appends
    <3>2. CASE a.term = 0
      BY <3>2 DEF Complete
    <3>3. CASE \E w : Won(w, a.term)
      <4>1. a.term \in Nat
        BY <1>1, <3>3 DEF Won, TypeOK, HistoryTypeOK, Leader
      <4> QED
        BY <2>1, <3>3, <4>1, CompleteKept
    <3> QED
      BY <3>1, <3>2, <3>3 DEF GenuineAppend
  <2> QED
    BY <1>1, <1>2, <2>1, <2>2, <2>3
<1>4. ASSUME NEW a, NEW c \in DOMAIN task, CreateAppendEntries(c), a = CreateAppendEntriesArgs(c[1], c[2])
      PROVE  \E g \in K : SentFrom(K, a, g)' /\ Complete(K, B, g, a.term)' /\ Settled(B, g, a.leaderCommit, a.term)
  <2> DEFINE n == c[1]
             p == c[2]
  <2>1. n \in Server /\ p \in Server /\ log[n] \in H /\ <<>> \in H
    BY <1>1 DEF TypeOK, ProcessTypeOK, LogsInv, LogsOfNode, LogsOfWinners
  <2>2. UNCHANGED <<currentTerm, state, log, commitIndex>>
    BY <1>4 DEF CreateAppendEntries
  <2>3. K = H
    <3>1. \A m \in Server : log'[m] \in H
      BY <1>1, <2>2 DEF LogsInv, LogsOfNode
    <3> QED
      BY <3>1 DEF CommitStep
  <2>4. \A g : SentFrom(K, a, g)' <=> SentFrom(H, a, g)
    BY <2>2, <2>3 DEF SentFrom
  <2>5. CASE state[n] = "LEADER"
    <3>1. SentFrom(H, a, log[n])
      BY <1>1, <1>4, <2>1, <2>5, CreateAppendLogs
    <3>2. a.term = currentTerm[n] /\ a.leaderCommit = commitIndex[n]
      BY <1>1, <1>4, <2>1, <2>5, CreateArgsCut
    <3>3. Settled(B, log[n], a.leaderCommit, a.term)
      BY <1>1, <1>2, <2>1, <3>2 DEF NodeCommitInv
    <3>4. PICK g : g = log[n]
      OBVIOUS
    <3>5. Complete(K, B, g, a.term)'
      <4>1. Complete(K, B, log[n], currentTerm[n])'
        BY <1>1, <2>1, <2>2, <2>5 DEF CompleteInv
      <4>2. log'[n] = g /\ currentTerm'[n] = a.term
        BY <2>2, <3>2, <3>4
      <4> QED
        BY <4>1, <4>2 DEF Complete
    <3> QED
      BY <1>1, <2>1, <2>4, <3>1, <3>3, <3>4, <3>5
  <2>6. CASE state[n] # "LEADER"
    <3>1. SentFrom(H, a, <<>>)
      BY <1>1, <1>4, <2>1, <2>6, CreateAppendLogs
    <3>2. a.term = 0 /\ a.leaderCommit = 0
      BY <1>4, <2>6 DEF CreateAppendEntriesArgs, DefaultArgs
    <3> QED
      BY <1>1, <2>1, <2>4, <3>1, <3>2 DEF Complete, Settled
  <2> QED
    BY <2>5, <2>6
<1>5. \A a \in Appends' : \E g \in K :
          SentFrom(K, a, g)' /\ Complete(K, B, g, a.term)' /\ Settled(B, g, a.leaderCommit, a.term)
  BY <1>1, <1>3, <1>4, NewAppends
<1> QED
  BY <1>5 DEF SentInv, Settled, Chosen
-----------------------------------------------------------------------------
(* What a leader knows of its peers *)

\* handleAppendEntriesResponse alone credits a peer with more.
LEMMA MatchStep ==
    ASSUME TypeOK, [Next]_vars, NEW n \in Server, state[n] = "LEADER"
    PROVE  \/ matchIndex'[n] = matchIndex[n]
           \/ \E c \in DOMAIN task :
                 /\ c[1] = n /\ task[c].type = "AppendEntriesReply" /\ task[c].success
                 /\ matchIndex'[n] = [matchIndex[n] EXCEPT ![c[2]] = Len(log[n])]
           \/ \E m \in Server : m = n /\ Restart(m)
<1>1. matchIndex \in [Server -> [Server -> Nat]]
  BY DEF TypeOK, IndexTypeOK
<1>2. ASSUME NEW c \in DOMAIN task, CallStep(c)
      PROVE  \/ matchIndex'[n] = matchIndex[n]
             \/ /\ c[1] = n /\ task[c].type = "AppendEntriesReply" /\ task[c].success
                /\ matchIndex'[n] = [matchIndex[n] EXCEPT ![c[2]] = Len(log[n])]
  <2>1. CASE HandleVoteResponse(c)
    <3>1. CASE CountVote(c[1], c[2]) /\ state[c[1]] = "CANDIDATE"
      <4>1. c[1] # n
        BY <3>1
      <4> QED
        BY <1>1, <3>1, <4>1 DEF CountVote, BecomeLeader
    <3> QED
      BY <2>1, <3>1 DEF HandleVoteResponse, IgnoreVoteResponse
  <2>2. CASE HandleAppendEntriesResponse(c)
    <3>1. task[c].type = "AppendEntriesReply"
      BY <2>2 DEF HandleAppendEntriesResponse, AppendEntriesReply
    <3>2. CASE matchIndex' = matchIndex
      BY <3>2
    <3>3. CASE /\ task[c].success
               /\ matchIndex' = [matchIndex EXCEPT ![c[1]] = [matchIndex[c[1]] EXCEPT ![c[2]] = ExpectedMatchIndex(log[c[1]])]]
      BY <1>1, <3>1, <3>3 DEF ExpectedMatchIndex
    <3> QED
      BY <2>2, <3>2, <3>3 DEF HandleAppendEntriesResponse
  <2> QED
    BY <1>2, <2>1, <2>2 DEF CallStep, CreateAppendEntries, DeliverRequestVote, RequestVoteStep, DeliverAppendEntries,
                            AppendEntriesStep, LoseCall, TimeoutCall
<1>3. ASSUME NEW m \in Server, Restart(m) PROVE m = n \/ matchIndex'[n] = matchIndex[n]
  BY <1>1, <1>3 DEF Restart
<1>4. ASSUME NEW m \in Server, MainStep(m) PROVE matchIndex' = matchIndex
  BY <1>4 DEF MainStep, CheckElectionTimeout, StartElection, ReadState, ReadTerm, ReadLastLogIndex, SendRequestVotes,
              SendAppendEntriesToPeers, ApplyCommittedEntries
<1>5. ASSUME NEW m \in late, DeliverLate(m) PROVE matchIndex' = matchIndex
  BY <1>5 DEF DeliverLate, RequestVoteStep, AppendEntriesStep
<1>6. CASE \E c \in DOMAIN task : CallStep(c)
  BY <1>2, <1>6
<1>7. CASE \E m \in Server : Restart(m)
  BY <1>3, <1>7
<1> QED
  BY <1>4, <1>5, <1>6, <1>7 DEF Next, AppendLogEntry, PersistThread

\* A peer that answers the leader's call with success has the leader's log.
LEMMA SuccessMeansAcked ==
    ASSUME TypeOK, NEW H, LogsInv(H), NEW n \in Server, NEW c \in DOMAIN task, c[1] = n, c[2] # n,
           DeliverAppendEntries(c), task[c].term = currentTerm[n], Cut(task[c], log[n]), task'[c].success,
           NEW i, HasAt(log[n], currentTerm[n], i)
    PROVE  HasAt(log'[c[2]], currentTerm[n], i) /\ currentTerm'[c[2]] = currentTerm[n]
<1> DEFINE p == c[2]
           args == task[c]
<1>1. /\ task'[c] = AppendEntriesReplyTo(p, args) /\ args \in AppendEntriesArgs /\ AppendEntriesStep(p, args)
      /\ p \in Server
  BY DEF DeliverAppendEntries, Answer, TypeOK, ProcessTypeOK
<1>2. /\ currentTerm \in [Server -> Nat] /\ log \in [Server -> Seq(Entry)] /\ args.term \in Nat
  BY <1>1 DEF TypeOK, PersistentTypeOK, AppendEntriesArgs
<1>3. args.term >= currentTerm[p] /\ LogConsistent(log[p], args)
  BY <1>1, <1>2 DEF AppendEntriesReplyTo, ConsistencyReply, AppendReply, LogConsistent
<1>4. /\ currentTerm'[p] = args.term
      /\ log'[p] = MergeEntries(log[p], args.prevLogIndex, args.entries)
  BY <1>1, <1>2, <1>3 DEF AppendEntriesStep, HandleAppendEntries, AcceptLeader
<1>5. log'[p] = IF StartsWith(log[p], log[n]) THEN log[p] ELSE log[n]
  <2>1. LogsOfWinners(H) /\ log[p] \in H /\ log[n] \in H
    BY <1>1 DEF LogsInv, LogsOfNode
  <2> QED
    BY <1>1, <1>3, <1>4, <2>1, MergedLog
<1>6. HasAt(log'[p], currentTerm[n], i)
  <2>1. CASE StartsWith(log[p], log[n])
    BY <1>1, <1>2, <1>5, <2>1, HasAtPrefix
  <2> QED
    BY <1>5, <2>1
<1> QED
  BY <1>4, <1>6

\* A leader's knowledge of its peers stays backed by acknowledgements.
LEMMA LeaderInvKept ==
    ASSUME NEW H, NEW A, NEW K, NEW B, CommitStep(H, A, K, B), NEW n \in Server, state'[n] = "LEADER"
    PROVE  LeaderInv(B, n)'
<1>1. /\ TypeOK /\ TypeOK' /\ ElectionInv /\ ElectionInv' /\ LogsInv(H) /\ [Next]_vars /\ lapses' = {}
      /\ A \subseteq B /\ Acked' \subseteq B /\ (state[n] = "LEADER" => LeaderInv(A, n))
  BY DEF CommitStep, CommitInv
<1>2. /\ currentTerm[n] \in Nat /\ log[n] \in Seq(Entry) /\ matchIndex[n] \in [Server -> Nat] /\ log[n] \in H
      /\ task \in [Server \X Server \X Slot -> Task] /\ DOMAIN task' = DOMAIN task
  BY <1>1 DEF TypeOK, PersistentTypeOK, IndexTypeOK, ProcessTypeOK, LogsInv, LogsOfNode
<1>3. currentTerm'[n] = currentTerm[n]
  BY <1>1, LeaderStep
<1>4. CASE state[n] = "CANDIDATE" /\ BecomeLeader(n) /\ UNCHANGED <<log, votes>>
  <2>1. \A p \in Server : matchIndex'[n][p] = 0
    BY <1>1, <1>4 DEF BecomeLeader, TypeOK, IndexTypeOK
  <2>2. \A i \in Nat : ~HasAt(log'[n], currentTerm'[n], i)
    BY <1>1, <1>2, <1>3, <1>4, TermsOfNewLeader DEF HasAt
  <2> QED
    BY <1>2, <1>4, <2>1, <2>2 DEF LeaderInv
<1>5. ASSUME NEW cmd \in Command, AppendLogEntry(n, cmd) PROVE LeaderInv(B, n)'
  <2>1. /\ state[n] = "LEADER" /\ Len(log'[n]) = Len(log[n]) + 1 /\ StartsWith(log'[n], log[n]) /\ log'[n] \in Seq(Entry)
    BY <1>1, <1>5, AppendedLog
  <2>2. /\ matchIndex' = matchIndex /\ task' = task
        /\ \A c \in DOMAIN task : c[1] = n =>
              task[c].type # "AppendEntriesArgs" /\ ~(task[c].type = "AppendEntriesReply" /\ task[c].success)
    <3>1. Creditable(n) = {}
      BY <1>1, <1>5, LapsesGrow
    <3> QED
      BY <1>5, <3>1 DEF AppendLogEntry, Creditable, leaderVars, netVars
  <2>3. LeaderInv(A, n)
    BY <1>1, <2>1
  <2>4. \A p \in Server : matchIndex'[n][p] <= Len(log'[n]) /\ matchIndex[n][p] <= Len(log[n])
    BY <1>2, <2>1, <2>2, <2>3 DEF LeaderInv
  <2>5. ASSUME NEW i \in Nat, HasAt(log'[n], currentTerm'[n], i), NEW p \in Peers(n), matchIndex'[n][p] >= i
        PROVE  <<p, currentTerm'[n], i>> \in B
    <3>1. p \in Server /\ i <= Len(log[n]) /\ matchIndex[n][p] >= i
      BY <1>2, <2>2, <2>4, <2>5 DEF Peers
    <3>2. HasAt(log[n], currentTerm[n], i)
      BY <1>2, <1>3, <2>1, <2>5, <3>1 DEF HasAt, StartsWith
    <3> QED
      BY <1>1, <1>3, <2>3, <2>5, <3>1, <3>2 DEF LeaderInv
  <2> QED
    BY <1>2, <2>2, <2>4, <2>5 DEF LeaderInv
<1>6. CASE state[n] = "LEADER" /\ log'[n] = log[n]
  <2>1. LeaderInv(A, n)
    BY <1>1, <1>6
  <2>2. ASSUME NEW i \in Nat, HasAt(log[n], currentTerm[n], i), NEW c \in DOMAIN task, c[1] = n,
               task[c].type = "AppendEntriesReply", task[c].success
        PROVE  <<c[2], currentTerm[n], i>> \in A
    BY <2>1, <2>2 DEF LeaderInv
  <2>3. ~Restart(n)
    BY <1>1 DEF Restart, TypeOK, RoleTypeOK
  <2>4. /\ \A p \in Server : matchIndex'[n][p] <= Len(log[n])
        /\ \A i \in Nat, p \in Peers(n) : HasAt(log[n], currentTerm[n], i) /\ matchIndex'[n][p] >= i =>
              <<p, currentTerm[n], i>> \in A
    <3>1. CASE matchIndex'[n] = matchIndex[n]
      BY <2>1, <3>1 DEF LeaderInv
    <3>2. ASSUME NEW c \in DOMAIN task, c[1] = n, task[c].type = "AppendEntriesReply", task[c].success,
                 matchIndex'[n] = [matchIndex[n] EXCEPT ![c[2]] = Len(log[n])]
          PROVE  /\ \A p \in Server : matchIndex'[n][p] <= Len(log[n])
                 /\ \A i \in Nat, p \in Peers(n) : HasAt(log[n], currentTerm[n], i) /\ matchIndex'[n][p] >= i =>
                       <<p, currentTerm[n], i>> \in A
      <4>1. \A p \in Server : matchIndex'[n][p] = IF p = c[2] THEN Len(log[n]) ELSE matchIndex[n][p]
        BY <1>2, <3>2
      <4>2. ASSUME NEW i \in Nat, NEW p \in Peers(n), HasAt(log[n], currentTerm[n], i), matchIndex'[n][p] >= i
            PROVE  <<p, currentTerm[n], i>> \in A
        <5>1. CASE p = c[2]
          BY <2>2, <3>2, <4>2, <5>1
        <5>2. CASE p # c[2]
          BY <2>1, <4>1, <4>2, <5>2 DEF LeaderInv, Peers
        <5> QED
          BY <5>1, <5>2
      <4>3. Len(log[n]) \in Nat /\ \A p \in Server : matchIndex[n][p] <= Len(log[n])
        BY <1>2, <2>1 DEF LeaderInv
      <4>4. \A p \in Server : matchIndex'[n][p] <= Len(log[n])
        BY <4>1, <4>3
      <4> QED
        BY <4>2, <4>4
    <3> QED
      BY <1>1, <1>6, <2>3, <3>1, <3>2, MatchStep
  <2>5. ASSUME NEW i \in Nat, HasAt(log[n], currentTerm[n], i), NEW c \in DOMAIN task, c[1] = n
        PROVE  /\ task'[c].type = "AppendEntriesArgs" => task'[c].term = currentTerm[n] /\ Cut(task'[c], log[n])
               /\ task'[c].type = "AppendEntriesReply" => (task'[c].success => <<c[2], currentTerm[n], i>> \in B)
    <3>1. CASE task'[c] = task[c]
      BY <1>1, <2>1, <2>5, <3>1 DEF LeaderInv
    <3>2. CASE CreateAppendEntries(c)
      <4>1. task'[c] = CreateAppendEntriesArgs(n, c[2]) /\ c[2] \in Server
        BY <1>2, <2>5, <3>2 DEF CreateAppendEntries
      <4>2. CreateAppendEntriesArgs(n, c[2]).type = "AppendEntriesArgs"
        BY <1>6 DEF CreateAppendEntriesArgs, CreateArgs
      <4> QED
        BY <1>1, <1>6, <4>1, <4>2, CreateArgsCut
    <3>3. CASE DeliverAppendEntries(c)
      <4>1. task[c].type = "AppendEntriesArgs" /\ c[2] \in Server
        BY <1>2, <3>3 DEF DeliverAppendEntries, AppendEntriesArgs
      <4>2. task[c].term = currentTerm[n] /\ Cut(task[c], log[n]) /\ c[2] # n
        BY <1>1, <2>1, <2>5, <4>1 DEF LeaderInv, ElectionInv, CallsGenuine, CallGenuine
      <4>3. task'[c].type = "AppendEntriesReply"
        <5>1. task'[c] = AppendEntriesReplyTo(c[2], task[c])
          BY <1>2, <3>3 DEF DeliverAppendEntries, Answer
        <5> QED
          BY <5>1 DEF AppendEntriesReplyTo, ConsistencyReply, AppendReply
      <4>4. ASSUME task'[c].success PROVE <<c[2], currentTerm[n], i>> \in B
        <5>1. HasAt(log'[c[2]], currentTerm[n], i) /\ currentTerm'[c[2]] = currentTerm[n]
          BY <1>1, <2>5, <3>3, <4>2, <4>4, SuccessMeansAcked
        <5>2. <<c[2], currentTerm[n], i>> \in Acked'
          BY <1>2, <4>1, <5>1 DEF Acked
        <5> QED
          BY <1>1, <5>2
      <4> QED
        BY <4>3, <4>4
    <3> QED
      BY <1>1, <3>1, <3>2, <3>3, TaskStep
  <2> QED
    BY <1>1, <1>2, <1>3, <1>6, <2>4, <2>5 DEF LeaderInv
<1> QED
  BY <1>1, <1>4, <1>5, <1>6, LeaderStep
-----------------------------------------------------------------------------
(* Commit indexes and the state machines *)

\* A node's log keeps what the node regards as committed.
LEMMA SettledKept ==
    ASSUME NEW H, NEW A, NEW K, NEW B, CommitStep(H, A, K, B), NEW n \in Server
    PROVE  /\ commitIndex[n] <= Len(log[n]) /\ commitIndex[n] <= Len(log'[n])
           /\ \A x \in 1..commitIndex[n] : log[n][x] = log'[n][x]
           /\ Settled(B, log'[n], commitIndex[n], currentTerm'[n])
<1>1. /\ LogsOfWinners(K)' /\ log[n] \in K /\ log'[n] \in K /\ LogsKeep(A)
      /\ Settled(A, log[n], commitIndex[n], currentTerm[n])
  BY LogsOfStep, NextKeepsChosen DEF CommitStep, CommitInv, NodeCommitInv, LogsInv, LogsOfNode
<1>2. /\ commitIndex[n] \in Nat /\ log[n] \in Seq(Entry) /\ log'[n] \in Seq(Entry)
      /\ currentTerm[n] \in Nat /\ currentTerm'[n] \in Nat /\ currentTerm[n] <= currentTerm'[n]
  BY NextKeepsLog DEF CommitStep, TypeOK, PersistentTypeOK, IndexTypeOK, CandidatesKeepLog
<1>3. CASE commitIndex[n] = 0
  BY <1>2, <1>3 DEF Settled
<1>4. CASE commitIndex[n] > 0
  <2>1. PICK t \in Nat, i \in Nat : /\ t <= currentTerm[n] /\ commitIndex[n] <= i
                                    /\ Chosen(A, t, i) /\ HasAt(log[n], t, i)
    BY <1>1, <1>4 DEF Settled
  <2>2. HasAt(log'[n], t, i)
    BY <1>1, <2>1 DEF LogsKeep, Chosen, Choosable
  <2>3. \A x \in 1..i : log[n][x] = log'[n][x]
    <3>1. Explains(log'[n], log[n])
      BY <1>1 DEF LogsOfWinners
    <3> QED
      BY <1>2, <2>1, <2>2, <3>1, AgreeUpTo
  <2>4. Chosen(B, t, i) /\ t <= currentTerm'[n]
    BY <1>2, <2>1, ChoosableShrinks
  <2>5. i <= Len(log[n]) /\ i <= Len(log'[n])
    BY <2>1, <2>2 DEF HasAt
  <2> QED
    BY <1>2, <2>1, <2>2, <2>3, <2>4, <2>5 DEF Settled
<1> QED
  BY <1>2, <1>3, <1>4

\* applyCommittedEntriesInternal: none skipped, none applied twice.
LEMMA ApplyKeepsPrefix ==
    ASSUME IndexTypeOK, NEW n \in Server, NEW l \in Seq(Entry), NEW c \in Nat, c <= Len(l), lastApplied[n] <= c,
           applied[n] = SubSeq(l, 1, lastApplied[n]), ApplyCommitted(n, l, c)
    PROVE  lastApplied'[n] = c /\ applied'[n] = SubSeq(l, 1, c)
<1>1. lastApplied[n] \in Nat /\ Len(l) \in Nat
  BY DEF IndexTypeOK
<1>2. Min({c, Len(l)}) = c /\ Max({lastApplied[n], c}) = c
  <2>1. Min({c, Len(l)}) \in {c, Len(l)} /\ Min({c, Len(l)}) <= c
    BY <1>1, MinOfTwo
  <2>2. Max({lastApplied[n], c}) \in {lastApplied[n], c} /\ Max({lastApplied[n], c}) >= c
    BY <1>1, MaxOfTwo
  <2> QED
    BY <1>1, <2>1, <2>2
<1>3. SubSeq(l, 1, lastApplied[n]) \o SubSeq(l, lastApplied[n] + 1, c) = SubSeq(l, 1, c)
  <2>1. 1 \in 1..Len(l)+1 /\ lastApplied[n] \in (1-1)..Len(l) /\ c \in lastApplied[n]..Len(l)
    BY <1>1
  <2> QED
    BY <2>1, ConcatAdjacentSubSeq
<1> QED
  BY <1>2, <1>3 DEF ApplyCommitted, IndexTypeOK

\* A step keeps the invariant of commitment when every node's indexes are in
\* order after it, and what it newly regards as committed is so to some node.
LEMMA CommitKept ==
    ASSUME NEW H, NEW A, NEW K, NEW B, CommitStep(H, A, K, B),
           \A m \in Server :
              \/ NodeCommitInv(B, m)'
              \/ /\ commitIndex'[m] = commitIndex[m]
                 /\ lastApplied'[m] = lastApplied[m] /\ applied'[m] = applied[m],
           \A d \in decided' : d \in decided \/ \E p \in Server : d \in CommittedEntries(log'[p], commitIndex'[p])
    PROVE  (\A m \in Server : NodeCommitInv(B, m)') /\ DecidedInv(K, B)'
<1>1. ASSUME NEW m \in Server, commitIndex'[m] = commitIndex[m],
             lastApplied'[m] = lastApplied[m], applied'[m] = applied[m]
      PROVE  NodeCommitInv(B, m)'
  <2>1. /\ commitIndex[m] <= Len(log[m]) /\ commitIndex[m] <= Len(log'[m])
        /\ \A x \in 1..commitIndex[m] : log[m][x] = log'[m][x]
        /\ Settled(B, log'[m], commitIndex[m], currentTerm'[m])
    BY SettledKept
  <2>2. lastApplied[m] <= commitIndex[m] /\ applied[m] = SubSeq(log[m], 1, lastApplied[m])
    BY DEF CommitStep, CommitInv, NodeCommitInv
  <2>3. /\ commitIndex[m] \in Nat /\ lastApplied[m] \in Nat /\ log[m] \in Seq(Entry) /\ log'[m] \in Seq(Entry)
    BY DEF CommitStep, TypeOK, PersistentTypeOK, IndexTypeOK
  <2>4. SubSeq(log[m], 1, lastApplied[m]) = SubSeq(log'[m], 1, lastApplied[m])
    <3>1. /\ lastApplied[m] <= Len(log[m]) /\ lastApplied[m] <= Len(log'[m])
          /\ \A x \in 1..lastApplied[m] : log[m][x] = log'[m][x]
      BY <2>1, <2>2, <2>3
    <3> QED
      BY <2>3, <3>1, SamePrefix
  <2> QED
    BY <1>1, <2>1, <2>2, <2>4 DEF NodeCommitInv, Settled, Chosen
<1>2. \A m \in Server : NodeCommitInv(B, m)'
  BY <1>1
<1>3. H \subseteq K /\ \A n \in Server : log'[n] \in K
  BY LogsOfStep
<1>4. ASSUME NEW d \in decided
      PROVE  d.index > 0 /\ \E h \in K : Has(h, d) /\ \E t, i \in Nat : d.index <= i /\ Chosen(B, t, i) /\ HasAt(h, t, i)
  <2>1. /\ d.index > 0
        /\ \E h \in H : Has(h, d) /\ \E t, i \in Nat : d.index <= i /\ Chosen(A, t, i) /\ HasAt(h, t, i)
    BY DEF CommitStep, CommitInv, DecidedInv
  <2> QED
    BY <1>3, <2>1, ChoosableShrinks
<1>5. ASSUME NEW p \in Server, NEW d \in CommittedEntries(log'[p], commitIndex'[p])
      PROVE  d.index > 0 /\ \E h \in K : Has(h, d) /\ \E t, i \in Nat : d.index <= i /\ Chosen(B, t, i) /\ HasAt(h, t, i)
  <2>1. log'[p] \in Seq(Entry) /\ commitIndex'[p] \in Nat
    BY DEF CommitStep, TypeOK, PersistentTypeOK, IndexTypeOK
  <2>2. PICK i \in 1..Min({commitIndex'[p], Len(log'[p])}) : d = [index |-> i, entry |-> log'[p][i]]
    BY DEF CommittedEntries
  <2>3. i \in Nat /\ i > 0 /\ i <= commitIndex'[p] /\ i <= Len(log'[p])
    <3>1. /\ Len(log'[p]) \in Nat
          /\ Min({commitIndex'[p], Len(log'[p])}) \in {commitIndex'[p], Len(log'[p])}
          /\ Min({commitIndex'[p], Len(log'[p])}) <= commitIndex'[p]
          /\ Min({commitIndex'[p], Len(log'[p])}) <= Len(log'[p])
      BY <2>1, MinOfTwo
    <3> QED
      BY <2>1, <3>1
  <2>4. Has(log'[p], d) /\ d.index = i
    BY <2>2, <2>3 DEF Has
  <2>5. PICK t \in Nat, j \in Nat : commitIndex'[p] <= j /\ Chosen(B, t, j) /\ HasAt(log'[p], t, j)
    <3>1. Settled(B, log'[p], commitIndex'[p], currentTerm'[p])
      BY <1>2 DEF NodeCommitInv, Settled, Chosen
    <3> QED
      BY <2>1, <2>3, <3>1 DEF Settled
  <2>6. d.index <= j
    BY <2>1, <2>3, <2>4, <2>5
  <2> QED
    BY <1>3, <2>3, <2>4, <2>5, <2>6
<1>6. DecidedInv(K, B)'
  <2>1. \A d \in decided' : /\ d.index > 0
                            /\ \E h \in K : Has(h, d) /\ \E t, i \in Nat : d.index <= i /\ Chosen(B, t, i) /\ HasAt(h, t, i)
    BY <1>4, <1>5
  <2> QED
    BY <2>1 DEF DecidedInv, Chosen
<1> QED
  BY <1>2, <1>6

\* applyCommittedEntries
LEMMA ApplyCommits ==
    ASSUME NEW H, NEW A, NEW K, NEW B, CommitStep(H, A, K, B), NEW n \in Server, ApplyCommittedEntries(n)
    PROVE  (\A m \in Server : NodeCommitInv(B, m)') /\ DecidedInv(K, B)'
<1>1. /\ TypeOK /\ NodeCommitInv(A, n) /\ log' = log /\ UNCHANGED <<commitIndex, decided>>
      /\ ApplyCommitted(n, log[n], commitIndex[n])
  BY DEF CommitStep, CommitInv, ApplyCommittedEntries
<1>2. /\ IndexTypeOK /\ log[n] \in Seq(Entry) /\ commitIndex[n] \in Nat
  BY <1>1 DEF TypeOK, PersistentTypeOK, IndexTypeOK
<1>3. commitIndex[n] <= Len(log[n]) /\ Settled(B, log'[n], commitIndex[n], currentTerm'[n])
  BY SettledKept
<1>4. lastApplied'[n] = commitIndex[n] /\ applied'[n] = SubSeq(log[n], 1, commitIndex[n])
  BY <1>1, <1>2, <1>3, ApplyKeepsPrefix DEF NodeCommitInv
<1>5. NodeCommitInv(B, n)'
  BY <1>1, <1>2, <1>3, <1>4 DEF NodeCommitInv, Settled, Chosen
<1>6. \A m \in Server \ {n} : lastApplied'[m] = lastApplied[m] /\ applied'[m] = applied[m]
  BY <1>1, <1>2 DEF ApplyCommitted, IndexTypeOK
<1> QED
  BY <1>1, <1>5, <1>6, CommitKept

\* handleAppendEntries: what the leader regards as committed is in the merged log.
LEMMA FollowerCommits ==
    ASSUME NEW H, NEW A, NEW K, NEW B, CommitStep(H, A, K, B), NEW p \in Server,
           NEW args \in AppendEntriesArgs, args \in Appends, AppendEntriesStep(p, args)
    PROVE  (\A m \in Server : NodeCommitInv(B, m)') /\ DecidedInv(K, B)'
<1>1. /\ TypeOK /\ TypeOK' /\ LogsInv(H) /\ SentInv(H, A) /\ NodeCommitInv(A, p)
  BY DEF CommitStep, CommitInv
<1>2. PICK g \in H :
        /\ Settled(A, g, args.leaderCommit, args.term)
        /\ \/ UNCHANGED commitVars
           \/ /\ currentTerm'[p] = args.term
              /\ log'[p] = IF StartsWith(log[p], g) THEN log[p] ELSE g
              /\ FollowerCommit(p, args, log'[p])
  BY <1>1, AppendEntriesEffect
<1>3. CASE UNCHANGED commitVars
  BY <1>3, CommitKept
<1>4. CASE /\ currentTerm'[p] = args.term
           /\ log'[p] = IF StartsWith(log[p], g) THEN log[p] ELSE g
           /\ args.leaderCommit > commitIndex[p]
           /\ LET c == Min({args.leaderCommit, Len(log'[p])})
              IN  /\ commitIndex' = [commitIndex EXCEPT ![p] = c]
                  /\ ApplyCommitted(p, log'[p], c)
                  /\ decided' = decided \cup CommittedEntries(log'[p], c)
  <2> DEFINE lc == args.leaderCommit
             c == Min({lc, Len(log'[p])})
  <2>1. /\ IndexTypeOK /\ log[p] \in Seq(Entry) /\ log'[p] \in Seq(Entry) /\ commitIndex[p] \in Nat
        /\ lastApplied[p] \in Nat /\ lc \in Nat /\ g \in Seq(Entry) /\ Len(log'[p]) \in Nat
    <3>1. log \in [Server -> Seq(Entry)] /\ log' \in [Server -> Seq(Entry)]
      BY <1>1 DEF TypeOK, PersistentTypeOK
    <3>2. IndexTypeOK /\ commitIndex[p] \in Nat /\ lastApplied[p] \in Nat
      BY <1>1 DEF TypeOK, IndexTypeOK
    <3>3. g \in Seq(Entry)
      BY <1>1 DEF LogsInv, LogsOfWinners
    <3>4. lc \in Nat
      BY DEF AppendEntriesArgs
    <3> QED
      BY <3>1, <3>2, <3>3, <3>4
  <2>2. PICK t \in Nat, i \in Nat : t <= args.term /\ lc <= i /\ Chosen(A, t, i) /\ HasAt(g, t, i)
    BY <1>2, <1>4, <2>1 DEF Settled
  <2>3. HasAt(log'[p], t, i)
    <3>1. CASE StartsWith(log[p], g)
      BY <1>4, <2>1, <2>2, <3>1, HasAtPrefix
    <3> QED
      BY <1>4, <2>2, <3>1
  <2>4. lc <= Len(log'[p])
    BY <2>1, <2>2, <2>3 DEF HasAt
  <2>5. c = lc
    <3>1. c \in {lc, Len(log'[p])} /\ c <= lc
      BY <2>1, MinOfTwo
    <3> QED
      BY <2>1, <2>4, <3>1
  <2> HIDE DEF c, lc
  <2>6. /\ commitIndex' = [commitIndex EXCEPT ![p] = lc] /\ ApplyCommitted(p, log'[p], lc)
        /\ decided' = decided \cup CommittedEntries(log'[p], lc) /\ lc > commitIndex[p]
    BY <1>4, <2>5 DEF c, lc
  <2>7. applied[p] = SubSeq(log'[p], 1, lastApplied[p]) /\ lastApplied[p] <= lc
    <3>1. /\ lastApplied[p] <= commitIndex[p] /\ applied[p] = SubSeq(log[p], 1, lastApplied[p])
          /\ commitIndex[p] <= Len(log[p]) /\ commitIndex[p] <= Len(log'[p])
          /\ \A x \in 1..commitIndex[p] : log[p][x] = log'[p][x]
      BY <1>1, SettledKept DEF NodeCommitInv
    <3>2. /\ lastApplied[p] <= Len(log[p]) /\ lastApplied[p] <= Len(log'[p])
          /\ \A x \in 1..lastApplied[p] : log[p][x] = log'[p][x]
      BY <2>1, <3>1
    <3>3. SubSeq(log[p], 1, lastApplied[p]) = SubSeq(log'[p], 1, lastApplied[p])
      BY <2>1, <3>2, SamePrefix
    <3> QED
      BY <2>1, <2>6, <3>1, <3>3
  <2>8. lastApplied'[p] = lc /\ applied'[p] = SubSeq(log'[p], 1, lc)
    <3>1. PICK l : l = log'[p]
      OBVIOUS
    <3> QED
      BY <2>1, <2>4, <2>6, <2>7, <3>1, ApplyKeepsPrefix
  <2>9. commitIndex'[p] = lc /\ \A m \in Server \ {p} : commitIndex'[m] = commitIndex[m]
    BY <2>1, <2>6 DEF IndexTypeOK
  <2>10. Settled(B, log'[p], lc, currentTerm'[p])
    <3>1. Chosen(B, t, i)
      BY <2>2, ChoosableShrinks
    <3> QED
      BY <1>4, <2>2, <2>3, <3>1 DEF Settled, lc
  <2>11. NodeCommitInv(B, p)'
    BY <2>1, <2>8, <2>9, <2>10 DEF NodeCommitInv, Settled, Chosen
  <2>12. \A m \in Server \ {p} : lastApplied'[m] = lastApplied[m] /\ applied'[m] = applied[m]
    BY <2>1, <2>6 DEF ApplyCommitted, IndexTypeOK
  <2> QED
    BY <2>6, <2>9, <2>11, <2>12, CommitKept
<1> QED
  BY <1>2, <1>3, <1>4 DEF FollowerCommit

\* updateCommitIndex: it goes no further than an entry of the leader's own term
\* that a majority has acknowledged.
LEMMA CountedIsChosen ==
    ASSUME TypeOK, NEW A, NEW n \in Server, NEW match \in [Server -> Nat],
           \A i \in Nat : HasAt(log[n], currentTerm[n], i) =>
              /\ <<n, currentTerm[n], i>> \in A
              /\ \A p \in Peers(n) : match[p] >= i => <<p, currentTerm[n], i>> \in A
    PROVE  LET c == UpdateCommitIndex(n, match)
           IN  /\ c \in Nat /\ c >= commitIndex[n]
               /\ c # commitIndex[n] => HasAt(log[n], currentTerm[n], c) /\ Chosen(A, currentTerm[n], c)
<1> DEFINE S == {i \in commitIndex[n]+1..Len(log[n]) :
                   log[n][i].term = currentTerm[n] /\ Replicated(match, n, i)}
           c == UpdateCommitIndex(n, match)
<1>1. commitIndex[n] \in Nat /\ log[n] \in Seq(Entry) /\ Len(log[n]) \in Nat /\ currentTerm[n] \in Nat
  BY DEF TypeOK, IndexTypeOK, PersistentTypeOK
<1>2. c \in {commitIndex[n]} \cup S /\ c >= commitIndex[n]
  <2>1. PICK b \in Nat : b >= commitIndex[n] /\ b >= Len(log[n])
    <3>1. commitIndex[n] + Len(log[n]) \in Nat
      BY <1>1
    <3> QED
      BY <1>1, <3>1
  <2>2. {commitIndex[n]} \cup S \in SUBSET Nat /\ \A x \in {commitIndex[n]} \cup S : x <= b
    BY <1>1, <2>1
  <2>3. c = Max({commitIndex[n]} \cup S)
    BY DEF UpdateCommitIndex
  <2> QED
    BY <2>2, <2>3, MaxOfNaturals
<1>3. ASSUME c \in S PROVE HasAt(log[n], currentTerm[n], c) /\ Chosen(A, currentTerm[n], c)
  <2>1. c \in Nat /\ HasAt(log[n], currentTerm[n], c) /\ Replicated(match, n, c)
    BY <1>1, <1>3 DEF HasAt
  <2> HIDE DEF c
  <2> DEFINE R == {p \in Peers(n) : match[p] >= c}
             Q == R \cup {n}
  <2>2. IsFiniteSet(R) /\ n \notin R /\ R \subseteq Server
    BY ServersFinite, FS_Subset DEF Peers
  <2>3. Cardinality(Q) = Cardinality(R) + 1 /\ Cardinality(R) \in Nat
    BY <2>2, FS_AddElement, FS_CardinalityType
  <2>4. Cardinality(Q) >= Majority
    BY <2>1, <2>3 DEF Replicated
  <2>5. Q \in SUBSET Server /\ \A q \in Q : <<q, currentTerm[n], c>> \in A
    BY <2>1, <2>2
  <2> QED
    BY <2>1, <2>4, <2>5 DEF Chosen
<1> QED
  BY <1>1, <1>2, <1>3

\* handleAppendEntriesResponse
LEMMA ResponseCommits ==
    ASSUME NEW H, NEW A, NEW K, NEW B, CommitStep(H, A, K, B), NEW c \in DOMAIN task,
           HandleAppendEntriesResponse(c)
    PROVE  (\A m \in Server : NodeCommitInv(B, m)') /\ DecidedInv(K, B)'
<1> DEFINE n == c[1]
<1>1. /\ TypeOK /\ TypeOK' /\ n \in Server /\ NodeCommitInv(A, n)
      /\ state[n] \in {"FOLLOWER", "CANDIDATE", "LEADER"}
  <2>1. TypeOK /\ TypeOK' /\ n \in Server
    BY DEF CommitStep, TypeOK, ProcessTypeOK
  <2> QED
    BY <2>1 DEF CommitStep, CommitInv, TypeOK, RoleTypeOK
<1>2. CASE UNCHANGED commitVars
  BY <1>2, CommitKept
<1>3. CASE /\ state[n] = "LEADER"
           /\ UNCHANGED <<raftVars, log, disk, lastApplied, applied>>
           /\ LET match == [matchIndex[n] EXCEPT ![c[2]] = ExpectedMatchIndex(log[n])]
                  commit == UpdateCommitIndex(n, match)
              IN  /\ matchIndex' = [matchIndex EXCEPT ![n] = match]
                  /\ commitIndex' = [commitIndex EXCEPT ![n] = commit]
                  /\ decided' = decided \cup CommittedEntries(log[n], commit)
  <2>1. PICK match : match = [matchIndex[n] EXCEPT ![c[2]] = ExpectedMatchIndex(log[n])]
    OBVIOUS
  <2>2. PICK commit : commit = UpdateCommitIndex(n, match)
    OBVIOUS
  <2>3. /\ matchIndex' = [matchIndex EXCEPT ![n] = match]
        /\ commitIndex' = [commitIndex EXCEPT ![n] = commit]
        /\ decided' = decided \cup CommittedEntries(log[n], commit)
    BY <1>3, <2>1, <2>2
  <2>4. matchIndex'[n] = match /\ match \in [Server -> Nat]
    BY <1>1, <2>3 DEF TypeOK, IndexTypeOK
  <2>5. ASSUME NEW i \in Nat, HasAt(log[n], currentTerm[n], i)
        PROVE  /\ <<n, currentTerm[n], i>> \in B
               /\ \A p \in Peers(n) : match[p] >= i => <<p, currentTerm[n], i>> \in B
    <3>1. state'[n] = "LEADER" /\ HasAt(log'[n], currentTerm'[n], i) /\ currentTerm'[n] = currentTerm[n]
      BY <1>3, <2>5
    <3>2. LeaderInv(B, n)'
      BY <1>1, <3>1, LeaderInvKept
    <3>3. \A p \in Peers(n) : matchIndex'[n][p] >= i => <<p, currentTerm'[n], i>> \in B
      BY <3>1, <3>2 DEF LeaderInv
    <3>4. <<n, currentTerm'[n], i>> \in B
      BY <1>1, <3>1, AcksInvKept DEF AcksInv
    <3> QED
      BY <2>4, <3>1, <3>3, <3>4
  <2>6. /\ commit \in Nat /\ commit >= commitIndex[n]
        /\ commit # commitIndex[n] => HasAt(log[n], currentTerm[n], commit) /\ Chosen(B, currentTerm[n], commit)
    BY <1>1, <2>2, <2>4, <2>5, CountedIsChosen
  <2>7. commitIndex'[n] = commit /\ \A m \in Server \ {n} : commitIndex'[m] = commitIndex[m]
    BY <1>1, <2>3 DEF TypeOK, IndexTypeOK
  <2>8. CASE commit = commitIndex[n]
    BY <1>1, <1>3, <2>3, <2>7, <2>8, CommitKept
  <2>9. CASE commit # commitIndex[n]
    <3>1. lastApplied[n] \in Nat /\ commitIndex[n] \in Nat /\ currentTerm[n] \in Nat
      BY <1>1 DEF TypeOK, IndexTypeOK, PersistentTypeOK
    <3>2. Settled(B, log'[n], commit, currentTerm'[n])
      BY <1>3, <2>6, <2>9, <3>1 DEF Settled
    <3>3. lastApplied[n] <= commit /\ applied[n] = SubSeq(log[n], 1, lastApplied[n])
      BY <1>1, <2>6, <3>1 DEF NodeCommitInv
    <3>4. NodeCommitInv(B, n)'
      BY <1>3, <2>7, <3>2, <3>3 DEF NodeCommitInv, Settled, Chosen
    <3> QED
      BY <1>1, <1>3, <2>3, <2>7, <3>4, CommitKept
  <2> QED
    BY <2>8, <2>9
<1> QED
  BY <1>2, <1>3 DEF HandleAppendEntriesResponse

\* A crash leaves nothing committed or applied.
LEMMA RestartCommits ==
    ASSUME NEW H, NEW A, NEW K, NEW B, CommitStep(H, A, K, B), NEW n \in Server, Restart(n)
    PROVE  (\A m \in Server : NodeCommitInv(B, m)') /\ DecidedInv(K, B)'
<1>1. /\ commitIndex'[n] = 0 /\ lastApplied'[n] = 0 /\ applied'[n] = <<>> /\ decided' = decided
      /\ \A m \in Server \ {n} : /\ commitIndex'[m] = commitIndex[m]
                                 /\ lastApplied'[m] = lastApplied[m] /\ applied'[m] = applied[m]
  BY DEF Restart, CommitStep, TypeOK, IndexTypeOK
<1>2. SubSeq(log'[n], 1, 0) = <<>>
  BY SubSeqEmpty
<1>3. NodeCommitInv(B, n)'
  BY <1>1, <1>2 DEF NodeCommitInv, Settled
<1> QED
  BY <1>1, <1>3, CommitKept

\* Every step keeps the commit indexes and the state machines in order.
LEMMA IndexesKept ==
    ASSUME NEW H, NEW A, NEW K, NEW B, CommitStep(H, A, K, B)
    PROVE  (\A m \in Server : NodeCommitInv(B, m)') /\ DecidedInv(K, B)'
<1>1. TypeOK /\ [Next]_vars
  BY DEF CommitStep
<1>2. CASE UNCHANGED commitVars
  BY <1>2, CommitKept
<1>3. ASSUME NEW n \in Server, MainStep(n) PROVE (\A m \in Server : NodeCommitInv(B, m)') /\ DecidedInv(K, B)'
  <2>1. CASE ApplyCommittedEntries(n)
    BY <2>1, ApplyCommits
  <2> QED
    BY <1>2, <1>3, <2>1 DEF MainStep, CheckElectionTimeout, StartElection, ReadState, ReadTerm, ReadLastLogIndex,
                            SendRequestVotes, SendAppendEntriesToPeers
<1>4. ASSUME NEW c \in DOMAIN task, CallStep(c)
      PROVE (\A m \in Server : NodeCommitInv(B, m)') /\ DecidedInv(K, B)'
  <2>1. CASE DeliverAppendEntries(c)
    <3>1. task[c] \in AppendEntriesArgs /\ AppendEntriesStep(c[2], task[c]) /\ c[2] \in Server
      BY <1>1, <2>1 DEF DeliverAppendEntries, TypeOK, ProcessTypeOK
    <3>2. task[c] \in Appends
      BY <3>1 DEF Appends, AppendEntriesArgs
    <3> QED
      BY <3>1, <3>2, FollowerCommits
  <2>2. CASE HandleAppendEntriesResponse(c)
    BY <2>2, ResponseCommits
  <2> QED
    BY <1>2, <1>4, <2>1, <2>2 DEF CallStep, CreateAppendEntries, DeliverRequestVote, RequestVoteStep,
                                  HandleVoteResponse, LoseCall, TimeoutCall
<1>5. ASSUME NEW m \in late, DeliverLate(m) PROVE (\A n \in Server : NodeCommitInv(B, n)') /\ DecidedInv(K, B)'
  <2>1. CASE m.args \in AppendEntriesArgs /\ AppendEntriesStep(m.to, m.args)
    <3>1. m.args \in Appends /\ m.to \in Server
      BY <1>1, <2>1 DEF Appends, AppendEntriesArgs, TypeOK, ProcessTypeOK
    <3> QED
      BY <2>1, <3>1, FollowerCommits
  <2> QED
    BY <1>2, <1>5, <2>1 DEF DeliverLate, RequestVoteStep
<1>6. ASSUME NEW n \in Server, Restart(n) PROVE (\A m \in Server : NodeCommitInv(B, m)') /\ DecidedInv(K, B)'
  BY <1>6, RestartCommits
<1>7. ASSUME NEW n \in Server, (\E cmd \in Command : AppendLogEntry(n, cmd)) \/ PersistThread(n)
      PROVE  (\A m \in Server : NodeCommitInv(B, m)') /\ DecidedInv(K, B)'
  <2>1. UNCHANGED <<commitIndex, lastApplied, applied, decided>>
    BY <1>7 DEF AppendLogEntry, PersistThread, commitVars
  <2> QED
    BY <2>1, CommitKept
<1> QED
  BY <1>1, <1>2, <1>3, <1>4, <1>5, <1>6, <1>7 DEF Next

\* The invariant of commitment is kept.
LEMMA NextCommit ==
    ASSUME NEW H, NEW A, NEW K, NEW B, CommitStep(H, A, K, B)
    PROVE  LogsInv(K)' /\ CommitInv(K, B)'
<1>1. \A n \in Server : state'[n] = "LEADER" => LeaderInv(B, n)'
  BY LeaderInvKept
<1> QED
  BY <1>1, AcksInvKept, CompleteInvKept, VotersInvKept, SentInvKept, IndexesKept, LogsOfStep DEF CommitInv
-----------------------------------------------------------------------------
(* Theorems *)

\* Some set of logs and some set of acknowledgements account for the state.
CommitExplained ==
    \E H \in SUBSET Seq(Entry), A \in SUBSET (Server \X Nat \X Nat) : LogsInv(H) /\ CommitInv(H, A)

\* At first nothing is acknowledged, and nothing has to be.
LEMMA InitCommit == Init => CommitInv({<<>>}, {})
<1> SUFFICES ASSUME Init PROVE CommitInv({<<>>}, {})
  OBVIOUS
<1>1. \A n \in Server : /\ log[n] = <<>> /\ state[n] = "FOLLOWER" /\ commitIndex[n] = 0
                        /\ lastApplied[n] = 0 /\ applied[n] = <<>>
  BY DEF Init
<1>2. votes = {} /\ decided = {} /\ Appends = {}
  BY DEF Init, Appends, Idle
<1>3. AcksInv({<<>>}, {})
  BY <1>1 DEF AcksInv, HasAt
<1>4. CompleteInv({<<>>}, {})
  BY <1>1 DEF CompleteInv
<1>5. VotersInv({}) /\ SentInv({<<>>}, {}) /\ DecidedInv({<<>>}, {})
  BY <1>2 DEF VotersInv, SentInv, DecidedInv
<1>6. ASSUME NEW n \in Server PROVE NodeCommitInv({}, n)
  <2>1. SubSeq(log[n], 1, 0) = <<>>
    BY SubSeqEmpty
  <2>2. commitIndex[n] = 0 /\ lastApplied[n] = 0 /\ applied[n] = SubSeq(log[n], 1, lastApplied[n])
    BY <1>1, <2>1
  <2> QED
    BY <2>2 DEF NodeCommitInv, Settled
<1> QED
  BY <1>1, <1>3, <1>4, <1>5, <1>6 DEF CommitInv

\* The invariant of commitment, for every cluster and across late requests and
\* crashes, until a command is appended while a call of the leader is answered
\* (handleAppendEntriesResponse) or a crash loses an entry (appendLogEntry).
THEOREM CommitInvariant == Spec => [](lapses = {} => CommitExplained)
<1>1. Init => CommitExplained
  <2>1. {<<>>} \in SUBSET Seq(Entry) /\ {} \in SUBSET (Server \X Nat \X Nat)
    OBVIOUS
  <2> QED
    BY <2>1, InitLogs, InitCommit DEF CommitExplained
<1>2. TypeOK /\ TypeOK' /\ ElectionInv /\ ElectionInv' /\ RequestsInv /\ (lapses = {} => CommitExplained)
      /\ [Next]_vars => (lapses = {} => CommitExplained)'
  <2> SUFFICES ASSUME TypeOK, TypeOK', ElectionInv, ElectionInv', RequestsInv, lapses = {} => CommitExplained,
                      [Next]_vars, lapses' = {}
               PROVE  CommitExplained'
    OBVIOUS
  <2>0. CommitExplained
    BY LapsesGrow
  <2>1. PICK H \in SUBSET Seq(Entry), A \in SUBSET (Server \X Nat \X Nat) : LogsInv(H) /\ CommitInv(H, A)
    BY <2>0 DEF CommitExplained
  <2>2. PICK K, B : K = H \cup {log'[n] : n \in Server} /\ B = A \cup Acked'
    OBVIOUS
  <2>3. CommitStep(H, A, K, B)
    BY <2>1, <2>2 DEF CommitStep
  <2>4. LogsInv(K)' /\ CommitInv(K, B)'
    BY <2>3, NextCommit
  <2>5. K \in SUBSET Seq(Entry) /\ B \in SUBSET (Server \X Nat \X Nat)
    BY <2>4 DEF LogsInv, LogsOfWinners, CommitInv, AcksInv
  <2> QED
    BY <2>4, <2>5 DEF CommitExplained
<1> QED
  BY <1>1, <1>2, TypeCorrect, ElectionInvariant, RequestsInvariant, PTL DEF Spec

\* A log that has the chosen entry behind a committed one has the committed one.
LEMMA HasCommitted ==
    ASSUME NEW H, LogsOfWinners(H), NEW h \in H, NEW l \in H, NEW d \in Committed, d.index > 0, Has(h, d),
           NEW t \in Nat, NEW i \in Nat, d.index <= i, HasAt(h, t, i), HasAt(l, t, i)
    PROVE  Has(l, d)
<1>1. h \in Seq(Entry) /\ l \in Seq(Entry) /\ Explains(l, h) /\ d.index \in Nat
  BY DEF LogsOfWinners, Committed
<1>2. \A x \in 1..i : h[x] = l[x]
  BY <1>1, AgreeUpTo
<1>3. d.index \in 1..i /\ i <= Len(l)
  BY <1>1 DEF HasAt
<1> QED
  BY <1>1, <1>2, <1>3 DEF Has

\* What the invariant says of everything that is regarded as committed.
LEMMA CommittedIsSafe ==
    ASSUME TypeOK, CommitExplained
    PROVE  CommittedOnMajority /\ CommittedStable /\ NewestLeaderComplete /\ AppliedIsLogPrefix
<1>1. PICK H, A : LogsInv(H) /\ CommitInv(H, A)
  BY DEF CommitExplained
<1>2. /\ LogsOfWinners(H) /\ AcksInv(H, A) /\ CompleteInv(H, A) /\ decided \subseteq Committed
      /\ \A n \in Server : log[n] \in H /\ log[n] \in Seq(Entry) /\ currentTerm[n] \in Nat
  BY <1>1 DEF LogsInv, LogsOfNode, CommitInv, TypeOK, HistoryTypeOK, PersistentTypeOK
<1>3. \A d \in decided : d.index > 0 /\ d.index \in Nat /\ \E h \in H : Has(h, d) /\ \E t, i \in Nat :
          d.index <= i /\ Chosen(A, t, i) /\ HasAt(h, t, i)
  BY <1>1, <1>2 DEF CommitInv, DecidedInv, Committed
<1>4. CommittedOnMajority
  <2> SUFFICES ASSUME NEW d \in decided PROVE Cardinality({n \in Server : Has(log[n], d)}) >= Majority
    BY DEF CommittedOnMajority
  <2>1. PICK h \in H, t \in Nat, i \in Nat : Has(h, d) /\ d.index <= i /\ Chosen(A, t, i) /\ HasAt(h, t, i)
    BY <1>3
  <2>2. PICK Q \in SUBSET Server : Cardinality(Q) >= Majority /\ \A q \in Q : <<q, t, i>> \in A
    BY <2>1 DEF Chosen
  <2>3. ASSUME NEW q \in Q PROVE Has(log[q], d)
    <3>1. HasAt(log[q], t, i)
      BY <1>2, <2>1, <2>2 DEF AcksInv, Chosen, Choosable
    <3> QED
      BY <1>2, <1>3, <2>1, <3>1, HasCommitted
  <2>4. Q \subseteq {n \in Server : Has(log[n], d)}
    BY <2>3
  <2> QED
    BY <2>2, <2>4, MajorityGrows
<1>5. CommittedStable
  <2>1. ASSUME NEW d \in decided, NEW e \in decided, d.index = e.index,
               NEW h \in H, NEW t \in Nat, NEW i \in Nat, Has(h, d), d.index <= i, Chosen(A, t, i), HasAt(h, t, i),
               NEW k \in H, NEW u \in Nat, NEW j \in Nat, Has(k, e), e.index <= j, Chosen(A, u, j), HasAt(k, u, j),
               t <= u
        PROVE  d.entry = e.entry
    <3>1. CASE t < u
      <4>1. Complete(H, A, k, u)
        BY <1>2, <2>1 DEF CompleteInv, HasAt
      <4>2. HasAt(k, t, i)
        BY <2>1, <3>1, <4>1 DEF Complete, Proposed, Chosen, Choosable
      <4>3. Has(k, d)
        BY <1>2, <1>3, <2>1, <4>2, HasCommitted
      <4> QED
        BY <2>1, <4>3 DEF Has
    <3>2. CASE t = u
      <4>1. /\ Explains(k, h) /\ Explains(h, k) /\ h \in Seq(Entry) /\ k \in Seq(Entry)
            /\ d.index > 0 /\ d.index \in Nat
        BY <1>2, <1>3, <2>1 DEF LogsOfWinners
      <4>2. h[d.index] = k[d.index]
        <5>1. CASE i <= j
          BY <2>1, <3>2, <4>1, <5>1 DEF Explains, HasAt
        <5>2. CASE j <= i
          BY <2>1, <3>2, <4>1, <5>2 DEF Explains, HasAt
        <5> QED
          BY <5>1, <5>2
      <4> QED
        BY <2>1, <4>2 DEF Has
    <3> QED
      BY <2>1, <3>1, <3>2
  <2> SUFFICES ASSUME NEW d \in decided, NEW e \in decided, d.index = e.index PROVE d.entry = e.entry
    BY DEF CommittedStable
  <2>2. PICK h \in H, t \in Nat, i \in Nat : Has(h, d) /\ d.index <= i /\ Chosen(A, t, i) /\ HasAt(h, t, i)
    BY <1>3
  <2>3. PICK k \in H, u \in Nat, j \in Nat : Has(k, e) /\ e.index <= j /\ Chosen(A, u, j) /\ HasAt(k, u, j)
    BY <1>3
  <2>4. CASE t <= u
    BY <2>1, <2>2, <2>3, <2>4
  <2>5. CASE u <= t
    BY <2>1, <2>2, <2>3, <2>5
  <2> QED
    BY <2>4, <2>5
<1>6. NewestLeaderComplete
  <2> SUFFICES ASSUME NEW n \in Server, state[n] = "LEADER", \A m \in Server : currentTerm[m] <= currentTerm[n],
                      NEW d \in decided
               PROVE  Has(log[n], d)
    BY DEF NewestLeaderComplete
  <2>1. PICK h \in H, t \in Nat, i \in Nat : Has(h, d) /\ d.index <= i /\ Chosen(A, t, i) /\ HasAt(h, t, i)
    BY <1>3
  <2>2. t <= currentTerm[n]
    <3>1. PICK Q \in SUBSET Server : Cardinality(Q) >= Majority /\ \A q \in Q : <<q, t, i>> \in A
      BY <2>1 DEF Chosen
    <3>2. PICK q \in Q : TRUE
      BY <3>1, MajoritiesMeet
    <3>3. t <= currentTerm[q] /\ currentTerm[q] <= currentTerm[n]
      BY <1>2, <3>1, <3>2 DEF AcksInv
    <3> QED
      BY <1>2, <3>2, <3>3
  <2>3. HasAt(log[n], t, i)
    <3>1. CASE t < currentTerm[n]
      BY <1>2, <2>1, <3>1 DEF CompleteInv, Complete, Proposed, Chosen, Choosable
    <3>2. CASE t = currentTerm[n]
      BY <1>1, <2>1, <3>2 DEF LogsInv, OwnsTerm, HasAt
    <3> QED
      BY <1>2, <2>2, <3>1, <3>2
  <2> QED
    BY <1>2, <1>3, <2>1, <2>3, HasCommitted
<1>7. AppliedIsLogPrefix
  <2> SUFFICES ASSUME NEW n \in Server
               PROVE  lastApplied[n] <= Len(log[n]) /\ applied[n] = SubSeq(log[n], 1, lastApplied[n])
    BY DEF AppliedIsLogPrefix
  <2>1. /\ Settled(A, log[n], commitIndex[n], currentTerm[n]) /\ lastApplied[n] <= commitIndex[n]
        /\ applied[n] = SubSeq(log[n], 1, lastApplied[n])
    BY <1>1 DEF CommitInv, NodeCommitInv
  <2>2. lastApplied[n] \in Nat /\ commitIndex[n] \in Nat /\ Len(log[n]) \in Nat
    BY <1>2 DEF TypeOK, IndexTypeOK
  <2>3. commitIndex[n] <= Len(log[n])
    BY <2>1, <2>2 DEF Settled, HasAt
  <2> QED
    BY <2>1, <2>2, <2>3
<1> QED
  BY <1>4, <1>5, <1>6, <1>7

\* What any node regards as committed is in the logs of a majority, and no two
\* nodes regard different entries as committed at one index
\* (handleAppendEntriesResponse, updateCommitIndex, handleAppendEntries): in
\* every behaviour, unless a credited call was overtaken by an append or a crash
\* has lost an entry before.
THEOREM CommitSafe == Spec => [](lapses = {} => CommittedOnMajority /\ CommittedStable)
<1>1. TypeOK /\ CommitExplained => CommittedOnMajority /\ CommittedStable
  BY CommittedIsSafe
<1> QED
  BY <1>1, TypeCorrect, CommitInvariant, PTL

\* The leader of the newest term has every entry that any node has ever
\* regarded as committed (isLogUpToDate, handleRequestVote), up to the same
\* events.
THEOREM LeaderComplete == Spec => [](lapses = {} => NewestLeaderComplete)
<1>1. TypeOK /\ CommitExplained => NewestLeaderComplete
  BY CommittedIsSafe
<1> QED
  BY <1>1, TypeCorrect, CommitInvariant, PTL

\* The state machine has been given exactly the first lastApplied entries of the
\* node's log, although the log may be cut (applyCommittedEntriesInternal), up
\* to the same events.
THEOREM AppliedInOrder == Spec => [](lapses = {} => AppliedIsLogPrefix)
<1>1. TypeOK /\ CommitExplained => AppliedIsLogPrefix
  BY CommittedIsSafe
<1> QED
  BY <1>1, TypeCorrect, CommitInvariant, PTL
=============================================================================
