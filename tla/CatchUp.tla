------------------------------- MODULE CatchUp ------------------------------
(***************************************************************************)
(* How a leader that stays in office brings one follower's log in line     *)
(* with its own: the heartbeat task of sendAppendEntriesToPeers            *)
(* (src/raft_node_server.cpp), handleAppendEntries at the follower and     *)
(* handleAppendEntriesResponse at the leader (src/raft/raft_node.cpp), for *)
(* every pair of logs the two may start with.  Peers do not influence each *)
(* other here, so one stands for all.                                      *)
(***************************************************************************)
EXTENDS RaftLog, FiniteSets

CONSTANTS
    Term,               \* the leader's term
    MaxLog,             \* bound: longest log
    MaxLate             \* bound: requests under way that nobody waits for

ASSUME TermIsPositive == Term \in Nat \ {0}
ASSUME CatchUpBounds == MaxLog \in Nat /\ MaxLate \in Nat

VARIABLES
    leaderLog, followerLog,
    nextIndex, matchIndex,   \* the leader's, for this peer
    call,                    \* the leader's task in the RPC pool
    late,                    \* requests whose deadline has passed
    limit,                   \* entries that fit into a message (gRPC receives 4 MB at most)
    overlapped               \* history: a client appended while a call was under way

vars == <<leaderLog, followerLog, nextIndex, matchIndex, call, late, limit, overlapped>>

Entry == [term : 1..Term]
Logs == UNION {[1..k -> Entry] : k \in 0..MaxLog}
Sorted(l) == \A i, j \in DOMAIN l : i <= j => l[i].term <= l[j].term

\* Two logs with an entry of one term, at whatever indexes, agree up to the
\* smaller index: the term's leader wrote both (RaftSafety, LogMatching).
Matching(k, l) ==
    \A i \in DOMAIN k, j \in DOMAIN l :
        k[i].term = l[j].term => SubSeq(k, 1, Min({i, j})) = SubSeq(l, 1, Min({i, j}))

\* The length of the common prefix.
Agreed ==
    Max({0} \cup {i \in DOMAIN leaderLog \cap DOMAIN followerLog :
                    SubSeq(leaderLog, 1, i) = SubSeq(followerLog, 1, i)})

Idle == [type |-> "idle"]
Queued == [type |-> "queued"]
IsRequest(t) == t.type = "AppendEntriesArgs"

\* The leader has just been elected (becomeLeaderInternal): its log is older
\* than its term, and only it will create entries of its term.
Init ==
    /\ leaderLog \in {l \in Logs : Sorted(l) /\ LastTerm(l) < Term}
    /\ followerLog \in {l \in Logs : Sorted(l) /\ LastTerm(l) < Term /\ Matching(leaderLog, l)}
    /\ nextIndex = Len(leaderLog) + 1
    /\ matchIndex = 0
    /\ call = Idle
    /\ late = {}
    /\ limit \in 1..MaxLog
    /\ overlapped = FALSE

\* sendAppendEntriesToPeers, for this peer.
SendAppendEntries ==
    /\ call = Idle
    /\ call' = Queued
    /\ UNCHANGED <<leaderLog, followerLog, nextIndex, matchIndex, late, limit, overlapped>>

\* createAppendEntriesArgs, in a worker of the pool.  Commit indexes play no
\* part here.
CreateAppendEntriesArgs ==
    /\ call = Queued
    /\ call' = CreateArgs(leaderLog, Term, "leader", nextIndex, 0)
    /\ UNCHANGED <<leaderLog, followerLog, nextIndex, matchIndex, late, limit, overlapped>>

\* handleAppendEntries, rules 3 and 4.
HandleAppendEntries(args) ==
    followerLog' = IF LogConsistent(followerLog, args)
                   THEN MergeEntries(followerLog, args.prevLogIndex, args.entries)
                   ELSE followerLog

\* createAppendEntriesArgs sends all the entries from nextIndex_ on; a request
\* that is too large fails at the peer.
Fits(args) == Len(args.entries) <= limit

Deliver ==
    /\ IsRequest(call) /\ Fits(call)
    /\ HandleAppendEntries(call)
    /\ call' = ConsistencyReply(followerLog, Term, call)
    /\ UNCHANGED <<leaderLog, nextIndex, matchIndex, late, limit, overlapped>>

DeliverLate ==
    \E args \in late :
        /\ Fits(args)
        /\ HandleAppendEntries(args)
        /\ late' = late \ {args}
        /\ UNCHANGED <<leaderLog, nextIndex, matchIndex, call, limit, overlapped>>

HandleAppendEntriesResponse ==
    /\ call.type = "AppendEntriesReply"
    /\ \/ /\ call.success
          /\ matchIndex' = ExpectedMatchIndex(leaderLog)
          /\ nextIndex' = ExpectedMatchIndex(leaderLog) + 1
       \/ /\ ~call.success
          /\ nextIndex' = BackedOffNextIndex(leaderLog, call)
          /\ UNCHANGED matchIndex
    /\ call' = Idle
    /\ UNCHANGED <<leaderLog, followerLog, late, limit, overlapped>>

\* connect fails, or the request or its reply is lost.
LoseCall ==
    /\ call # Idle
    /\ call' = Idle
    /\ UNCHANGED <<leaderLog, followerLog, nextIndex, matchIndex, late, limit, overlapped>>

\* The deadline of a call passes while its request is still on its way.
TimeoutCall ==
    /\ IsRequest(call)
    /\ Cardinality(late) < MaxLate
    /\ call' = Idle
    /\ late' = late \cup {call}
    /\ UNCHANGED <<leaderLog, followerLog, nextIndex, matchIndex, limit, overlapped>>

\* appendLogEntry
AppendLogEntry ==
    /\ Len(leaderLog) < MaxLog
    /\ leaderLog' = Append(leaderLog, [term |-> Term])
    /\ overlapped' = (overlapped \/ call # Idle)
    /\ UNCHANGED <<followerLog, nextIndex, matchIndex, call, late, limit>>

Next ==
    \/ SendAppendEntries
    \/ CreateAppendEntriesArgs
    \/ Deliver
    \/ DeliverLate
    \/ HandleAppendEntriesResponse
    \/ LoseCall
    \/ TimeoutCall
    \/ AppendLogEntry

\* A leader keeps sending heartbeats, and a peer that is called again and again
\* answers again and again.
Fairness ==
    /\ WF_vars(SendAppendEntries)
    /\ SF_vars(CreateAppendEntriesArgs)
    /\ SF_vars(Deliver)
    /\ SF_vars(HandleAppendEntriesResponse)

Spec == Init /\ [][Next]_vars /\ Fairness
-----------------------------------------------------------------------------
\* The state holds logs, indexes from 1 and a call in one of its stages; no log
\* has an entry older than the one before it.
TypeOK ==
    /\ leaderLog \in Seq(Entry) /\ Sorted(leaderLog)
    /\ followerLog \in Seq(Entry) /\ Sorted(followerLog)
    /\ nextIndex \in 1..Len(leaderLog) + 1
    /\ matchIndex \in 0..Len(leaderLog)
    /\ call.type \in {"idle", "queued", "AppendEntriesArgs", "AppendEntriesReply"}
    /\ overlapped \in BOOLEAN

\* The two logs always match (requirements.md, 2.1.3), whatever is lost, late
\* or repeated (handleAppendEntries, rules 3 and 4).
LogsMatch == Matching(leaderLog, followerLog)

\* What the leader takes as replicated is replicated (raft_node.h, matchIndex_),
\* whatever is lost, late or repeated, as long as no client appended between the
\* start of a call and its answer: handleAppendEntriesResponse credits the peer
\* with the log as it is when the answer comes.
MatchIndexIsReplicated == ~overlapped => matchIndex <= Agreed

\* The invariant of replication to one follower: whatever is lost, late or
\* repeated, the logs match and the leader's books are right
\* (handleAppendEntries, handleAppendEntriesResponse).
CatchUpInv ==
    /\ TypeOK
    /\ LogsMatch
    /\ MatchIndexIsReplicated

\* A follower never loses an entry it shares with the leader: a late or
\* repeated request with fewer entries removes nothing.
AgreementGrows == [][Agreed' >= Agreed]_vars

\* The follower ends up with the whole log of the leader, even when a match
\* index was credited too early, unless what nextIndex_ leaves to send no longer
\* fits into a message.
FollowerCatchesUp ==
    <>[](Agreed = Len(leaderLog) \/ Len(leaderLog) - nextIndex + 1 > limit)

\* A node that comes back catches up by log replication (architecture.md, 324).
EveryFollowerCatchesUp == <>[](Agreed = Len(leaderLog))
=============================================================================
