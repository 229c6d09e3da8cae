------------------------------ MODULE RaftLog -------------------------------
(***************************************************************************)
(* What RaftNode (src/raft/raft_node.cpp) computes from a log and a        *)
(* message, without regard to any other state of the node.  A log l is the *)
(* sequence of its entries without the sentinel log_[0]: l[i] is log_[i].  *)
(***************************************************************************)
EXTENDS Integers, Sequences, FiniteSetsExt

\* getLastLogTerm
LastTerm(l) == IF l = <<>> THEN 0 ELSE l[Len(l)].term

\* Mutant: only the lengths are compared.
LogAtLeastAsLong(l, lastLogIndex, lastLogTerm) == lastLogIndex >= Len(l)

\* isLogUpToDate: is a log that ends like this at least as new as l?
IsLogUpToDate(l, lastLogIndex, lastLogTerm) ==
    IF lastLogTerm # LastTerm(l) THEN lastLogTerm > LastTerm(l) ELSE lastLogIndex >= Len(l)
-----------------------------------------------------------------------------
(* The follower: handleAppendEntries *)

\* Mutant: the term of the previous entry is not compared.
PrevTermIgnored(l, args) == FALSE

\* Rule 3: the entry before the new ones is missing, or of another term.
PrevMissing(l, args) == args.prevLogIndex > Len(l)
PrevMismatch(l, args) ==
    /\ args.prevLogIndex \in 1..Len(l)
    /\ l[args.prevLogIndex].term # args.prevLogTerm
LogConsistent(l, args) == ~PrevMissing(l, args) /\ ~PrevMismatch(l, args)

\* The first index of the run of entries of one term that ends at index i.
FirstOfTerm(l, i) == Min({j \in 1..i : \A k \in j..i : l[k].term = l[i].term})

\* The reply, as initialized, with what the rules write into it.
AppendReply(t, ok, index, conflict) ==
    [type |-> "AppendEntriesReply", term |-> t, success |-> ok,
     conflictIndex |-> index, conflictTerm |-> conflict]

\* The answer of a node that accepts the sender's term t.
ConsistencyReply(l, t, args) ==
    IF PrevMissing(l, args) THEN AppendReply(t, FALSE, Len(l) + 1, -1)
    ELSE IF PrevMismatch(l, args)
         THEN AppendReply(t, FALSE, FirstOfTerm(l, args.prevLogIndex), l[args.prevLogIndex].term)
         ELSE AppendReply(t, TRUE, -1, -1)

\* Mutants: conflicting entries are left in place; the log is cut after prev.
WholeLength(l, prev, entries) == Len(l)
MergeTruncating(l, prev, entries) == SubSeq(l, 1, prev) \o entries

\* Rule 4: the first entry of a different term and all that follow it are
\* erased, entries past the end are appended, entries of the same term are kept
\* as they are.
KeptLength(l, prev, entries) ==
    LET conflicts == {i \in prev+1..Len(l) :
                        i - prev <= Len(entries) /\ l[i].term # entries[i - prev].term}
    IN  IF conflicts = {} THEN Len(l) ELSE Min(conflicts) - 1

MergeEntries(l, prev, entries) ==
    LET kept == KeptLength(l, prev, entries)
    IN  SubSeq(l, 1, kept) \o SubSeq(entries, kept - prev + 1, Len(entries))
-----------------------------------------------------------------------------
(* The leader *)

\* createAppendEntriesArgs: all entries from next on.
CreateArgs(l, term, leader, next, commit) ==
    [type |-> "AppendEntriesArgs", term |-> term, leaderId |-> leader,
     prevLogIndex |-> next - 1,
     prevLogTerm |-> IF next - 1 \in 1..Len(l) THEN l[next - 1].term ELSE 0,
     entries |-> SubSeq(l, next, Len(l)),
     leaderCommit |-> commit]

\* Mutant: the next index is not backed off.
NextIndexNotBackedOff(l, reply) == Len(l) + 1

\* handleAppendEntriesResponse, failure branch: after the last entry of the
\* conflicting term if the leader has one, else at the conflict.
BackedOffNextIndex(l, reply) ==
    LET sameTerm == {i \in 1..Len(l) : l[i].term = reply.conflictTerm}
        next == IF reply.conflictTerm # -1 /\ sameTerm # {}
                THEN Max(sameTerm) + 1 ELSE reply.conflictIndex
    IN  IF next < 1 THEN 1 ELSE next

\* handleAppendEntriesResponse, success branch: the match index that is
\* credited to the peer is the end of the log as it is now, not as it was sent.
ExpectedMatchIndex(l) == Len(l)
=============================================================================
