----------------------------- MODULE MCRaftNode -----------------------------
(* RaftNode for TLC. *)
EXTENDS RaftElection, TLC

\* Servers that time out are interchangeable, and so are the others.
Symmetry == Permutations(Restless) \cup Permutations(Server \ Restless)

\* nextIndex and matchIndex are read only while LEADER and are overwritten on
\* becoming it.
LiveLeaderVars == [n \in Server |-> IF state[n] = "LEADER" THEN <<nextIndex[n], matchIndex[n]>> ELSE <<>>]

\* For runs whose properties mention neither votes nor leaders: the histories
\* are only written, and currentElectionTerm is read only by candidates, whose
\* term it is.
LogView == <<currentTerm, votedFor, state, leaderId, votesReceived, log, LiveLeaderVars,
             commitVars, disk, main, netVars, crashes>>

\* The log of the file is read only by Restart and by the guard of PersistThread:
\* once no crash is left it makes no difference.
LiveDisk == IF crashes < MaxCrash THEN disk
            ELSE [n \in Server |-> <<disk[n].term, disk[n].votedFor>>]

\* For runs whose properties are about logs and leadership alone: commit indexes,
\* leaderCommit and matchIndex only feed each other and the state machine,
\* leaderId only the redirection of clients.
LiveNextIndex == [n \in Server |-> IF state[n] = "LEADER" THEN [p \in Peers(n) |-> nextIndex[n][p]] ELSE <<>>]
WithoutCommit(t) == IF t.type = "AppendEntriesArgs" THEN [t EXCEPT !.leaderCommit = 0] ELSE t

\* It makes no difference which of a pair's slots holds a call.
Calls == {<<c[1], c[2], WithoutCommit(task[c]),
            Cardinality({s \in Slot : WithoutCommit(task[c[1], c[2], s]) = WithoutCommit(task[c])})>> : c \in Active}

ReplicationView == <<currentTerm, votedFor, state, votesReceived, log, LiveNextIndex, LiveDisk, main,
                     Calls,
                     {[m EXCEPT !.args = WithoutCommit(@)] : m \in late}, crashes>>

\* The same for elections, with the histories and leaderId their properties are
\* about.
ElectionView == <<ReplicationView, leaderId, currentElectionTerm, votes, leaders>>
=============================================================================
