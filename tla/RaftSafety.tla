----------------------------- MODULE RaftSafety -----------------------------
(***************************************************************************)
(* What the Raft core promises (RaftNode), and what its documents claim.   *)
(***************************************************************************)
EXTENDS RaftNode

\* At most one node is ever elected in a term, although a node may vote twice
\* in a term (AcceptLeader) and ask for votes in terms it is no candidate of
\* (SendRequestVotes), across crashes and late requests.
ElectionSafety == \A k, l \in leaders : k.term = l.term => k.leader = l.leader

\* Two logs with an entry of one term, at whatever indexes, agree up to the
\* smaller of the two: what handleAppendEntries relies on when it compares only
\* terms, and handleAppendEntriesResponse when it looks for conflictTerm.
LogMatching ==
    \A m, n \in Server : \A i \in DOMAIN log[m], j \in DOMAIN log[n] :
        i <= j /\ log[m][i].term = log[n][j].term => SubSeq(log[m], 1, i) = SubSeq(log[n], 1, i)

\* The file holds the node's term and vote whenever mutex_ is free, so a crash
\* never takes back a term or a vote (persistState before every reply).
TermAndVoteDurable ==
    \A n \in Server : disk[n].term = currentTerm[n] /\ disk[n].votedFor = votedFor[n]

\* A node that votes for two candidates of one term has been a candidate of
\* that term itself, and lost: the term has a leader already (the vote that
\* handleAppendEntries takes back from a candidate cannot elect anybody).
SecondVoteAfterElection ==
    \A u, v \in votes :
        u.term = v.term /\ u.voter = v.voter /\ u.candidate # v.candidate =>
            /\ u.voter \in {u.candidate, v.candidate}
            /\ \E l \in leaders : l.term = u.term /\ l.leader # u.voter

\* Where a node redirects its clients (getLeaderAddress): a peer it names has
\* been elected in the very term the node is in.
LeaderHintIsElected ==
    \A n \in Server : leaderId[n] \in Server =>
        [term |-> currentTerm[n], leader |-> leaderId[n]] \in leaders

\* Requests that may still be executed.
InFlight == {[to |-> c[2], args |-> task[c]] : c \in {d \in DOMAIN task : task[d] \in Request}} \cup late

\* sendRequestVotesToPeers reads term, last index and last term without holding
\* mutex_; even so the requests that can win the current election carry the
\* candidate's log as it is.
VoteRequestsMatchLog ==
    \A m \in InFlight :
        LET c == m.args.candidateId
        IN  m.args \in RequestVoteArgs /\ state[c] = "CANDIDATE" /\ m.args.term = currentTerm[c] =>
                /\ m.args.lastLogIndex = Len(log[c])
                /\ m.args.lastLogTerm = LastTerm(log[c])

Has(l, d) == d.index <= Len(l) /\ l[d.index] = d.entry

\* What any node regards as committed is in the logs of a majority.
CommittedOnMajority ==
    \A d \in decided : Cardinality({n \in Server : Has(log[n], d)}) >= Majority

\* No two nodes ever regard different entries as committed at one index.
CommittedStable == \A d, e \in decided : d.index = e.index => d.entry = e.entry

\* The leader of the newest term has every committed entry.
NewestLeaderComplete ==
    \A n \in Server :
        state[n] = "LEADER" /\ (\A m \in Server : currentTerm[m] <= currentTerm[n]) =>
            \A d \in decided : Has(log[n], d)

\* The state machine has been given exactly the first lastApplied entries of
\* the log as it is now: none skipped, none overwritten after it was applied.
AppliedIsLogPrefix ==
    \A n \in Server : lastApplied[n] <= Len(log[n]) /\ applied[n] = SubSeq(log[n], 1, lastApplied[n])

\* Only a newer term or a crash ends a leadership.
LeaderEndsWithTerm ==
    [][\A n \in Server : state[n] = "LEADER" /\ state'[n] # "LEADER" /\ crashes' = crashes =>
           currentTerm'[n] > currentTerm[n]]_vars

-----------------------------------------------------------------------------
(* Claims of the repository's documents and comments that the code breaks *)

\* requirements.md: a node gives at most one vote in a term.
OneVotePerTerm ==
    \A u, v \in votes : u.term = v.term /\ u.voter = v.voter => u.candidate = v.candidate

\* raft_node.h: startElection is called by followers and candidates.
LeaderStartsNoElection ==
    [][\A n \in Server : state[n] = "LEADER" => state'[n] # "CANDIDATE"]_vars

\* kv_client_test.cpp: a cluster of one node elects itself at once.
SingleNodeElectsItself ==
    Cardinality(Server) = 1 =>
        \A n \in Server : currentTerm[n] > 0 /\ main[n].pc = "loop" => state[n] = "LEADER"
=============================================================================
