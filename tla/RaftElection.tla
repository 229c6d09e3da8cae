---------------------------- MODULE RaftElection ----------------------------
(***************************************************************************)
(* Why the elections of RaftNode are safe: the inductive invariant behind  *)
(* ElectionSafety.  A vote may be taken back by handleAppendEntries, so    *)
(* "one vote per term" is not available; what holds instead is that every  *)
(* elected node keeps a majority that voted for nobody else in its term.   *)
(***************************************************************************)
EXTENDS RaftSafety

Voted(v, t, c) == \E u \in votes : u.term = t /\ u.voter = v /\ u.candidate = c
Won(n, t) == \E l \in leaders : l.term = t /\ l.leader = n

\* Somebody else than v has won term t.
LostTo(v, t) == \E l \in leaders : l.term = t /\ l.leader # v

\* The voters of term t that voted for n and for nobody else.
LoyalVoters(n, t) ==
    {v \in Server : Voted(v, t, n) /\ \A u \in votes : u.term = t /\ u.voter = v => u.candidate = n}

\* Candidates and leaders hold their own vote; candidates count only votes that
\* were given to them in their term, and have not won it yet; leaders have.
RoleBacked(n) ==
    /\ state[n] # "FOLLOWER" => votedFor[n] = n /\ currentTerm[n] > 0
    /\ state[n] = "CANDIDATE" =>
          /\ currentElectionTerm[n] = currentTerm[n]
          /\ ~Won(n, currentTerm[n])
          /\ \A v \in votesReceived[n] : Voted(v, currentTerm[n], n)
    /\ state[n] = "LEADER" => Won(n, currentTerm[n])
RolesBacked == \A n \in Server : RoleBacked(n)

\* No vote and no victory is of a term the node has not reached.
TermsReached ==
    /\ \A u \in votes : u.term <= currentTerm[u.voter]
    /\ \A l \in leaders : l.term <= currentTerm[l.leader]

\* A node remembers its vote of the current term, unless it voted for itself
\* and lost.
VotesRemembered ==
    \A u \in votes : u.term = currentTerm[u.voter] =>
        \/ votedFor[u.voter] = u.candidate
        \/ u.candidate = u.voter /\ LostTo(u.voter, u.term)

\* The votes that elected a leader bind a majority for good.
LeadersKeepMajority == \A l \in leaders : Cardinality(LoyalVoters(l.leader, l.term)) >= Majority

\* An AppendEntries request comes from the winner of its term, and not from the
\* node it goes to; or it is a default one, of term 0.
GenuineAppend(args, to) ==
    \/ args.leaderId \in Server /\ args.leaderId # to /\ Won(args.leaderId, args.term)
    \/ args.leaderId \notin Server /\ args.term = 0

CallGenuine(c, t) ==
    /\ t.type # "idle" => c[1] # c[2]
    /\ t.type = "RequestVoteArgs" => t.candidateId = c[1]
    /\ t.type = "RequestVoteReply" => (t.voteGranted => Voted(c[2], t.term, c[1]))
    /\ t.type = "AppendEntriesArgs" => GenuineAppend(t, c[2])

CallsGenuine ==
    /\ \A c \in DOMAIN task : CallGenuine(c, task[c])
    /\ \A m \in late : m.args.type = "AppendEntriesArgs" => GenuineAppend(m.args, m.to)

\* The inductive invariant of elections: what backs every role, vote, victory
\* and message (handleRequestVote, handleAppendEntries, handleVoteResponse).
ElectionInv ==
    /\ RolesBacked
    /\ TermsReached
    /\ VotesRemembered
    /\ SecondVoteAfterElection
    /\ LeadersKeepMajority
    /\ CallsGenuine
    /\ TermAndVoteDurable
    /\ LeaderHintIsElected
=============================================================================
